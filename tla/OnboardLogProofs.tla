-------------------------- MODULE OnboardLogProofs ---------------------------
(***************************************************************************)
(* Proofs about OnboardLog for any number of names, minutes, runs and       *)
(* records: the types, one file per run and one run per file, and, as long  *)
(* as a minute has a name left, that no file is clobbered and that the log  *)
(* implements Journal.                                                      *)
(***************************************************************************)
EXTENDS OnboardLog, SequenceTheorems, FiniteSetTheorems, WellFoundedInduction, TLAPS

\* A prefix is shorter and agrees element by element.
LEMMA PrefixIff ==
  ASSUME NEW S, NEW s \in Seq(S), NEW t \in Seq(S)
  PROVE  IsPrefix(s, t) <=> Len(s) <= Len(t) /\ \A i \in 1..Len(s) : s[i] = t[i]
<1>0. Len(s) \in Nat /\ Len(t) \in Nat
  OBVIOUS
<1>1. SubSeq(s, 1, Len(s)) = s
  BY SubSeqFull
<1>2. ASSUME Len(s) <= Len(t)
      PROVE  /\ SubSeq(t, 1, Len(s)) \in Seq(S)
             /\ Len(SubSeq(t, 1, Len(s))) = Len(s)
             /\ \A i \in 1..Len(s) : SubSeq(t, 1, Len(s))[i] = t[i]
  <2>1. \A i \in 1..Len(s) : t[i] \in S
    BY <1>0, <1>2, ElementOfSeq
  <2> QED BY <1>0, <1>2, <2>1, SubSeqProperties
<1>3. ASSUME Len(s) <= Len(t), s = SubSeq(t, 1, Len(s))
      PROVE  \A i \in 1..Len(s) : s[i] = t[i]
  BY <1>2, <1>3
<1>4. ASSUME Len(s) <= Len(t), \A i \in 1..Len(s) : s[i] = t[i]
      PROVE  s = SubSeq(t, 1, Len(s))
  BY <1>2, <1>4, SeqEqual
<1> QED BY <1>1, <1>3, <1>4 DEF IsPrefix

\* The first elements of a sequence, and what they make of another before it.
LEMMA PartProperties ==
  ASSUME NEW S, NEW s \in Seq(S), NEW t \in Seq(S), NEW k \in 0..Len(t)
  PROVE  /\ SubSeq(t, 1, k) \in Seq(S) /\ Len(SubSeq(t, 1, k)) = k
         /\ \A i \in 1..k : SubSeq(t, 1, k)[i] = t[i]
         /\ s \o SubSeq(t, 1, k) \in Seq(S)
         /\ Len(s \o SubSeq(t, 1, k)) = Len(s) + k
         /\ \A i \in 1..Len(s) : (s \o SubSeq(t, 1, k))[i] = s[i]
         /\ \A i \in 1..k : (s \o SubSeq(t, 1, k))[Len(s) + i] = t[i]
<1>0. Len(s) \in Nat /\ Len(t) \in Nat
  OBVIOUS
<1>1. \A i \in 1..k : t[i] \in S
  BY <1>0, ElementOfSeq
<1> DEFINE u == SubSeq(t, 1, k)
<1>2. u \in Seq(S) /\ Len(u) = k /\ \A i \in 1..k : u[i] = t[i]
  BY <1>0, <1>1, SubSeqProperties
<1> HIDE DEF u
<1>3. /\ s \o u \in Seq(S) /\ Len(s \o u) = Len(s) + k
      /\ \A i \in 1..Len(s) + k : (s \o u)[i] = IF i <= Len(s) THEN s[i] ELSE u[i - Len(s)]
  BY <1>2, ConcatProperties
<1>4. \A i \in 1..Len(s) : (s \o u)[i] = s[i]
  BY <1>0, <1>3
<1>5. \A i \in 1..k : (s \o u)[Len(s) + i] = t[i]
  <2> SUFFICES ASSUME NEW i \in 1..k PROVE (s \o u)[Len(s) + i] = t[i]
    OBVIOUS
  <2>1. Len(s) + i \in 1..Len(s) + k /\ ~(Len(s) + i <= Len(s)) /\ Len(s) + i - Len(s) = i
    BY <1>0
  <2> QED BY <1>2, <1>3, <2>1
<1> QED BY <1>2, <1>3, <1>4, <1>5 DEF u

\* A set of numbers that is not empty has a least one.
LEMMA LeastNumber ==
  ASSUME NEW S \in SUBSET Nat, S # {}
  PROVE  \E n \in S : \A m \in S : n <= m
<1>1. PICK n \in S : \A m \in S : ~(<<m, n>> \in OpToRel(<, Nat))
  BY NatLessThanWellFounded, WFMin, Zenon
<1>2. \A m \in S : ~(m < n)
  BY <1>1, Zenon DEF OpToRel
<1> QED BY <1>2

-----------------------------------------------------------------------------
\* Has the minute a name left that log_open would try?
NameLeft == \E n \in 1..(Tries - 1) : ~cache[<<minute, n>>].exists

\* log_open's choice is a name it may try, and a new one if there is any.
LEMMA FreeNameIsNew ==
  ASSUME TypeOK
  PROVE  FreeName \in Paths /\ (NameLeft => ~cache[FreeName].exists)
<1> DEFINE Free == {n \in 1..(Tries - 1) : ~cache[<<minute, n>>].exists}
           Least == CHOOSE n \in Free : \A m \in Free : n <= m
<1>1. Tries - 1 \in 1..(Tries - 1) /\ minute \in Minutes /\ Free \subseteq Nat
  BY LogAssumption DEF TypeOK
<1>2. FreeName = <<minute, IF Free = {} THEN Tries - 1 ELSE Least>>
  BY DEF FreeName
<1>3. CASE Free = {}
  BY <1>1, <1>2, <1>3 DEF Paths, NameLeft
<1>4. CASE Free # {}
  <2>1. \E n \in Free : \A m \in Free : n <= m
    BY <1>1, <1>4, LeastNumber
  <2>2. Least \in Free
    BY <2>1
  <2>3. Least \in 1..(Tries - 1) /\ ~cache[<<minute, Least>>].exists
    BY <2>2
  <2>4. FreeName = <<minute, Least>>
    BY <1>2, <1>4
  <2> HIDE DEF Least, Free
  <2> QED BY <1>1, <2>3, <2>4 DEF Paths
<1> QED BY <1>3, <1>4

\* What flushing k records of the buffer makes of the files.
LEMMA FlushedFiles ==
  ASSUME TypeOK, NEW k \in 0..Len(buffer)
  PROVE  /\ Flushed(path, k) \in [Paths -> Files]
         /\ \A p \in Paths \ {path} : Flushed(path, k)[p] = cache[p]
         /\ Flushed(path, k)[path].exists
         /\ Flushed(path, k)[path].recs = cache[path].recs \o SubSeq(buffer, 1, k)
<1> DEFINE new == cache[path].recs \o SubSeq(buffer, 1, k)
<1>1. /\ path \in Paths /\ cache \in [Paths -> Files]
      /\ cache[path].recs \in Seq(Record) /\ buffer \in Seq(Record)
  BY DEF TypeOK, Files
<1>2. new \in Seq(Record)
  BY <1>1, PartProperties
<1>3. Flushed(path, k) = [cache EXCEPT ![path] = File(new)]
  BY <1>1 DEF Flushed
<1> HIDE DEF new
<1>4. File(new) \in Files /\ File(new).exists /\ File(new).recs = new
  BY <1>2 DEF File, Files
<1>5. /\ Flushed(path, k) \in [Paths -> Files] /\ Flushed(path, k)[path] = File(new)
      /\ \A p \in Paths \ {path} : Flushed(path, k)[p] = cache[p]
  BY <1>1, <1>3, <1>4
<1> QED BY <1>4, <1>5 DEF new

\* Flushing takes nothing out of a file.
LEMMA FlushedGrows ==
  ASSUME TypeOK, NEW k \in 0..Len(buffer), NEW p \in Paths
  PROVE  /\ Len(cache[p].recs) <= Len(Flushed(path, k)[p].recs)
         /\ \A i \in 1..Len(cache[p].recs) : Flushed(path, k)[p].recs[i] = cache[p].recs[i]
         /\ cache[p].exists => Flushed(path, k)[p].exists
<1>1. /\ cache[p].recs \in Seq(Record) /\ buffer \in Seq(Record)
      /\ Len(cache[p].recs) \in Nat
  BY DEF TypeOK, Files
<1>2. CASE p = path
  <2> DEFINE s == cache[path].recs
             u == SubSeq(buffer, 1, k)
  <2>0. s \in Seq(Record) /\ buffer \in Seq(Record)
    BY <1>1, <1>2
  <2>1. Len(s \o u) = Len(s) + k /\ \A i \in 1..Len(s) : (s \o u)[i] = s[i]
    <3> HIDE DEF s
    <3>1. Len(s \o u) = Len(s) + k
      BY <2>0, PartProperties, Z3T(30)
    <3>2. \A i \in 1..Len(s) : (s \o u)[i] = s[i]
      BY <2>0, PartProperties
    <3> QED BY <3>1, <3>2
  <2>2. Flushed(path, k)[path].recs = s \o u /\ Flushed(path, k)[path].exists
    BY FlushedFiles
  <2>3. Len(s) \in Nat /\ k \in Nat
    BY <1>1, <1>2
  <2> HIDE DEF u
  <2>4. Len(s) <= Len(s \o u)
    BY <2>1, <2>3
  <2> QED BY <1>2, <2>1, <2>2, <2>4
<1>3. CASE p # path
  <2>1. Flushed(path, k)[p] = cache[p]
    BY <1>3, FlushedFiles
  <2> QED BY <1>1, <2>1
<1> QED BY <1>2, <1>3

-----------------------------------------------------------------------------
\* The card is behind the cache, and a file that does not exist is empty.
Behind ==
  \A p \in Paths : /\ card[p].exists => cache[p].exists
                   /\ IsPrefix(card[p].recs, cache[p].recs)

Absent ==
  \A p \in Paths : /\ ~cache[p].exists => cache[p].recs = <<>>
                   /\ ~card[p].exists => card[p].recs = <<>>

\* The file that is being written exists.
OpenExists == (alive /\ state = "open") => cache[path].exists

LEMMA TypeParts ==
  ASSUME TypeOK
  PROVE  /\ Behind
         /\ \A p \in Paths : /\ cache[p].recs \in Seq(Record) /\ card[p].recs \in Seq(Record)
                             /\ Len(cache[p].recs) \in Nat /\ Len(card[p].recs) \in Nat
                             /\ Len(card[p].recs) <= Len(cache[p].recs)
                             /\ \A i \in 1..Len(card[p].recs) :
                                  card[p].recs[i] = cache[p].recs[i]
<1>1. Behind
  BY DEF TypeOK, Behind
<1>2. ASSUME NEW p \in Paths
      PROVE  /\ cache[p].recs \in Seq(Record) /\ card[p].recs \in Seq(Record)
             /\ Len(cache[p].recs) \in Nat /\ Len(card[p].recs) \in Nat
  BY DEF TypeOK, Files
<1>3. ASSUME NEW p \in Paths
      PROVE  /\ Len(card[p].recs) <= Len(cache[p].recs)
             /\ \A i \in 1..Len(card[p].recs) : card[p].recs[i] = cache[p].recs[i]
  BY <1>1, <1>2, PrefixIff DEF Behind
<1> QED BY <1>1, <1>2, <1>3

\* TypeOK in two parts: what a step leaves of the scalars, and of the files.
Scalars ==
  /\ run \in 1..MaxRuns /\ alive \in BOOLEAN /\ minute \in Minutes
  /\ state \in {"unopened", "open", "off"}
  /\ path \in Paths
  /\ seq \in 0..MaxRecords
  /\ buffer \in Seq(Record)
  /\ (~alive \/ state # "open") => buffer = <<>>
  /\ claimed \subseteq Record

FilesTyped ==
  /\ cache \in [Paths -> Files] /\ card \in [Paths -> Files]
  /\ Behind /\ Absent

LEMMA TypeIsParts == (TypeOK /\ Absent) <=> (Scalars /\ FilesTyped)
  BY DEF TypeOK, Scalars, FilesTyped, Behind

\* Steps that only flush, and steps that flush and then write one file to
\* the card.
LEMMA FlushTyped ==
  ASSUME TypeOK, Absent, NEW k \in 0..Len(buffer), cache' = Flushed(path, k), card' = card
  PROVE  FilesTyped'
<1>1. cache' \in [Paths -> Files] /\ card' \in [Paths -> Files]
  BY FlushedFiles DEF TypeOK
<1>2. ASSUME NEW p \in Paths
      PROVE  /\ card'[p].exists => cache'[p].exists
             /\ IsPrefix(card'[p].recs, cache'[p].recs)
             /\ ~cache'[p].exists => cache'[p].recs = <<>>
             /\ ~card'[p].exists => card'[p].recs = <<>>
  <2>1. /\ Len(cache[p].recs) <= Len(cache'[p].recs)
        /\ \A i \in 1..Len(cache[p].recs) : cache'[p].recs[i] = cache[p].recs[i]
        /\ cache[p].exists => cache'[p].exists
    BY FlushedGrows
  <2>2. /\ card[p].exists => cache[p].exists
        /\ Len(card[p].recs) <= Len(cache[p].recs)
        /\ \A i \in 1..Len(card[p].recs) : card[p].recs[i] = cache[p].recs[i]
        /\ Len(card[p].recs) \in Nat /\ Len(cache[p].recs) \in Nat
        /\ card[p].recs \in Seq(Record)
    BY TypeParts DEF Behind
  <2>3. cache'[p].recs \in Seq(Record) /\ Len(cache'[p].recs) \in Nat
    BY <1>1 DEF Files
  <2>4. /\ Len(card[p].recs) <= Len(cache'[p].recs)
        /\ \A i \in 1..Len(card[p].recs) : card[p].recs[i] = cache'[p].recs[i]
    <3>1. Len(card[p].recs) <= Len(cache'[p].recs)
      BY <2>1, <2>2, <2>3, Z3T(30)
    <3>2. \A i \in 1..Len(card[p].recs) : i \in 1..Len(cache[p].recs)
      BY <2>2
    <3> QED BY <2>1, <2>2, <3>1, <3>2
  <2>5. IsPrefix(card[p].recs, cache'[p].recs)
    BY <2>2, <2>3, <2>4, PrefixIff
  <2>6. ~cache'[p].exists => cache'[p].recs = <<>>
    <3>1. CASE p = path
      BY <3>1, FlushedFiles
    <3>2. CASE p # path
      <4>1. cache'[p] = cache[p]
        BY <3>2, FlushedFiles
      <4> QED BY <4>1 DEF Absent
    <3> QED BY <3>1, <3>2
  <2> QED BY <2>1, <2>2, <2>5, <2>6 DEF Absent
<1> QED BY <1>1, <1>2 DEF FilesTyped, Behind, Absent

LEMMA PrefixOfItself == ASSUME NEW S, NEW s \in Seq(S) PROVE IsPrefix(s, s)
  BY PrefixIff

LEMMA SyncTyped ==
  ASSUME TypeOK, Absent, NEW k \in 0..Len(buffer), cache' = Flushed(path, k),
         card' = [card EXCEPT ![path] = cache'[path]]
  PROVE  FilesTyped'
<1>1. cache' \in [Paths -> Files] /\ path \in Paths /\ card \in [Paths -> Files]
  BY FlushedFiles DEF TypeOK
<1>2. card' \in [Paths -> Files]
  BY <1>1
<1>3. ASSUME NEW p \in Paths
      PROVE  /\ card'[p].exists => cache'[p].exists
             /\ IsPrefix(card'[p].recs, cache'[p].recs)
             /\ ~cache'[p].exists => cache'[p].recs = <<>>
             /\ ~card'[p].exists => card'[p].recs = <<>>
  <2>1. CASE p = path
    <3>1. card'[p] = cache'[p] /\ cache'[p].exists /\ cache'[p].recs \in Seq(Record)
      BY <1>1, <2>1, FlushedFiles DEF Files
    <3> QED BY <3>1, PrefixOfItself
  <2>2. CASE p # path
    <3>1. card'[p] = card[p] /\ cache'[p] = cache[p]
      BY <1>1, <2>2, FlushedFiles
    <3> QED BY <3>1, TypeParts DEF Absent, Behind
  <2> QED BY <2>1, <2>2
<1> QED BY <1>1, <1>2, <1>3 DEF FilesTyped, Behind, Absent

LEMMA OpenTyped ==
  ASSUME TypeOK, Absent, NEW f \in Paths,
         cache' = [cache EXCEPT ![f] = File(<<>>)],
         card' = [card EXCEPT ![f] = IF @.exists THEN File(<<>>) ELSE @]
  PROVE  FilesTyped'
<1>1. /\ File(<<>>) \in Files /\ File(<<>>).exists /\ File(<<>>).recs = <<>>
      /\ cache \in [Paths -> Files] /\ card \in [Paths -> Files]
  <2>1. <<>> \in Seq(Record)
    BY EmptySeq
  <2> QED BY <2>1 DEF TypeOK, File, Files
<1>2. cache' \in [Paths -> Files] /\ card' \in [Paths -> Files]
  BY <1>1
<1>3. IsPrefix(<<>>, <<>>)
  BY EmptySeq, PrefixOfItself
<1>4. ASSUME NEW p \in Paths
      PROVE  /\ card'[p].exists => cache'[p].exists
             /\ IsPrefix(card'[p].recs, cache'[p].recs)
             /\ ~cache'[p].exists => cache'[p].recs = <<>>
             /\ ~card'[p].exists => card'[p].recs = <<>>
  <2>1. CASE p = f
    <3>1. /\ cache'[p] = File(<<>>)
          /\ card'[p] = File(<<>>) \/ (card'[p] = card[p] /\ ~card[p].exists)
      BY <1>1, <2>1
    <3>2. card'[p].recs = <<>>
      BY <3>1, <1>1 DEF Absent
    <3> QED BY <1>1, <1>3, <3>1, <3>2
  <2>2. CASE p # f
    <3>1. card'[p] = card[p] /\ cache'[p] = cache[p]
      BY <1>1, <2>2
    <3> QED BY <3>1, TypeParts DEF Absent, Behind
  <2> QED BY <2>1, <2>2
<1> QED BY <1>2, <1>4 DEF FilesTyped, Behind, Absent

\* What the kernel writes back of a file: its beginning, and no less than is
\* on the card already.
LEMMA WriteBackFacts ==
  ASSUME TypeOK, WriteBack
  PROVE  \E p \in Paths :
           /\ cache[p].exists /\ card'[p].exists /\ card' \in [Paths -> Files]
           /\ card'[p].recs \in Seq(Record) /\ Len(card'[p].recs) \in Nat
           /\ Len(card[p].recs) <= Len(card'[p].recs)
           /\ Len(card'[p].recs) <= Len(cache[p].recs)
           /\ \A i \in 1..Len(card'[p].recs) : card'[p].recs[i] = cache[p].recs[i]
           /\ \A q \in Paths \ {p} : card'[q] = card[q]
<1>0. PICK p \in Paths : \E n \in Len(card[p].recs)..Len(cache[p].recs) :
        /\ cache[p].exists
        /\ card' = [card EXCEPT ![p] = File(SubSeq(cache[p].recs, 1, n))]
  BY DEF WriteBack
<1>1. PICK n \in Len(card[p].recs)..Len(cache[p].recs) :
        /\ cache[p].exists
        /\ card' = [card EXCEPT ![p] = File(SubSeq(cache[p].recs, 1, n))]
  BY <1>0
<1> DEFINE new == SubSeq(cache[p].recs, 1, n)
<1>2. /\ cache[p].recs \in Seq(Record) /\ Len(cache[p].recs) \in Nat
      /\ Len(card[p].recs) \in Nat
  BY TypeParts
<1>3. /\ n \in 0..Len(cache[p].recs) /\ n \in Nat
      /\ Len(card[p].recs) <= n /\ n <= Len(cache[p].recs)
  BY <1>2
<1>4. new \in Seq(Record) /\ Len(new) = n /\ \A i \in 1..n : new[i] = cache[p].recs[i]
  BY <1>2, <1>3, PartProperties
<1> HIDE DEF new
<1>5. File(new) \in Files /\ File(new).exists /\ File(new).recs = new
  BY <1>4 DEF File, Files
<1>6. card \in [Paths -> Files] /\ card' = [card EXCEPT ![p] = File(new)]
  BY <1>1 DEF TypeOK, new
<1>7. /\ card' \in [Paths -> Files] /\ card'[p] = File(new)
      /\ \A q \in Paths \ {p} : card'[q] = card[q]
  BY <1>5, <1>6
<1> QED BY <1>1, <1>3, <1>4, <1>5, <1>7

LEMMA WriteBackTyped ==
  ASSUME TypeOK, Absent, WriteBack PROVE FilesTyped'
<1>1. PICK p \in Paths :
        /\ cache[p].exists /\ card'[p].exists /\ card' \in [Paths -> Files]
        /\ card'[p].recs \in Seq(Record) /\ Len(card'[p].recs) \in Nat
        /\ Len(card[p].recs) <= Len(card'[p].recs)
        /\ Len(card'[p].recs) <= Len(cache[p].recs)
        /\ \A i \in 1..Len(card'[p].recs) : card'[p].recs[i] = cache[p].recs[i]
        /\ \A q \in Paths \ {p} : card'[q] = card[q]
  BY WriteBackFacts
<1>2. cache' = cache /\ cache \in [Paths -> Files]
  BY DEF WriteBack, TypeOK
<1>3. IsPrefix(card'[p].recs, cache[p].recs)
  BY <1>1, TypeParts, PrefixIff
<1>4. ASSUME NEW q \in Paths
      PROVE  /\ card'[q].exists => cache[q].exists
             /\ IsPrefix(card'[q].recs, cache[q].recs)
             /\ ~cache[q].exists => cache[q].recs = <<>>
             /\ ~card'[q].exists => card'[q].recs = <<>>
  <2>1. CASE q = p
    BY <1>1, <1>3, <2>1 DEF Absent
  <2>2. CASE q # p
    <3>1. card'[q] = card[q]
      BY <1>1, <2>2
    <3> QED BY <3>1, TypeParts DEF Absent, Behind
  <2> QED BY <2>1, <2>2
<1> QED BY <1>1, <1>2, <1>4 DEF FilesTyped, Behind, Absent

LEMMA PowerLossTyped ==
  ASSUME TypeOK, Absent, PowerLoss PROVE FilesTyped'
<1>1. cache' = card /\ card' = card /\ card \in [Paths -> Files]
  BY DEF PowerLoss, TypeOK
<1>2. \A p \in Paths : IsPrefix(card[p].recs, card[p].recs)
  BY TypeParts, PrefixOfItself
<1> QED BY <1>1, <1>2 DEF FilesTyped, Behind, Absent

\* The record of this pass, and a buffer it is appended to.
LEMMA BufferTyped ==
  ASSUME TypeOK, seq < MaxRecords
  PROVE  /\ <<run, seq>> \in Record /\ <<<<run, seq>>>> \in Seq(Record)
         /\ Append(buffer, <<run, seq>>) \in Seq(Record)
         /\ \A k \in 0..Len(buffer) : SubSeq(buffer, k + 1, Len(buffer)) \in Seq(Record)
         /\ \A k \in 0..Len(buffer) :
              Append(SubSeq(buffer, k + 1, Len(buffer)), <<run, seq>>) \in Seq(Record)
<1>1. buffer \in Seq(Record) /\ Len(buffer) \in Nat /\ <<run, seq>> \in Record
  BY LogAssumption DEF TypeOK, Record
<1>2. ASSUME NEW k \in 0..Len(buffer)
      PROVE  SubSeq(buffer, k + 1, Len(buffer)) \in Seq(Record)
  <2>1. \A i \in (k + 1)..Len(buffer) : i \in 1..Len(buffer)
    BY <1>1
  <2>2. \A i \in (k + 1)..Len(buffer) : buffer[i] \in Record
    BY <1>1, <2>1, ElementOfSeq
  <2> QED BY <1>1, <2>2, SubSeqProperties
<1>3. Append(buffer, <<run, seq>>) \in Seq(Record)
  BY <1>1, AppendProperties
<1>4. ASSUME NEW k \in 0..Len(buffer)
      PROVE  Append(SubSeq(buffer, k + 1, Len(buffer)), <<run, seq>>) \in Seq(Record)
  BY <1>1, <1>2, <1>4, AppendProperties
<1>5. <<<<run, seq>>>> \in Seq(Record)
  BY <1>1
<1> QED BY <1>1, <1>2, <1>3, <1>4, <1>5

LEMMA TypeInit == Init => TypeOK /\ Absent
<1> SUFFICES ASSUME Init PROVE Scalars /\ FilesTyped
  BY TypeIsParts
<1>1. /\ <<>> \in Seq(Record) /\ path \in Paths /\ NoFile \in Files
      /\ ~NoFile.exists /\ NoFile.recs = <<>>
  BY LogAssumption, EmptySeq DEF Init, Paths, NoFile, Files
<1>2. Scalars
  BY <1>1, LogAssumption DEF Init, Scalars
<1>3. IsPrefix(<<>>, <<>>)
  BY EmptySeq, PrefixOfItself
<1>4. FilesTyped
  BY <1>1, <1>3 DEF Init, FilesTyped, Behind, Absent
<1> QED BY <1>2, <1>4

LEMMA TypeStep == TypeOK /\ Absent /\ [Next]_vars => (TypeOK /\ Absent)'
<1> SUFFICES ASSUME TypeOK, Absent, [Next]_vars PROVE Scalars' /\ FilesTyped'
  BY TypeIsParts DEF TypeOK, Scalars, FilesTyped, Behind, Absent
<1>0. Scalars /\ FilesTyped
  BY TypeIsParts
<1>00. 0 \in 0..Len(buffer) /\ Len(buffer) \in 0..Len(buffer) /\ Len(buffer) \in Nat
  BY DEF TypeOK
<1>1. CASE WriteOff \/ OpenFails
  BY <1>0, <1>1, LogAssumption DEF WriteOff, OpenFails, Sampled, Scalars, FilesTyped,
                                   Behind, Absent
<1>2. CASE Open
  <2>1. FilesTyped'
    BY <1>2, FreeNameIsNew, OpenTyped DEF Open
  <2>2. Scalars'
    BY <1>0, <1>2, FreeNameIsNew, BufferTyped, LogAssumption DEF Open, Sampled, Scalars
  <2> QED BY <2>1, <2>2
<1>3. CASE Write
  <2>1. CASE cache' = cache /\ buffer' = Append(buffer, <<run, seq>>)
    BY <1>0, <1>3, <2>1, BufferTyped, LogAssumption DEF Write, Sampled, Scalars,
                                                        FilesTyped, Behind, Absent
  <2>2. ASSUME NEW k \in 1..Len(buffer), cache' = Flushed(path, k),
               buffer' = Append(SubSeq(buffer, k + 1, Len(buffer)), <<run, seq>>)
        PROVE  Scalars' /\ FilesTyped'
    <3>1. k \in 0..Len(buffer) /\ card' = card
      BY <1>3, <1>00 DEF Write
    <3>2. FilesTyped'
      BY <2>2, <3>1, FlushTyped
    <3>3. buffer' \in Seq(Record)
      BY <1>3, <2>2, <3>1, BufferTyped DEF Write
    <3>4. Scalars'
      BY <1>0, <1>3, <3>3, LogAssumption DEF Write, Sampled, Scalars
    <3> QED BY <3>2, <3>4
  <2> QED BY <1>3, <2>1, <2>2 DEF Write
<1>4. CASE WriteFails
  <2>1. PICK k \in 0..Len(buffer) : cache' = Flushed(path, k)
    BY <1>4 DEF WriteFails
  <2>2. FilesTyped'
    BY <1>4, <2>1, FlushTyped DEF WriteFails
  <2>3. Scalars'
    BY <1>0, <1>4, LogAssumption, EmptySeq DEF WriteFails, Sampled, Scalars, OffAfterError,
                                               BufferAfterError
  <2> QED BY <2>2, <2>3
<1>5. Covered \subseteq Record
  BY DEF Covered
<1>6. CASE Sync \/ Close
  <2>1. cache' = Flushed(path, Len(buffer)) /\ card' = [card EXCEPT ![path] = cache'[path]]
    BY <1>6 DEF Sync, Close, FlushFirst
  <2>2. FilesTyped'
    BY <1>00, <2>1, SyncTyped
  <2>3. Scalars'
    BY <1>0, <1>5, <1>6, EmptySeq DEF Sync, Close, Scalars
  <2> QED BY <2>2, <2>3
<1>7. CASE SyncErrs
  <2>1. PICK k \in 0..(Len(buffer) - 1) : /\ cache' = Flushed(path, k)
                                         /\ card' = [card EXCEPT ![path] = cache'[path]]
    BY <1>7 DEF SyncErrs
  <2>2. k \in 0..Len(buffer)
    BY <1>00
  <2>3. FilesTyped'
    BY <2>1, <2>2, SyncTyped
  <2>4. Scalars'
    BY <1>0, <1>7, EmptySeq DEF SyncErrs, Scalars
  <2> QED BY <2>3, <2>4
<1>8. CASE Die \/ Restart \/ Clock
  <2>1. cache' = cache /\ card' = card
    BY <1>8 DEF Die, Restart, Clock
  <2>2. FilesTyped'
    BY <1>0, <2>1 DEF FilesTyped, Behind, Absent
  <2>3. ASSUME Die PROVE Scalars'
    BY <1>0, <2>3, EmptySeq DEF Die, Scalars
  <2>4. ASSUME Restart PROVE Scalars'
    BY <1>0, <2>4, LogAssumption DEF Restart, Scalars
  <2>5. ASSUME Clock PROVE Scalars'
    BY <1>0, <2>5 DEF Clock, Scalars
  <2>6. Scalars'
    BY <1>8, <2>3, <2>4, <2>5
  <2> QED BY <2>2, <2>6
<1>9. CASE WriteBack
  BY <1>0, <1>9, WriteBackTyped DEF WriteBack, Scalars
<1>10. CASE PowerLoss
  BY <1>0, <1>10, PowerLossTyped, EmptySeq DEF PowerLoss, Scalars
<1>11. CASE UNCHANGED vars
  BY <1>0, <1>11 DEF vars, Scalars, FilesTyped, Behind, Absent
<1> QED BY <1>1, <1>2, <1>3, <1>4, <1>6, <1>7, <1>8, <1>9, <1>10, <1>11 DEF Next

\* Every state of the log has its type, with any number of names, minutes,
\* runs and records: the card never holds what the cache does not.
THEOREM TypeCorrect == Spec => [](TypeOK /\ Absent)
  BY TypeInit, TypeStep, PTL DEF Spec

-----------------------------------------------------------------------------
\* What each step does to the contents of the files, buffer included.
LEMMA ContentsTyped ==
  ASSUME TypeOK, NEW p \in Paths
  PROVE  /\ Contents(p) \in Seq(Record) /\ Len(Contents(p)) \in Nat
         /\ DOMAIN Contents(p) = 1..Len(Contents(p))
         /\ \A i \in 1..Len(Contents(p)) : Contents(p)[i] \in Record
<1>1. cache[p].recs \in Seq(Record) /\ buffer \in Seq(Record)
  BY TypeParts DEF TypeOK
<1>2. cache[p].recs \o buffer \in Seq(Record)
  BY <1>1, ConcatProperties
<1>3. Contents(p) \in Seq(Record)
  BY <1>1, <1>2 DEF Contents
<1>4. \A i \in 1..Len(Contents(p)) : Contents(p)[i] \in Record
  BY <1>3, ElementOfSeq
<1> QED BY <1>3, <1>4, LenProperties

\* The elements of a sequence behind another one.
LEMMA ConcatElements ==
  ASSUME NEW S, NEW s \in Seq(S), NEW t \in Seq(S)
  PROVE  /\ Len(s \o t) = Len(s) + Len(t)
         /\ \A i \in 1..Len(s) : (s \o t)[i] = s[i]
         /\ \A i \in 1..Len(t) : (s \o t)[Len(s) + i] = t[i]
<1>0. Len(s) \in Nat /\ Len(t) \in Nat
  OBVIOUS
<1>1. /\ Len(s \o t) = Len(s) + Len(t)
      /\ \A i \in 1..Len(s) + Len(t) :
           (s \o t)[i] = IF i <= Len(s) THEN s[i] ELSE t[i - Len(s)]
  BY ConcatProperties
<1>2. \A i \in 1..Len(s) : (s \o t)[i] = s[i]
  BY <1>0, <1>1
<1>3. ASSUME NEW i \in 1..Len(t) PROVE (s \o t)[Len(s) + i] = t[i]
  <2>1. Len(s) + i \in 1..Len(s) + Len(t) /\ ~(Len(s) + i <= Len(s)) /\ Len(s) + i - Len(s) = i
    BY <1>0
  <2> QED BY <1>1, <2>1
<1> QED BY <1>1, <1>2, <1>3

\* Sequence c is s, then t, then the element e.
Chain(c, s, t, e) ==
  /\ Len(c) = Len(s) + Len(t) + 1
  /\ \A i \in 1..Len(s) : c[i] = s[i]
  /\ \A i \in 1..Len(t) : c[Len(s) + i] = t[i]
  /\ c[Len(s) + Len(t) + 1] = e

\* Nothing is lost or moved when no part of the buffer t, or its first k
\* records, run over behind the records s of a file.
LEMMA StaysBehind ==
  ASSUME NEW S, NEW s \in Seq(S), NEW t \in Seq(S), NEW e \in S,
         NEW w, w = Append(t, e)
  PROVE  Chain(s \o w, s, t, e)
<1>0. Len(s) \in Nat /\ Len(t) \in Nat
  OBVIOUS
<1>1. /\ w \in Seq(S) /\ Len(w) = Len(t) + 1 /\ w[Len(t) + 1] = e
      /\ \A i \in 1..Len(t) : w[i] = t[i]
  BY AppendProperties
<1>2. /\ Len(s \o w) = Len(s) + Len(w)
      /\ \A i \in 1..Len(s) : (s \o w)[i] = s[i]
      /\ \A i \in 1..Len(w) : (s \o w)[Len(s) + i] = w[i]
  BY <1>1, ConcatElements
<1> DEFINE c == s \o w
<1>3. /\ Len(c) = Len(s) + Len(w)
      /\ \A i \in 1..Len(s) : c[i] = s[i]
      /\ \A i \in 1..Len(w) : c[Len(s) + i] = w[i]
  BY <1>2
<1> HIDE DEF c
<1>4. Chain(c, s, t, e)
  BY <1>0, <1>1, <1>3 DEF Chain
<1> QED BY <1>4 DEF c

LEMMA RunOverChain ==
  ASSUME NEW S, NEW s \in Seq(S), NEW t \in Seq(S), NEW e, NEW k \in 0..Len(t),
         NEW u \in Seq(S), Len(u) = Len(s) + k,
         \A i \in 1..Len(s) : u[i] = s[i],
         \A i \in 1..k : u[Len(s) + i] = t[i],
         NEW w \in Seq(S), Len(w) = Len(t) - k + 1, w[Len(t) - k + 1] = e,
         \A i \in 1..(Len(t) - k) : w[i] = t[k + i]
  PROVE  Chain(u \o w, s, t, e)
<1>0. Len(s) \in Nat /\ Len(t) \in Nat /\ Len(u) \in Nat /\ Len(w) \in Nat /\ k \in Nat
  OBVIOUS
<1>1. Len(u \o w) = Len(u) + Len(w)
  BY ConcatElements
<1>2. \A i \in 1..Len(u) : (u \o w)[i] = u[i]
  BY ConcatElements
<1>3. \A i \in 1..Len(w) : (u \o w)[Len(u) + i] = w[i]
  BY ConcatElements
<1> DEFINE c == u \o w
<1>4. /\ Len(c) = Len(u) + Len(w)
      /\ \A i \in 1..Len(u) : c[i] = u[i]
      /\ \A i \in 1..Len(w) : c[Len(u) + i] = w[i]
  BY <1>1, <1>2, <1>3
<1> HIDE DEF c
<1>5. Len(c) = Len(s) + Len(t) + 1
  BY <1>0, <1>4
<1>6. ASSUME NEW i \in 1..Len(s) PROVE c[i] = s[i]
  <2>1. i \in 1..Len(u)
    BY <1>0
  <2> QED BY <1>4, <2>1
<1>7. ASSUME NEW i \in 1..Len(t) PROVE c[Len(s) + i] = t[i]
  <2>1. CASE i <= k
    <3>1. i \in 1..k /\ Len(s) + i \in 1..Len(u)
      BY <1>0, <2>1
    <3> QED BY <1>4, <3>1
  <2>2. CASE ~(i <= k)
    <3>1. /\ i - k \in 1..(Len(t) - k) /\ i - k \in 1..Len(w)
          /\ Len(u) + (i - k) = Len(s) + i /\ k + (i - k) = i
      BY <1>0, <2>2
    <3>2. c[Len(u) + (i - k)] = w[i - k] /\ w[i - k] = t[k + (i - k)]
      BY <1>4, <3>1
    <3> QED BY <3>1, <3>2
  <2> QED BY <2>1, <2>2
<1>8. c[Len(s) + Len(t) + 1] = e
  <2>1. /\ Len(t) - k + 1 \in 1..Len(w)
        /\ Len(u) + (Len(t) - k + 1) = Len(s) + Len(t) + 1
    BY <1>0
  <2>2. c[Len(u) + (Len(t) - k + 1)] = w[Len(t) - k + 1]
    BY <1>4, <2>1
  <2> QED BY <2>1, <2>2
<1>9. Chain(c, s, t, e)
  BY <1>5, <1>6, <1>7, <1>8 DEF Chain
<1> QED BY <1>9 DEF c

LEMMA RunOver ==
  ASSUME NEW S, NEW s \in Seq(S), NEW t \in Seq(S), NEW e \in S, NEW k \in 1..Len(t),
         NEW u, u = s \o SubSeq(t, 1, k),
         NEW w, w = Append(SubSeq(t, k + 1, Len(t)), e)
  PROVE  Chain(u \o w, s, t, e)
<1>0. Len(s) \in Nat /\ Len(t) \in Nat /\ k \in 0..Len(t) /\ k \in Nat
  OBVIOUS
<1>1. /\ u \in Seq(S) /\ Len(u) = Len(s) + k
      /\ \A i \in 1..Len(s) : u[i] = s[i]
      /\ \A i \in 1..k : u[Len(s) + i] = t[i]
  BY <1>0, PartProperties
<1> DEFINE r == SubSeq(t, k + 1, Len(t))
<1>2. /\ r \in Seq(S) /\ Len(r) = Len(t) - k
      /\ \A i \in 1..(Len(t) - k) : r[i] = t[k + i]
  <2>1. \A i \in (k + 1)..Len(t) : t[i] \in S
    BY <1>0, ElementOfSeq
  <2>2. k + 1 \in Int /\ Len(t) \in Int /\ (k + 1 <= Len(t) + 1)
    BY <1>0
  <2> QED BY <1>0, <2>1, <2>2, SubSeqProperties
<1> HIDE DEF r
<1>3. /\ w \in Seq(S) /\ Len(w) = Len(t) - k + 1 /\ w[Len(t) - k + 1] = e
      /\ \A i \in 1..(Len(t) - k) : w[i] = t[k + i]
  <2>1. w = Append(r, e)
    BY DEF r
  <2>2. /\ w \in Seq(S) /\ Len(w) = Len(r) + 1 /\ w[Len(r) + 1] = e
        /\ \A i \in 1..Len(r) : w[i] = r[i]
    BY <1>2, <2>1, AppendProperties
  <2> QED BY <1>2, <2>2
<1> QED BY <1>0, <1>1, <1>3, RunOverChain

LEMMA OpenContents ==
  ASSUME TypeOK, Open
  PROVE  /\ path' \in Paths /\ Contents(path)' = <<<<run, seq>>>>
         /\ \A p \in Paths \ {path'} : Contents(p)' = Contents(p)
<1>1. /\ path' \in Paths /\ state = "unopened" /\ state' = "open"
      /\ buffer' = <<<<run, seq>>>> /\ <<<<run, seq>>>> \in Seq(Record)
  BY FreeNameIsNew, BufferTyped DEF Open
<1>2. cache'[path'].recs = <<>> /\ \A p \in Paths \ {path'} : cache'[p] = cache[p]
  BY <1>1 DEF Open, TypeOK, File
<1>3. Contents(path)' = cache'[path'].recs \o buffer'
  BY <1>1 DEF Contents
<1>4. Contents(path)' = <<<<run, seq>>>>
  BY <1>1, <1>2, <1>3, ConcatEmptySeq
<1>5. \A p \in Paths \ {path'} : Contents(p)' = Contents(p)
  BY <1>1, <1>2 DEF Contents
<1> QED BY <1>1, <1>4, <1>5

LEMMA WriteContents ==
  ASSUME TypeOK, Write
  PROVE  /\ Len(Contents(path)') = Len(Contents(path)) + 1
         /\ \A i \in 1..Len(Contents(path)) : Contents(path)'[i] = Contents(path)[i]
         /\ Contents(path)'[Len(Contents(path)) + 1] = <<run, seq>>
         /\ \A p \in Paths \ {path} : Contents(p)' = Contents(p)
<1> DEFINE r == <<run, seq>>
           s == cache[path].recs
<1>1. /\ state = "open" /\ state' = "open" /\ path' = path /\ seq < MaxRecords
      /\ path \in Paths
  BY DEF Write, TypeOK
<1>2. /\ s \in Seq(Record) /\ buffer \in Seq(Record) /\ r \in Record
      /\ Len(s) \in Nat /\ Len(buffer) \in Nat
  BY <1>1, TypeParts, BufferTyped DEF TypeOK
<1>3. Contents(path) = s \o buffer /\ Contents(path)' = cache'[path].recs \o buffer'
  BY <1>1 DEF Contents
<1>4. /\ Chain(cache'[path].recs \o buffer', s, buffer, r)
      /\ \A p \in Paths \ {path} : cache'[p] = cache[p]
  <2>1. CASE cache' = cache /\ buffer' = Append(buffer, r)
    <3>1. cache'[path].recs = s
      BY <2>1
    <3> HIDE DEF s, r
    <3>2. Chain(s \o buffer', s, buffer, r)
      BY <1>2, <2>1, StaysBehind
    <3> QED BY <2>1, <3>1, <3>2
  <2>2. ASSUME NEW k \in 1..Len(buffer), cache' = Flushed(path, k),
               buffer' = Append(SubSeq(buffer, k + 1, Len(buffer)), r)
        PROVE  /\ Chain(cache'[path].recs \o buffer', s, buffer, r)
               /\ \A p \in Paths \ {path} : cache'[p] = cache[p]
    <3>1. k \in 0..Len(buffer)
      BY <1>2
    <3>2. /\ cache'[path].recs = s \o SubSeq(buffer, 1, k)
          /\ \A p \in Paths \ {path} : cache'[p] = cache[p]
      BY <2>2, <3>1, FlushedFiles
    <3> DEFINE u == cache'[path].recs
    <3>3. u = s \o SubSeq(buffer, 1, k)
      BY <3>2
    <3> HIDE DEF s, r, u
    <3>4. Chain(u \o buffer', s, buffer, r)
      BY <1>2, <2>2, <3>3, RunOver
    <3> QED BY <3>2, <3>4 DEF u
  <2> QED BY <2>1, <2>2 DEF Write
<1>5. /\ Len(s \o buffer) = Len(s) + Len(buffer)
      /\ \A i \in 1..Len(s) : (s \o buffer)[i] = s[i]
      /\ \A i \in 1..Len(buffer) : (s \o buffer)[Len(s) + i] = buffer[i]
  <2> HIDE DEF s
  <2> QED BY <1>2, ConcatElements
<1> DEFINE c == Contents(path)
           d == Contents(path)'
<1>6. /\ Len(c) = Len(s) + Len(buffer)
      /\ \A i \in 1..Len(s) : c[i] = s[i]
      /\ \A i \in 1..Len(buffer) : c[Len(s) + i] = buffer[i]
      /\ Chain(d, s, buffer, r)
  BY <1>3, <1>4, <1>5
<1>7. \A p \in Paths \ {path} : Contents(p)' = Contents(p)
  BY <1>1, <1>4 DEF Contents
<1> HIDE DEF c, d, s, r
<1>8. Len(d) = Len(c) + 1 /\ d[Len(c) + 1] = r
  BY <1>6 DEF Chain
<1>9. ASSUME NEW i \in 1..Len(c) PROVE d[i] = c[i]
  <2>1. CASE i <= Len(s)
    BY <1>2, <1>6, <2>1 DEF Chain
  <2>2. CASE ~(i <= Len(s))
    <3>1. i - Len(s) \in 1..Len(buffer) /\ Len(s) + (i - Len(s)) = i
      BY <1>2, <1>6, <2>2
    <3> QED BY <1>6, <3>1 DEF Chain
  <2> QED BY <2>1, <2>2
<1> QED BY <1>7, <1>8, <1>9 DEF c, d, r

\* What a step leaves of the contents of file p: the beginning.
Shrinks(p) ==
  /\ Len(Contents(p)') <= Len(Contents(p))
  /\ \A i \in 1..Len(Contents(p)') : Contents(p)'[i] = Contents(p)[i]

LEMMA FlushShrinks ==
  ASSUME TypeOK, TypeOK', state = "open", path' = path, NEW k \in 0..Len(buffer),
         cache' = Flushed(path, k), buffer' = <<>>, NEW p \in Paths
  PROVE  Shrinks(p)
<1> DEFINE s == cache[path].recs
           u == SubSeq(buffer, 1, k)
<1>1. cache'[p].recs \in Seq(Record)
  BY DEF TypeOK, Files
<1>2. Contents(p)' = cache'[p].recs
  BY <1>1, ConcatEmptySeq DEF Contents
<1>3. CASE p = path
  <2>1. s \in Seq(Record) /\ buffer \in Seq(Record) /\ Len(s) \in Nat /\ Len(buffer) \in Nat
    BY <1>3, TypeParts DEF TypeOK
  <2>2. Contents(p) = s \o buffer /\ Contents(p)' = s \o u
    BY <1>2, <1>3, FlushedFiles DEF Contents
  <2> HIDE DEF s
  <2>3. Len(s \o u) = Len(s) + k
    BY <2>1, PartProperties
  <2>4. \A i \in 1..Len(s) : (s \o u)[i] = s[i]
    BY <2>1, PartProperties
  <2>5. \A i \in 1..k : (s \o u)[Len(s) + i] = buffer[i]
    BY <2>1, PartProperties
  <2>6. Len(s \o buffer) = Len(s) + Len(buffer)
    BY <2>1, ConcatElements
  <2>7. \A i \in 1..Len(s) : (s \o buffer)[i] = s[i]
    BY <2>1, ConcatElements
  <2>8. \A i \in 1..Len(buffer) : (s \o buffer)[Len(s) + i] = buffer[i]
    BY <2>1, ConcatElements
  <2> DEFINE c == Contents(p)
             d == Contents(p)'
  <2>9. /\ Len(d) = Len(s) + k /\ Len(c) = Len(s) + Len(buffer)
        /\ \A i \in 1..Len(s) : d[i] = s[i] /\ c[i] = s[i]
        /\ \A i \in 1..k : d[Len(s) + i] = buffer[i]
        /\ \A i \in 1..Len(buffer) : c[Len(s) + i] = buffer[i]
    BY <2>2, <2>3, <2>4, <2>5, <2>6, <2>7, <2>8
  <2> HIDE DEF c, d
  <2>10. Len(d) <= Len(c)
    BY <2>1, <2>9
  <2>11. ASSUME NEW i \in 1..Len(d) PROVE d[i] = c[i]
    <3>1. CASE i <= Len(s)
      BY <2>1, <2>9, <3>1
    <3>2. CASE ~(i <= Len(s))
      <4>1. i - Len(s) \in 1..k /\ i - Len(s) \in 1..Len(buffer) /\ Len(s) + (i - Len(s)) = i
        BY <2>1, <2>9, <3>2
      <4> QED BY <2>9, <4>1
    <3> QED BY <3>1, <3>2
  <2> QED BY <2>10, <2>11 DEF c, d, Shrinks
<1>4. CASE p # path
  <2>1. Contents(p) = cache[p].recs /\ Contents(p)' = cache[p].recs
    BY <1>2, <1>4, FlushedFiles DEF Contents
  <2>2. Len(cache[p].recs) \in Nat
    BY TypeParts
  <2> QED BY <2>1, <2>2 DEF Shrinks
<1> QED BY <1>3, <1>4

LEMMA DropShrinks ==
  ASSUME TypeOK, TypeOK', cache' = cache \/ cache' = card, buffer' = <<>>, NEW p \in Paths
  PROVE  Shrinks(p)
<1> DEFINE s == cache[p].recs
           t == cache'[p].recs
<1>1. /\ s \in Seq(Record) /\ t \in Seq(Record) /\ buffer \in Seq(Record)
      /\ Len(s) \in Nat /\ Len(t) \in Nat /\ Len(buffer) \in Nat
  <2>1. s \in Seq(Record) /\ Len(s) \in Nat
    BY TypeParts
  <2>2. t \in Seq(Record) /\ Len(t) \in Nat
    BY TypeParts
  <2>3. buffer \in Seq(Record)
    BY DEF TypeOK
  <2> QED BY <2>1, <2>2, <2>3
<1>2. Contents(p)' = t
  BY <1>1, ConcatEmptySeq DEF Contents
<1>3. Len(t) <= Len(s) /\ \A i \in 1..Len(t) : t[i] = s[i]
  BY <1>1, TypeParts
<1>4. Contents(p) = s \/ Contents(p) = s \o buffer
  BY DEF Contents
<1> HIDE DEF s, t
<1>5. Len(s \o buffer) = Len(s) + Len(buffer)
  BY <1>1, ConcatElements
<1>6. \A i \in 1..Len(s) : (s \o buffer)[i] = s[i]
  BY <1>1, ConcatElements
<1> DEFINE c == Contents(p)
<1>7. Len(s) <= Len(c) /\ \A i \in 1..Len(s) : c[i] = s[i]
  BY <1>1, <1>4, <1>5, <1>6
<1> HIDE DEF c
<1>8. Len(t) <= Len(c)
  BY <1>1, <1>3, <1>7, ContentsTyped DEF c
<1>9. \A i \in 1..Len(t) : t[i] = c[i]
  BY <1>1, <1>3, <1>7
<1> QED BY <1>2, <1>8, <1>9 DEF c, Shrinks

\* A step that is neither Open nor Write adds nothing to any file.
LEMMA OtherContents ==
  ASSUME TypeOK, TypeOK', [Next]_vars, ~Open, ~Write, NEW p \in Paths
  PROVE  Shrinks(p)
<1>1. 0 \in 0..Len(buffer) /\ Len(buffer) \in 0..Len(buffer) /\ Len(buffer) \in Nat
  BY DEF TypeOK
<1>2. ASSUME cache' = cache, Contents(p)' = Contents(p) PROVE Shrinks(p)
  BY <1>2, ContentsTyped DEF Shrinks
<1>3. CASE WriteOff \/ OpenFails \/ Clock \/ WriteBack \/ UNCHANGED vars
  <2>1. cache' = cache /\ Contents(p)' = Contents(p)
    BY <1>3 DEF WriteOff, OpenFails, Clock, WriteBack, vars, Contents
  <2> QED BY <1>2, <2>1
<1>4. CASE WriteFails
  <2>1. PICK k \in 0..Len(buffer) : cache' = Flushed(path, k)
    BY <1>4 DEF WriteFails
  <2> QED BY <1>4, <2>1, FlushShrinks DEF WriteFails, BufferAfterError
<1>5. CASE Sync \/ Close
  BY <1>1, <1>5, FlushShrinks DEF Sync, Close
<1>6. CASE SyncErrs
  <2>1. PICK k \in 0..(Len(buffer) - 1) : cache' = Flushed(path, k)
    BY <1>6 DEF SyncErrs
  <2>2. k \in 0..Len(buffer)
    BY <1>1
  <2> QED BY <1>6, <2>1, <2>2, FlushShrinks DEF SyncErrs
<1>7. CASE Die \/ PowerLoss
  BY <1>7, DropShrinks DEF Die, PowerLoss
<1>8. CASE Restart
  <2>1. buffer' = <<>> /\ cache' = cache
    BY <1>8 DEF Restart, TypeOK
  <2> QED BY <2>1, DropShrinks
<1> QED BY <1>3, <1>4, <1>5, <1>6, <1>7, <1>8 DEF Next

-----------------------------------------------------------------------------
\* A record in a file was written by a run that has started, and by the
\* current one only into its own file and before the packet that is due.
OwnRun ==
  \A p \in Paths : \A i \in 1..Len(Contents(p)) :
    /\ Contents(p)[i][1] <= run
    /\ Contents(p)[i][1] = run => /\ state # "unopened" /\ p = path
                                  /\ Contents(p)[i][2] < seq

\* What is in the open file was written by the current run.
OpenIsOwn ==
  (alive /\ state = "open") =>
     \A i \in 1..Len(Contents(path)) : Contents(path)[i][1] = run

\* OneRunOneFile in its two parts.
InOrder ==
  \A p \in Paths : \A i, j \in 1..Len(Contents(p)) :
    i < j => /\ Contents(p)[i][1] = Contents(p)[j][1]
             /\ Contents(p)[i][2] < Contents(p)[j][2]
Apart ==
  \A p, q \in Paths : \A i \in 1..Len(Contents(p)), j \in 1..Len(Contents(q)) :
    Contents(p)[i][1] = Contents(q)[j][1] => p = q

FilesInv == OwnRun /\ OpenIsOwn /\ InOrder /\ Apart

LEMMA OneRunOneFileParts ==
  ASSUME TypeOK, InOrder, Apart PROVE OneRunOneFile
<1>1. \A p \in Paths : DOMAIN Contents(p) = 1..Len(Contents(p))
  BY ContentsTyped
<1> QED BY <1>1 DEF OneRunOneFile, InOrder, Apart

\* Taking records off the end of files keeps it all.
LEMMA ShrinkKeeps ==
  ASSUME TypeOK, TypeOK', FilesInv, \A p \in Paths : Shrinks(p),
         path' = path, seq <= seq',
         run' = run \/ (run' = run + 1 /\ state' = "unopened"),
         state = "unopened" \/ state' # "unopened" \/ run' = run + 1,
         (alive' /\ state' = "open") => (alive /\ state = "open")
  PROVE  FilesInv'
<1>1. /\ run \in Nat /\ seq \in Nat /\ seq' \in Nat /\ path \in Paths
      /\ \A p \in Paths : Len(Contents(p)) \in Nat /\ Len(Contents(p)') \in Nat
  <2>1. \A p \in Paths : Len(Contents(p)) \in Nat
    BY ContentsTyped
  <2>2. \A p \in Paths : Len(Contents(p)') \in Nat
    BY ContentsTyped
  <2> QED BY <2>1, <2>2, LogAssumption DEF TypeOK
<1>2. ASSUME NEW p \in Paths, NEW i \in 1..Len(Contents(p)')
      PROVE  i \in 1..Len(Contents(p)) /\ Contents(p)'[i] = Contents(p)[i]
  BY <1>1, <1>2 DEF Shrinks
<1>3. ASSUME NEW p \in Paths, NEW i \in 1..Len(Contents(p)')
      PROVE  /\ Contents(p)'[i][1] <= run'
             /\ Contents(p)'[i][1] = run' => /\ state' # "unopened" /\ p = path'
                                             /\ Contents(p)'[i][2] < seq'
  <2> DEFINE r == Contents(p)[i]
  <2>1. i \in 1..Len(Contents(p)) /\ Contents(p)'[i] = r
    BY <1>2
  <2>2. r[1] \in Nat /\ r[2] \in Nat
    BY <2>1, ContentsTyped, LogAssumption DEF Record
  <2>3. r[1] <= run /\ (r[1] = run => state # "unopened" /\ p = path /\ r[2] < seq)
    BY <2>1 DEF FilesInv, OwnRun
  <2> HIDE DEF r
  <2> QED BY <1>1, <2>1, <2>2, <2>3
<1>4. OwnRun'
  BY <1>3 DEF OwnRun
<1>5. OpenIsOwn'
  <2> SUFFICES ASSUME alive', state' = "open", NEW i \in 1..Len(Contents(path)')
               PROVE  Contents(path)'[i][1] = run'
    BY DEF OpenIsOwn
  <2>1. alive /\ state = "open" /\ run' = run
    OBVIOUS
  <2>2. i \in 1..Len(Contents(path)) /\ Contents(path)'[i] = Contents(path)[i]
    BY <1>1, <1>2
  <2> QED BY <2>1, <2>2 DEF FilesInv, OpenIsOwn
<1>6. InOrder'
  BY <1>2 DEF FilesInv, InOrder
<1>7. Apart'
  BY <1>2 DEF FilesInv, Apart
<1> QED BY <1>4, <1>5, <1>6, <1>7 DEF FilesInv

\* The file a run opens holds the first of its records, and nothing else.
LEMMA OpenKeeps ==
  ASSUME TypeOK, TypeOK', FilesInv, Open PROVE FilesInv'
<1> DEFINE d == Contents(path)'
<1>1. /\ run \in Nat /\ run' = run /\ seq \in Nat /\ seq' = seq + 1
      /\ state = "unopened" /\ state' = "open"
  BY LogAssumption DEF TypeOK, Open, Sampled
<1>2. /\ path' \in Paths /\ d = <<<<run, seq>>>>
      /\ \A p \in Paths \ {path'} : Contents(p)' = Contents(p)
  BY OpenContents
<1>3. Len(d) = 1 /\ d[1] = <<run, seq>> /\ 1..Len(d) = {1}
  <2>1. Len(<<<<run, seq>>>>) = 1 /\ <<<<run, seq>>>>[1] = <<run, seq>>
    OBVIOUS
  <2>2. 1..1 = {1}
    OBVIOUS
  <2> QED BY <1>2, <2>1, <2>2
<1> HIDE DEF d
<1>4. ASSUME NEW p \in Paths, NEW i \in 1..Len(Contents(p)')
      PROVE  \/ p = path' /\ i = 1 /\ Contents(p)'[i] = <<run, seq>>
             \/ /\ p # path' /\ Contents(p)' = Contents(p) /\ i \in 1..Len(Contents(p))
                /\ Contents(p)'[i][1] # run /\ Contents(p)'[i][1] <= run
  <2>1. CASE p = path'
    BY <1>3, <2>1 DEF d
  <2>2. CASE p # path'
    <3>1. Contents(p)' = Contents(p)
      BY <1>2, <2>2
    <3>2. i \in 1..Len(Contents(p))
      BY <3>1
    <3>3. Contents(p)[i][1] # run /\ Contents(p)[i][1] <= run
      BY <1>1, <3>2 DEF FilesInv, OwnRun
    <3> QED BY <2>2, <3>1, <3>2, <3>3
  <2> QED BY <2>1, <2>2
<1>5. OwnRun'
  <2> SUFFICES ASSUME NEW p \in Paths, NEW i \in 1..Len(Contents(p)')
               PROVE  /\ Contents(p)'[i][1] <= run'
                      /\ Contents(p)'[i][1] = run' => /\ state' # "unopened" /\ p = path'
                                                      /\ Contents(p)'[i][2] < seq'
    BY DEF OwnRun
  <2> DEFINE r == Contents(p)'[i]
  <2>1. (p = path' /\ r = <<run, seq>>) \/ (r[1] # run /\ r[1] <= run)
    BY <1>4
  <2> HIDE DEF r
  <2>2. r[1] <= run' /\ (r[1] = run' => state' # "unopened" /\ p = path' /\ r[2] < seq')
    BY <1>1, <2>1
  <2> QED BY <2>2 DEF r
<1>6. OpenIsOwn'
  BY <1>1, <1>3 DEF OpenIsOwn, d
<1>7. InOrder'
  <2> SUFFICES ASSUME NEW p \in Paths, NEW i \in 1..Len(Contents(p)'),
                      NEW j \in 1..Len(Contents(p)'), i < j
               PROVE  /\ Contents(p)'[i][1] = Contents(p)'[j][1]
                      /\ Contents(p)'[i][2] < Contents(p)'[j][2]
    BY DEF InOrder
  <2>1. CASE p = path'
    BY <1>4, <2>1
  <2>2. CASE p # path'
    BY <1>4, <2>2 DEF FilesInv, InOrder
  <2> QED BY <2>1, <2>2
<1>8. Apart'
  <2> SUFFICES ASSUME NEW p \in Paths, NEW q \in Paths, NEW i \in 1..Len(Contents(p)'),
                      NEW j \in 1..Len(Contents(q)'), Contents(p)'[i][1] = Contents(q)'[j][1]
               PROVE  p = q
    BY DEF Apart
  <2>1. CASE p = path' /\ q = path'
    BY <2>1
  <2>2. CASE p # path' /\ q # path'
    BY <1>4, <2>2 DEF FilesInv, Apart
  <2>3. CASE p = path' /\ q # path'
    <3>1. Contents(p)'[i] = <<run, seq>> /\ Contents(q)'[j][1] # run
      BY <1>4, <2>3
    <3> QED BY <3>1
  <2>4. CASE p # path' /\ q = path'
    <3>1. Contents(q)'[j] = <<run, seq>> /\ Contents(p)'[i][1] # run
      BY <1>4, <2>4
    <3> QED BY <3>1
  <2> QED BY <2>1, <2>2, <2>3, <2>4
<1> QED BY <1>5, <1>6, <1>7, <1>8 DEF FilesInv

\* A write puts the record that is due at the end of the run's own file.
LEMMA WriteKeeps ==
  ASSUME TypeOK, TypeOK', FilesInv, Write PROVE FilesInv'
<1>1. /\ run \in Nat /\ run' = run /\ seq \in Nat /\ seq' = seq + 1 /\ path \in Paths
      /\ alive /\ state = "open" /\ state' = "open" /\ path' = path
  BY LogAssumption DEF TypeOK, Write, Sampled
<1>2. /\ Len(Contents(path)') = Len(Contents(path)) + 1
      /\ \A i \in 1..Len(Contents(path)) : Contents(path)'[i] = Contents(path)[i]
      /\ Contents(path)'[Len(Contents(path)) + 1] = <<run, seq>>
      /\ \A p \in Paths \ {path} : Contents(p)' = Contents(p)
  BY WriteContents
<1>3. Len(Contents(path)) \in Nat
  BY <1>1, ContentsTyped
<1> DEFINE last == Len(Contents(path)) + 1
<1>4. ASSUME NEW p \in Paths, NEW i \in 1..Len(Contents(p)')
      PROVE  \/ p = path /\ i = last /\ Contents(p)'[i] = <<run, seq>>
             \/ /\ i \in 1..Len(Contents(p)) /\ (p = path => i < last)
                /\ Contents(p)'[i] = Contents(p)[i]
  <2>1. CASE p = path
    <3>1. Len(Contents(p)') = last /\ Contents(p)'[last] = <<run, seq>>
      BY <1>1, <1>2, <2>1
    <3>2. i = last \/ i \in 1..Len(Contents(path))
      BY <1>3, <3>1
    <3>3. ASSUME i \in 1..Len(Contents(path)) PROVE Contents(p)'[i] = Contents(p)[i]
      BY <1>1, <1>2, <2>1, <3>3
    <3> QED BY <1>3, <2>1, <3>1, <3>2, <3>3
  <2>2. CASE p # path
    <3>1. Contents(p)' = Contents(p)
      BY <1>2, <2>2
    <3>2. i \in 1..Len(Contents(p))
      BY <3>1
    <3> QED BY <2>2, <3>1, <3>2
  <2> QED BY <2>1, <2>2
<1> HIDE DEF last
<1>5. ASSUME NEW p \in Paths, NEW i \in 1..Len(Contents(p))
      PROVE  /\ Contents(p)[i][1] \in Nat /\ Contents(p)[i][2] \in Nat
             /\ Contents(p)[i][1] <= run
             /\ Contents(p)[i][1] = run => p = path /\ Contents(p)[i][2] < seq
             /\ p = path => Contents(p)[i][1] = run
  <2>1. Contents(p)[i] \in Record
    BY ContentsTyped
  <2>2. Contents(p)[i][1] \in Nat /\ Contents(p)[i][2] \in Nat
    BY <2>1, LogAssumption DEF Record
  <2>3. /\ Contents(p)[i][1] <= run
        /\ Contents(p)[i][1] = run => p = path /\ Contents(p)[i][2] < seq
    BY DEF FilesInv, OwnRun
  <2>4. p = path => Contents(p)[i][1] = run
    BY <1>1 DEF FilesInv, OpenIsOwn
  <2> QED BY <2>2, <2>3, <2>4
<1>6. ASSUME NEW p \in Paths, NEW i \in 1..Len(Contents(p)')
      PROVE  \/ /\ p = path /\ i = last
                /\ Contents(p)'[i][1] = run /\ Contents(p)'[i][2] = seq
             \/ /\ i \in 1..Len(Contents(p)) /\ (p = path => i < last)
                /\ Contents(p)'[i] = Contents(p)[i]
  <2>1. <<run, seq>>[1] = run /\ <<run, seq>>[2] = seq
    OBVIOUS
  <2> QED BY <1>4, <2>1
<1>7. OwnRun'
  <2> SUFFICES ASSUME NEW p \in Paths, NEW i \in 1..Len(Contents(p)')
               PROVE  /\ Contents(p)'[i][1] <= run'
                      /\ Contents(p)'[i][1] = run' => /\ state' # "unopened" /\ p = path'
                                                      /\ Contents(p)'[i][2] < seq'
    BY DEF OwnRun
  <2>1. CASE /\ p = path /\ Contents(p)'[i][1] = run /\ Contents(p)'[i][2] = seq
    BY <1>1, <2>1
  <2>2. CASE i \in 1..Len(Contents(p)) /\ Contents(p)'[i] = Contents(p)[i]
    BY <1>1, <1>5, <2>2
  <2> QED BY <1>6, <2>1, <2>2
<1>8. OpenIsOwn'
  <2> SUFFICES ASSUME NEW i \in 1..Len(Contents(path)') PROVE Contents(path)'[i][1] = run
    BY <1>1 DEF OpenIsOwn
  <2>1. i = last \/ i \in 1..Len(Contents(path))
    BY <1>2, <1>3 DEF last
  <2>2. CASE i = last
    BY <1>2, <2>2 DEF last
  <2>3. CASE i \in 1..Len(Contents(path))
    BY <1>1, <1>2, <1>5, <2>3
  <2> QED BY <2>1, <2>2, <2>3
<1>9. InOrder'
  <2> SUFFICES ASSUME NEW p \in Paths, NEW i \in 1..Len(Contents(p)'),
                      NEW j \in 1..Len(Contents(p)'), i < j
               PROVE  /\ Contents(p)'[i][1] = Contents(p)'[j][1]
                      /\ Contents(p)'[i][2] < Contents(p)'[j][2]
    BY DEF InOrder
  <2>1. CASE /\ p = path /\ j = last
             /\ Contents(p)'[j][1] = run /\ Contents(p)'[j][2] = seq
    <3>1. i # last
      BY <2>1
    <3>2. i \in 1..Len(Contents(p)) /\ Contents(p)'[i] = Contents(p)[i]
      BY <1>6, <3>1
    <3>3. Contents(p)[i][1] = run /\ Contents(p)[i][2] < seq
      BY <1>5, <2>1, <3>2
    <3> QED BY <2>1, <3>2, <3>3
  <2>2. CASE /\ j \in 1..Len(Contents(p)) /\ (p = path => j < last)
             /\ Contents(p)'[j] = Contents(p)[j]
    <3>1. ~(p = path /\ i = last)
      BY <2>2
    <3>2. i \in 1..Len(Contents(p)) /\ Contents(p)'[i] = Contents(p)[i]
      BY <1>6, <3>1
    <3>3. /\ Contents(p)[i][1] = Contents(p)[j][1]
          /\ Contents(p)[i][2] < Contents(p)[j][2]
      BY <2>2, <3>2 DEF FilesInv, InOrder
    <3> QED BY <2>2, <3>2, <3>3
  <2> QED BY <1>6, <2>1, <2>2
<1>10. Apart'
  <2> SUFFICES ASSUME NEW p \in Paths, NEW q \in Paths, NEW i \in 1..Len(Contents(p)'),
                      NEW j \in 1..Len(Contents(q)'), Contents(p)'[i][1] = Contents(q)'[j][1]
               PROVE  p = q
    BY DEF Apart
  <2>1. CASE p # path /\ q # path
    <3>1. /\ i \in 1..Len(Contents(p)) /\ Contents(p)'[i] = Contents(p)[i]
          /\ j \in 1..Len(Contents(q)) /\ Contents(q)'[j] = Contents(q)[j]
      BY <1>6, <2>1
    <3>2. Contents(p)[i][1] = Contents(q)[j][1]
      BY <3>1
    <3> QED BY <3>1, <3>2 DEF FilesInv, Apart
  <2>2. ASSUME NEW a \in Paths, NEW n \in 1..Len(Contents(a)') PROVE
               Contents(a)'[n][1] = run <=> a = path
    <3>1. CASE a = path /\ n = last /\ Contents(a)'[n][1] = run
      BY <3>1
    <3>2. CASE n \in 1..Len(Contents(a)) /\ Contents(a)'[n] = Contents(a)[n]
      BY <1>5, <3>2
    <3> QED BY <1>6, <3>1, <3>2
  <2> QED BY <2>1, <2>2
<1> QED BY <1>7, <1>8, <1>9, <1>10 DEF FilesInv

LEMMA FilesInit == Init => FilesInv
<1> SUFFICES ASSUME Init PROVE FilesInv
  OBVIOUS
<1>1. ASSUME NEW p \in Paths PROVE Contents(p) = <<>>
  BY DEF Init, NoFile, Contents
<1>2. ASSUME NEW p \in Paths PROVE 1..Len(Contents(p)) = {}
  BY <1>1
<1>3. state # "open"
  BY DEF Init
<1> QED BY <1>2, <1>3 DEF FilesInv, OwnRun, OpenIsOwn, InOrder, Apart

LEMMA FilesStep ==
  (TypeOK /\ Absent /\ FilesInv) /\ [Next]_vars => FilesInv'
<1> SUFFICES ASSUME TypeOK, Absent, FilesInv, [Next]_vars PROVE FilesInv'
  OBVIOUS
<1>1. TypeOK'
  BY TypeStep
<1>2. run \in Nat /\ seq \in Nat
  BY LogAssumption DEF TypeOK
<1>3. CASE Open
  BY <1>1, <1>3, OpenKeeps
<1>4. CASE Write
  BY <1>1, <1>4, WriteKeeps
<1>5. CASE ~Open /\ ~Write
  <2>1. \A p \in Paths : Shrinks(p)
    BY <1>1, <1>5, OtherContents
  <2>2. CASE Restart
    <3>1. path' = path /\ run' = run + 1 /\ state' = "unopened"
      BY <2>2 DEF Restart
    <3>2. ASSUME NEW p \in Paths, NEW i \in 1..Len(Contents(p)')
          PROVE  /\ i \in 1..Len(Contents(p)) /\ Contents(p)'[i] = Contents(p)[i]
                 /\ Contents(p)'[i][1] <= run' /\ Contents(p)'[i][1] # run'
      <4>1. Len(Contents(p)) \in Nat /\ Len(Contents(p)') \in Nat
        <5>1. Len(Contents(p)) \in Nat
          BY ContentsTyped
        <5>2. Len(Contents(p)') \in Nat
          BY <1>1, ContentsTyped
        <5> QED BY <5>1, <5>2
      <4>2. i \in 1..Len(Contents(p)) /\ Contents(p)'[i] = Contents(p)[i]
        BY <2>1, <4>1 DEF Shrinks
      <4>3. Contents(p)[i][1] <= run
        BY <4>2 DEF FilesInv, OwnRun
      <4>4. Contents(p)[i][1] \in Nat
        BY <4>2, ContentsTyped, LogAssumption DEF Record
      <4> QED BY <1>2, <3>1, <4>2, <4>3, <4>4
    <3>3. OwnRun'
      BY <3>2 DEF OwnRun
    <3>4. OpenIsOwn'
      BY <3>1 DEF OpenIsOwn
    <3>5. InOrder'
      BY <3>2 DEF FilesInv, InOrder
    <3>6. Apart'
      BY <3>2 DEF FilesInv, Apart
    <3> QED BY <3>3, <3>4, <3>5, <3>6 DEF FilesInv
  <2>3. CASE ~Restart
    <3>1. path' = path /\ run' = run
      BY <1>5, <2>3 DEF Next, vars, WriteOff, OpenFails, WriteFails, Sync, SyncErrs, Close,
                        Die, Clock, WriteBack, PowerLoss
    <3>2. seq' = seq \/ seq' = seq + 1
      BY <1>5, <2>3 DEF Next, vars, WriteOff, OpenFails, WriteFails, Sync, SyncErrs, Close,
                        Die, Clock, WriteBack, PowerLoss, Sampled
    <3>3. /\ state = "unopened" \/ state' # "unopened"
          /\ (alive' /\ state' = "open") => (alive /\ state = "open")
      BY <1>5, <2>3 DEF Next, vars, WriteOff, OpenFails, WriteFails, Sync, SyncErrs, Close,
                        Die, Clock, WriteBack, PowerLoss, OffAfterError
    <3>4. seq <= seq'
      BY <1>2, <3>2
    <3> QED BY <1>1, <2>1, <3>1, <3>3, <3>4, ShrinkKeeps
  <2> QED BY <2>2, <2>3
<1> QED BY <1>3, <1>4, <1>5

\* A file holds packets of one run, in the order they were sent, and no other
\* file holds packets of that run: with any number of runs, restarts, failed
\* writes and power losses, and whatever the clock says, also when a minute
\* runs out of names.
THEOREM FilesAreOwn == Spec => []OneRunOneFile
<1> DEFINE Inv == TypeOK /\ Absent /\ FilesInv
<1>1. Init => Inv
  BY TypeInit, FilesInit
<1>2. Inv /\ [Next]_vars => Inv'
  BY TypeStep, FilesStep
<1>3. Inv => OneRunOneFile
  BY OneRunOneFileParts DEF FilesInv
<1> QED BY <1>1, <1>2, <1>3, PTL DEF Spec

-----------------------------------------------------------------------------
\* While log_open finds a free name, the card loses nothing of any file, ...
CardGrows(p) ==
  /\ Len(card[p].recs) <= Len(card'[p].recs)
  /\ \A i \in 1..Len(card[p].recs) : card'[p].recs[i] = card[p].recs[i]

LEMMA CardKept ==
  ASSUME TypeOK, TypeOK', Absent, [Next]_vars, Open => NameLeft, NEW p \in Paths
  PROVE  CardGrows(p)
<1>0. 0 \in 0..Len(buffer) /\ Len(buffer) \in 0..Len(buffer) /\ Len(buffer) \in Nat
  BY DEF TypeOK
<1>1. /\ Len(card[p].recs) \in Nat /\ Len(cache[p].recs) \in Nat
      /\ Len(card[p].recs) <= Len(cache[p].recs)
      /\ \A i \in 1..Len(card[p].recs) : card[p].recs[i] = cache[p].recs[i]
      /\ card \in [Paths -> Files] /\ path \in Paths
  BY TypeParts DEF TypeOK
<1>2. ASSUME card'[p] = card[p] PROVE CardGrows(p)
  BY <1>1, <1>2 DEF CardGrows
<1>3. ASSUME NEW k \in 0..Len(buffer), cache' = Flushed(path, k),
             card' = [card EXCEPT ![path] = cache'[path]]
      PROVE  CardGrows(p)
  <2>1. CASE p = path
    <3>1. card'[p] = cache'[p]
      BY <1>1, <1>3, <2>1
    <3>2. /\ Len(cache[p].recs) <= Len(cache'[p].recs)
          /\ \A i \in 1..Len(cache[p].recs) : cache'[p].recs[i] = cache[p].recs[i]
      BY <1>3, FlushedGrows
    <3>3. Len(cache'[p].recs) \in Nat
      BY TypeParts
    <3>4. \A i \in 1..Len(card[p].recs) : i \in 1..Len(cache[p].recs)
      BY <1>1
    <3> QED BY <1>1, <3>1, <3>2, <3>3, <3>4 DEF CardGrows
  <2>2. CASE p # path
    BY <1>1, <1>2, <1>3, <2>2
  <2> QED BY <2>1, <2>2
<1>4. CASE Open
  <2>1. ~cache[path'].exists /\ path' \in Paths
    BY <1>4, FreeNameIsNew DEF Open
  <2>2. ~card[path'].exists
    BY <2>1, TypeParts DEF Behind
  <2>3. card'[p] = card[p]
    BY <1>1, <1>4, <2>2 DEF Open
  <2> QED BY <1>2, <2>3
<1>5. CASE Sync \/ Close
  <2>1. cache' = Flushed(path, Len(buffer)) /\ card' = [card EXCEPT ![path] = cache'[path]]
    BY <1>5 DEF Sync, Close, FlushFirst
  <2> QED BY <1>0, <1>3, <2>1
<1>6. CASE SyncErrs
  <2>1. PICK k \in 0..(Len(buffer) - 1) : /\ cache' = Flushed(path, k)
                                         /\ card' = [card EXCEPT ![path] = cache'[path]]
    BY <1>6 DEF SyncErrs
  <2>2. k \in 0..Len(buffer)
    BY <1>0
  <2> QED BY <1>3, <2>1, <2>2
<1>7. CASE WriteBack
  <2>1. PICK f \in Paths :
          /\ Len(card'[f].recs) \in Nat
          /\ Len(card[f].recs) <= Len(card'[f].recs)
          /\ Len(card'[f].recs) <= Len(cache[f].recs)
          /\ \A i \in 1..Len(card'[f].recs) : card'[f].recs[i] = cache[f].recs[i]
          /\ \A q \in Paths \ {f} : card'[q] = card[q]
    BY <1>7, WriteBackFacts
  <2>2. CASE p = f
    <3>1. \A i \in 1..Len(card[p].recs) : i \in 1..Len(card'[p].recs)
      BY <1>1, <2>1, <2>2
    <3> QED BY <1>1, <2>1, <2>2, <3>1 DEF CardGrows
  <2>3. CASE p # f
    BY <1>2, <2>1, <2>3
  <2> QED BY <2>2, <2>3
<1>8. CASE WriteOff \/ OpenFails \/ Write \/ WriteFails \/ Die \/ Restart \/ Clock
           \/ PowerLoss \/ UNCHANGED vars
  <2>1. card' = card
    BY <1>8 DEF WriteOff, OpenFails, Write, WriteFails, Die, Restart, Clock, PowerLoss, vars
  <2> QED BY <1>2, <2>1
<1> QED BY <1>4, <1>5, <1>6, <1>7, <1>8 DEF Next

\* ... so what a log_sync has covered is on the card.
OnCard == {r \in Record : \E p \in Paths : \E i \in 1..Len(card[p].recs) :
             card[p].recs[i] = r}
ClaimedOnCard == claimed \subseteq OnCard

LEMMA CoveredOnCard ==
  ASSUME TypeOK, TypeOK', Sync \/ Close PROVE Covered \subseteq OnCard'
<1>1. /\ path \in Paths
      /\ cache' = Flushed(path, Len(buffer)) /\ card' = [card EXCEPT ![path] = cache'[path]]
  BY DEF Sync, Close, FlushFirst, TypeOK
<1>2. /\ buffer \in Seq(Record) /\ cache[path].recs \in Seq(Record)
      /\ Len(buffer) \in 0..Len(buffer) /\ Len(buffer) \in Nat
      /\ Len(cache[path].recs) \in Nat
      /\ DOMAIN buffer = 1..Len(buffer)
      /\ DOMAIN cache[path].recs = 1..Len(cache[path].recs)
  <2>1. buffer \in Seq(Record)
    BY DEF TypeOK
  <2>2. cache[path].recs \in Seq(Record)
    BY <1>1, TypeParts
  <2> QED BY <2>1, <2>2, LenProperties
<1> DEFINE s == cache[path].recs
           c == cache'[path].recs
<1>3. c = s \o SubSeq(buffer, 1, Len(buffer))
  BY <1>1, <1>2, FlushedFiles
<1>4. s \o SubSeq(buffer, 1, Len(buffer)) = s \o buffer
  BY <1>2, SubSeqFull
<1>5. card'[path].recs = c
  BY <1>1 DEF TypeOK
<1>s. s \in Seq(Record) /\ buffer \in Seq(Record)
  BY <1>2
<1> HIDE DEF s
<1>6. Len(s \o buffer) = Len(s) + Len(buffer)
  BY <1>s, ConcatElements
<1>7. \A i \in 1..Len(s) : (s \o buffer)[i] = s[i]
  BY <1>s, ConcatElements
<1>8. \A i \in 1..Len(buffer) : (s \o buffer)[Len(s) + i] = buffer[i]
  BY <1>s, ConcatElements
<1>9. /\ Len(c) = Len(s) + Len(buffer)
      /\ \A i \in 1..Len(s) : c[i] = s[i]
      /\ \A i \in 1..Len(buffer) : c[Len(s) + i] = buffer[i]
  BY <1>3, <1>4, <1>6, <1>7, <1>8
<1> HIDE DEF c
<1>10. ASSUME NEW r \in Covered PROVE r \in OnCard'
  <2>1. r \in Record
    BY DEF Covered
  <2>2. CASE \E i \in 1..Len(buffer) : buffer[i] = r
    <3>1. PICK i \in 1..Len(buffer) : buffer[i] = r
      BY <2>2
    <3>2. Len(s) + i \in 1..Len(c) /\ c[Len(s) + i] = r
      BY <1>2, <1>9, <3>1 DEF s
    <3> QED BY <1>1, <1>5, <2>1, <3>2 DEF OnCard
  <2>3. CASE \E i \in 1..Len(s) : s[i] = r
    <3>1. PICK i \in 1..Len(s) : s[i] = r
      BY <2>3
    <3>2. i \in 1..Len(c) /\ c[i] = r
      BY <1>2, <1>9, <3>1 DEF s
    <3> QED BY <1>1, <1>5, <2>1, <3>2 DEF OnCard
  <2> QED BY <1>2, <2>2, <2>3 DEF Covered, s
<1> QED BY <1>10

LEMMA ClaimedStep ==
  ASSUME TypeOK, TypeOK', Absent, ClaimedOnCard, [Next]_vars, Open => NameLeft
  PROVE  ClaimedOnCard'
<1>1. OnCard \subseteq OnCard'
  <2> SUFFICES ASSUME NEW r \in Record, NEW p \in Paths, NEW i \in 1..Len(card[p].recs),
                      card[p].recs[i] = r
               PROVE  r \in OnCard'
    BY DEF OnCard
  <2>1. Len(card[p].recs) \in Nat /\ Len(card'[p].recs) \in Nat
    <3>1. Len(card[p].recs) \in Nat
      BY TypeParts
    <3>2. Len(card'[p].recs) \in Nat
      BY TypeParts
    <3> QED BY <3>1, <3>2
  <2>2. i \in 1..Len(card'[p].recs) /\ card'[p].recs[i] = r
    BY <2>1, CardKept DEF CardGrows
  <2> QED BY <2>2 DEF OnCard
<1>2. CASE Sync \/ Close
  <2>1. claimed' = claimed \cup Covered
    BY <1>2 DEF Sync, Close
  <2> QED BY <1>1, <1>2, <2>1, CoveredOnCard DEF ClaimedOnCard
<1>3. CASE ~(Sync \/ Close)
  <2>1. claimed' = claimed
    BY <1>3 DEF Next, vars, WriteOff, OpenFails, Open, Write, WriteFails, SyncErrs, Die,
                Restart, Clock, WriteBack, PowerLoss
  <2> QED BY <1>1, <2>1 DEF ClaimedOnCard
<1> QED BY <1>2, <1>3

\* A step takes nothing out of a file, as long as log_open finds a free name.
LEMMA CacheKept ==
  ASSUME TypeOK, TypeOK', Absent, [Next]_vars, Open => NameLeft, alive', NEW p \in Paths
  PROVE  IsPrefix(cache[p].recs, cache'[p].recs)
<1>1. /\ cache[p].recs \in Seq(Record) /\ cache'[p].recs \in Seq(Record)
      /\ Len(cache[p].recs) \in Nat /\ Len(buffer) \in Nat
      /\ Len(buffer) \in 0..Len(buffer) /\ cache \in [Paths -> Files]
  <2>1. cache[p].recs \in Seq(Record) /\ Len(cache[p].recs) \in Nat
    BY TypeParts
  <2>2. cache'[p].recs \in Seq(Record)
    BY DEF TypeOK, Files
  <2>3. Len(buffer) \in Nat /\ Len(buffer) \in 0..Len(buffer) /\ cache \in [Paths -> Files]
    BY DEF TypeOK
  <2> QED BY <2>1, <2>2, <2>3
<1>2. ASSUME NEW k \in 0..Len(buffer), cache' = Flushed(path, k)
      PROVE  IsPrefix(cache[p].recs, cache'[p].recs)
  <2>1. /\ Len(cache[p].recs) <= Len(cache'[p].recs)
        /\ \A i \in 1..Len(cache[p].recs) : cache'[p].recs[i] = cache[p].recs[i]
    BY <1>2, FlushedGrows
  <2> QED BY <1>1, <2>1, PrefixIff
<1>3. ASSUME cache'[p].recs = cache[p].recs PROVE IsPrefix(cache[p].recs, cache'[p].recs)
  BY <1>1, <1>3, PrefixOfItself
<1>4. CASE Open
  <2>1. path' \in Paths /\ ~cache[path'].exists
    BY <1>4, FreeNameIsNew DEF Open
  <2>2. cache[path'].recs = <<>>
    BY <2>1 DEF Absent
  <2>3. cache' = [cache EXCEPT ![path'] = File(<<>>)]
    BY <1>4 DEF Open
  <2>4. cache'[p].recs = cache[p].recs
    BY <1>1, <2>1, <2>2, <2>3 DEF File
  <2> QED BY <1>3, <2>4
<1>5. CASE Write
  <2>1. CASE cache' = cache
    BY <1>3, <2>1
  <2>2. ASSUME NEW k \in 1..Len(buffer), cache' = Flushed(path, k)
        PROVE  IsPrefix(cache[p].recs, cache'[p].recs)
    <3>1. k \in 0..Len(buffer)
      BY <1>1
    <3> QED BY <1>2, <2>2, <3>1
  <2> QED BY <1>5, <2>1, <2>2 DEF Write
<1>6. CASE WriteFails
  BY <1>2, <1>6 DEF WriteFails
<1>7. CASE Sync \/ Close
  BY <1>1, <1>2, <1>7 DEF Sync, Close
<1>8. CASE SyncErrs
  <2>1. PICK k \in 0..(Len(buffer) - 1) : cache' = Flushed(path, k)
    BY <1>8 DEF SyncErrs
  <2>2. k \in 0..Len(buffer)
    BY <1>1
  <2> QED BY <1>2, <2>1, <2>2
<1>9. CASE WriteOff \/ OpenFails \/ Die \/ Restart \/ Clock \/ WriteBack \/ UNCHANGED vars
  <2>1. cache' = cache
    BY <1>9 DEF WriteOff, OpenFails, Die, Restart, Clock, WriteBack, vars
  <2> QED BY <1>3, <2>1
<1>10. CASE PowerLoss
  BY <1>10 DEF PowerLoss
<1> QED BY <1>4, <1>5, <1>6, <1>7, <1>8, <1>9, <1>10 DEF Next

-----------------------------------------------------------------------------
\* What Journal calls kept is what the contents of the files are made of.
Kept == {r \in Record : \E p \in Paths : \E i \in 1..Len(Contents(p)) : Contents(p)[i] = r}

LEMMA KeptIsContents == TypeOK => InFiles \cup InBuffer = Kept
<1> SUFFICES ASSUME TypeOK PROVE InFiles \cup InBuffer = Kept
  OBVIOUS
<1>1. ASSUME NEW p \in Paths
      PROVE  /\ cache[p].recs \in Seq(Record) /\ Len(cache[p].recs) \in Nat
             /\ DOMAIN cache[p].recs = 1..Len(cache[p].recs)
  <2>1. cache[p].recs \in Seq(Record)
    BY TypeParts
  <2> QED BY <2>1, LenProperties
<1>2. /\ buffer \in Seq(Record) /\ Len(buffer) \in Nat /\ DOMAIN buffer = 1..Len(buffer)
      /\ path \in Paths
  <2>1. buffer \in Seq(Record) /\ path \in Paths
    BY DEF TypeOK
  <2> QED BY <2>1, LenProperties
<1>3. ASSUME NEW p \in Paths, ~(state = "open" /\ p = path)
      PROVE  Contents(p) = cache[p].recs
  BY <1>3 DEF Contents
<1> DEFINE s == cache[path].recs
           c == Contents(path)
<1>4. ASSUME state = "open"
      PROVE  /\ Len(c) = Len(s) + Len(buffer)
             /\ \A i \in 1..Len(s) : c[i] = s[i]
             /\ \A i \in 1..Len(buffer) : c[Len(s) + i] = buffer[i]
  <2>1. c = s \o buffer
    BY <1>4 DEF Contents
  <2>2. s \in Seq(Record)
    BY <1>1, <1>2
  <2> HIDE DEF c, s
  <2>3. Len(s \o buffer) = Len(s) + Len(buffer)
    BY <1>2, <2>2, ConcatElements
  <2>4. \A i \in 1..Len(s) : (s \o buffer)[i] = s[i]
    BY <1>2, <2>2, ConcatElements
  <2>5. \A i \in 1..Len(buffer) : (s \o buffer)[Len(s) + i] = buffer[i]
    BY <1>2, <2>2, ConcatElements
  <2> QED BY <2>1, <2>3, <2>4, <2>5
<1>5. Len(s) \in Nat
  BY <1>1, <1>2
<1>6. ASSUME NEW r \in InFiles PROVE r \in Kept
  <2>1. r \in Record
    BY DEF InFiles
  <2>2. PICK p \in Paths : \E i \in DOMAIN cache[p].recs : cache[p].recs[i] = r
    BY DEF InFiles
  <2>3. PICK i \in 1..Len(cache[p].recs) : cache[p].recs[i] = r
    BY <1>1, <2>2
  <2>4. CASE state = "open" /\ p = path
    <3>1. i \in 1..Len(s) /\ s[i] = r
      BY <2>3, <2>4
    <3> HIDE DEF c, s
    <3>2. i \in 1..Len(c) /\ c[i] = r
      BY <1>2, <1>4, <1>5, <2>4, <3>1
    <3> QED BY <1>2, <2>1, <3>2 DEF Kept, c
  <2>5. CASE ~(state = "open" /\ p = path)
    BY <1>3, <2>1, <2>3, <2>5 DEF Kept
  <2> QED BY <2>4, <2>5
<1>7. ASSUME NEW r \in InBuffer PROVE r \in Kept
  <2>1. r \in Record
    BY DEF InBuffer
  <2>2. PICK i \in 1..Len(buffer) : buffer[i] = r
    BY <1>2 DEF InBuffer
  <2>3. buffer # <<>>
    BY <1>2, <2>2
  <2>4. state = "open"
    BY <2>3 DEF TypeOK
  <2> HIDE DEF c, s
  <2>5. Len(s) + i \in 1..Len(c) /\ c[Len(s) + i] = r
    BY <1>2, <1>4, <1>5, <2>2, <2>4
  <2> QED BY <1>2, <2>1, <2>5 DEF Kept, c
<1>8. ASSUME NEW r \in Kept PROVE r \in InFiles \cup InBuffer
  <2>1. r \in Record
    BY DEF Kept
  <2>2. PICK p \in Paths : \E i \in 1..Len(Contents(p)) : Contents(p)[i] = r
    BY DEF Kept
  <2>3. PICK i \in 1..Len(Contents(p)) : Contents(p)[i] = r
    BY <2>2
  <2>4. CASE state = "open" /\ p = path
    <3>1. i \in 1..Len(c) /\ c[i] = r
      BY <2>3, <2>4
    <3> HIDE DEF c, s
    <3>2. CASE i <= Len(s)
      <4>1. i \in 1..Len(s) /\ s[i] = r
        BY <1>4, <1>5, <2>4, <3>1, <3>2
      <4> QED BY <1>1, <1>2, <2>1, <4>1 DEF InFiles, s
    <3>3. CASE ~(i <= Len(s))
      <4>1. i - Len(s) \in 1..Len(buffer) /\ Len(s) + (i - Len(s)) = i
        BY <1>2, <1>4, <1>5, <2>4, <3>1, <3>3
      <4>2. buffer[i - Len(s)] = r
        BY <1>4, <2>4, <3>1, <4>1
      <4> QED BY <1>2, <2>1, <4>1, <4>2 DEF InBuffer
    <3> QED BY <3>2, <3>3
  <2>5. CASE ~(state = "open" /\ p = path)
    BY <1>1, <1>3, <2>1, <2>3, <2>5 DEF InFiles
  <2> QED BY <2>4, <2>5
<1> QED BY <1>6, <1>7, <1>8

LEMMA OnCardInFiles == TypeOK => OnCard \subseteq InFiles
<1> SUFFICES ASSUME TypeOK, NEW r \in Record, NEW p \in Paths, NEW i \in 1..Len(card[p].recs),
                    card[p].recs[i] = r
             PROVE  r \in InFiles
  BY DEF OnCard
<1>1. cache[p].recs \in Seq(Record)
  BY TypeParts
<1>2. DOMAIN cache[p].recs = 1..Len(cache[p].recs)
  BY <1>1, LenProperties
<1>3. i \in 1..Len(cache[p].recs) /\ cache[p].recs[i] = r
  BY TypeParts
<1> QED BY <1>2, <1>3 DEF InFiles

\* A log_sync takes no record away: those of the buffer are in the file now.
LEMMA SyncKeeps ==
  ASSUME TypeOK, TypeOK', Sync \/ Close
  PROVE  InFiles \cup InBuffer \subseteq InFiles'
<1>1. cache' = Flushed(path, Len(buffer)) /\ Len(buffer) \in 0..Len(buffer)
  BY DEF Sync, Close, TypeOK
<1>2. ASSUME NEW r \in InFiles PROVE r \in InFiles'
  <2>1. r \in Record
    BY DEF InFiles
  <2>2. PICK p \in Paths : \E i \in DOMAIN cache[p].recs : cache[p].recs[i] = r
    BY DEF InFiles
  <2>3. /\ DOMAIN cache[p].recs = 1..Len(cache[p].recs) /\ Len(cache[p].recs) \in Nat
        /\ DOMAIN cache'[p].recs = 1..Len(cache'[p].recs) /\ Len(cache'[p].recs) \in Nat
    <3>1. cache[p].recs \in Seq(Record)
      BY TypeParts
    <3>2. cache'[p].recs \in Seq(Record)
      BY DEF TypeOK, Files
    <3> QED BY <3>1, <3>2, LenProperties
  <2>4. PICK i \in 1..Len(cache[p].recs) : cache[p].recs[i] = r
    BY <2>2, <2>3
  <2>5. /\ Len(cache[p].recs) <= Len(cache'[p].recs)
        /\ \A j \in 1..Len(cache[p].recs) : cache'[p].recs[j] = cache[p].recs[j]
    BY <1>1, FlushedGrows
  <2>6. i \in DOMAIN cache'[p].recs /\ cache'[p].recs[i] = r
    BY <2>3, <2>4, <2>5
  <2> QED BY <2>1, <2>6 DEF InFiles
<1>3. InBuffer \subseteq Covered
  BY DEF InBuffer, Covered
<1>4. OnCard' \subseteq InFiles'
  <2>1. (TypeOK => OnCard \subseteq InFiles)'
    BY OnCardInFiles, PTL
  <2> QED BY <2>1
<1> QED BY <1>2, <1>3, <1>4, CoveredOnCard

\* Every step of the log is a step of its promise, or none.
LEMMA JournalInit == Init => J!Init
<1> SUFFICES ASSUME Init PROVE J!Init
  OBVIOUS
<1>1. InFiles = {}
  BY DEF Init, InFiles, NoFile
<1>2. InBuffer = {}
  BY DEF Init, InBuffer
<1> QED BY <1>1, <1>2 DEF Init, J!Init

LEMMA JournalStep ==
  ASSUME TypeOK, TypeOK', Absent, FilesInv, ClaimedOnCard, ClaimedOnCard',
         [Next]_vars, Open => NameLeft
  PROVE  [J!Next]_(J!vars)
<1> DEFINE K == InFiles \cup InBuffer
           r == <<run, seq>>
<1>1. K = Kept /\ K' = Kept'
  <2>1. (TypeOK => InFiles \cup InBuffer = Kept)'
    BY KeptIsContents, PTL
  <2> QED BY <2>1, KeptIsContents
<1>2. ASSUME NEW p \in Paths
      PROVE  Len(Contents(p)) \in Nat /\ Len(Contents(p)') \in Nat
  <2>1. Len(Contents(p)) \in Nat
    BY ContentsTyped
  <2>2. Len(Contents(p)') \in Nat
    BY ContentsTyped
  <2> QED BY <2>1, <2>2
<1>3. ASSUME r \in Record, r \notin Kept, Kept' = Kept \cup {r}, claimed' = claimed
      PROVE  J!Write
  BY <1>1, <1>3 DEF J!Write
<1>4. run \in Nat /\ seq \in Nat
  BY LogAssumption DEF TypeOK
<1>5. ASSUME r \in Kept PROVE state # "unopened" /\ FALSE
  <2>1. PICK p \in Paths : \E i \in 1..Len(Contents(p)) : Contents(p)[i] = r
    BY <1>5 DEF Kept
  <2>2. PICK i \in 1..Len(Contents(p)) : Contents(p)[i] = r
    BY <2>1
  <2>3. Contents(p)[i][1] = run /\ Contents(p)[i][2] = seq
    BY <2>2
  <2> QED BY <1>4, <2>2, <2>3 DEF FilesInv, OwnRun
<1>6. CASE Open
  <2>1. /\ r \in Record /\ claimed' = claimed /\ path' \in Paths
        /\ ~cache[path'].exists /\ state = "unopened"
    BY <1>6, BufferTyped, FreeNameIsNew DEF Open
  <2>2. Contents(path)' = <<r>> /\ \A p \in Paths \ {path'} : Contents(p)' = Contents(p)
    BY <1>6, OpenContents
  <2>3. Len(Contents(path)') = 1 /\ Contents(path)'[1] = r
    <3>1. Len(<<r>>) = 1 /\ <<r>>[1] = r
      OBVIOUS
    <3> HIDE DEF r
    <3> QED BY <2>2, <3>1
  <2>4. ASSUME NEW p \in Paths, p = path' PROVE Len(Contents(p)) = 0
    <3>1. Contents(p) = <<>>
      BY <2>1, <2>4 DEF Absent, Contents
    <3> QED BY <3>1
  <2> HIDE DEF r
  <2>5. ASSUME NEW x \in Kept PROVE x \in Kept'
    <3>1. x \in Record
      BY DEF Kept
    <3>2. PICK p \in Paths : \E i \in 1..Len(Contents(p)) : Contents(p)[i] = x
      BY DEF Kept
    <3>3. p # path'
      BY <2>4, <3>2
    <3>4. Contents(p)' = Contents(p)
      BY <2>2, <3>3
    <3> QED BY <3>1, <3>2, <3>4 DEF Kept
  <2>6. r \in Kept'
    <3>1. 1 \in 1..Len(Contents(path)')
      BY <2>3
    <3> QED BY <2>1, <2>3, <3>1 DEF Kept
  <2>7. ASSUME NEW x \in Kept' PROVE x \in Kept \cup {r}
    <3>1. x \in Record
      BY DEF Kept
    <3>2. PICK p \in Paths : \E i \in 1..Len(Contents(p)') : Contents(p)'[i] = x
      BY DEF Kept
    <3>3. CASE p = path'
      BY <2>3, <3>2, <3>3
    <3>4. CASE p # path'
      <4>1. Contents(p)' = Contents(p)
        BY <2>2, <3>4
      <4> QED BY <3>1, <3>2, <4>1 DEF Kept
    <3> QED BY <3>3, <3>4
  <2>8. J!Write
    BY <1>3, <1>5, <2>1, <2>5, <2>6, <2>7
  <2> QED BY <2>8 DEF J!Next
<1>7. CASE Write
  <2>1. r \in Record /\ claimed' = claimed /\ path' = path /\ path \in Paths
    BY <1>7, BufferTyped DEF Write, TypeOK
  <2>2. /\ Len(Contents(path)') = Len(Contents(path)) + 1
        /\ \A i \in 1..Len(Contents(path)) : Contents(path)'[i] = Contents(path)[i]
        /\ Contents(path)'[Len(Contents(path)) + 1] = r
        /\ \A p \in Paths \ {path} : Contents(p)' = Contents(p)
    BY <1>7, WriteContents
  <2> HIDE DEF r
  <2>3. Len(Contents(path)) \in Nat
    BY <1>2, <2>1
  <2>4. ASSUME NEW x \in Kept PROVE x \in Kept'
    <3>1. x \in Record
      BY DEF Kept
    <3>2. PICK p \in Paths : \E i \in 1..Len(Contents(p)) : Contents(p)[i] = x
      BY DEF Kept
    <3>3. PICK i \in 1..Len(Contents(p)) : Contents(p)[i] = x
      BY <3>2
    <3>4. i \in 1..Len(Contents(p)') /\ Contents(p)'[i] = x
      <4>1. CASE p = path
        BY <2>1, <2>2, <2>3, <3>3, <4>1
      <4>2. CASE p # path
        <5>1. Contents(p)' = Contents(p)
          BY <2>2, <4>2
        <5> QED BY <3>3, <5>1
      <4> QED BY <4>1, <4>2
    <3> QED BY <3>1, <3>4 DEF Kept
  <2>5. r \in Kept'
    <3>1. Len(Contents(path)) + 1 \in 1..Len(Contents(path)')
      BY <2>2, <2>3
    <3> QED BY <2>1, <2>2, <3>1 DEF Kept
  <2>6. ASSUME NEW x \in Kept' PROVE x \in Kept \cup {r}
    <3>1. x \in Record
      BY DEF Kept
    <3>2. PICK p \in Paths : \E i \in 1..Len(Contents(p)') : Contents(p)'[i] = x
      BY DEF Kept
    <3>3. PICK i \in 1..Len(Contents(p)') : Contents(p)'[i] = x
      BY <3>2
    <3>4. CASE p = path
      <4>1. i = Len(Contents(path)) + 1 \/ i \in 1..Len(Contents(path))
        BY <2>1, <2>2, <2>3, <3>3, <3>4
      <4>2. CASE i = Len(Contents(path)) + 1
        BY <2>1, <2>2, <3>3, <3>4, <4>2
      <4>3. CASE i \in 1..Len(Contents(path))
        BY <2>1, <2>2, <3>1, <3>3, <3>4, <4>3 DEF Kept
      <4> QED BY <4>1, <4>2, <4>3
    <3>5. CASE p # path
      <4>1. Contents(p)' = Contents(p)
        BY <2>2, <3>5
      <4> QED BY <3>1, <3>2, <4>1 DEF Kept
    <3> QED BY <3>4, <3>5
  <2>7. J!Write
    BY <1>3, <1>5, <2>1, <2>4, <2>5, <2>6
  <2> QED BY <2>7 DEF J!Next
<1>8. CASE ~Open /\ ~Write
  <2>1. K' \subseteq K
    <3>1. ASSUME NEW x \in Kept' PROVE x \in Kept
      <4>1. x \in Record
        BY DEF Kept
      <4>2. PICK p \in Paths : \E i \in 1..Len(Contents(p)') : Contents(p)'[i] = x
        BY DEF Kept
      <4>3. PICK i \in 1..Len(Contents(p)') : Contents(p)'[i] = x
        BY <4>2
      <4>4. Shrinks(p)
        BY <1>8, OtherContents
      <4>5. i \in 1..Len(Contents(p)) /\ Contents(p)[i] = x
        BY <1>2, <4>3, <4>4 DEF Shrinks
      <4> QED BY <4>1, <4>5 DEF Kept
    <3> QED BY <1>1, <3>1
  <2>2. CASE Sync \/ Close
    <3>1. K' = K
      BY <2>1, <2>2, SyncKeeps
    <3>2. claimed' = claimed \cup Covered /\ path \in Paths
      BY <2>2 DEF Sync, Close, TypeOK
    <3>3. Covered \subseteq K
      BY <3>2 DEF Covered, InFiles, InBuffer
    <3>4. J!MakeSafe
      BY <3>1, <3>2, <3>3 DEF J!MakeSafe
    <3> QED BY <3>4 DEF J!Next
  <2>3. CASE ~(Sync \/ Close)
    <3>1. claimed' = claimed
      BY <1>8, <2>3 DEF Next, vars, WriteOff, OpenFails, WriteFails, SyncErrs, Die,
                        Restart, Clock, WriteBack, PowerLoss
    <3>2. claimed \subseteq K'
      <4>1. (TypeOK => OnCard \subseteq InFiles)'
        BY OnCardInFiles, PTL
      <4> QED BY <3>1, <4>1 DEF ClaimedOnCard
    <3> HIDE DEF K
    <3>3. (K \ K') \in SUBSET (K \ claimed) /\ K' = K \ (K \ K')
      BY <2>1, <3>2
    <3>4. J!Lose
      BY <3>1, <3>3 DEF J!Lose, K
    <3> QED BY <3>4 DEF J!Next
  <2> QED BY <2>2, <2>3
<1> QED BY <1>6, <1>7, <1>8

-----------------------------------------------------------------------------
\* The invariant of the runs of the log in which no minute runs out of names.
LogInv == TypeOK /\ Absent /\ FilesInv /\ ClaimedOnCard

LEMMA LogInvInit == Init => LogInv
<1>1. Init => ClaimedOnCard
  BY DEF Init, ClaimedOnCard
<1> QED BY <1>1, TypeInit, FilesInit DEF LogInv

LEMMA LogInvStep ==
  LogInv /\ [Next]_vars /\ [Open => NameLeft]_vars => LogInv'
<1> SUFFICES ASSUME LogInv, [Next]_vars, [Open => NameLeft]_vars PROVE LogInv'
  OBVIOUS
<1>1. TypeOK' /\ Absent' /\ FilesInv'
  BY TypeStep, FilesStep DEF LogInv
<1>2. CASE Open => NameLeft
  BY <1>1, <1>2, ClaimedStep DEF LogInv
<1>3. CASE UNCHANGED vars
  <2>1. ClaimedOnCard'
    BY <1>3 DEF LogInv, ClaimedOnCard, OnCard, vars
  <2> QED BY <1>1, <2>1 DEF LogInv
<1> QED BY <1>2, <1>3

\* As long as log_open finds a free name, no step short of a power loss takes
\* a record out of a file.
THEOREM NothingClobbered == Spec /\ [][Open => NameLeft]_vars => NeverClobbers
<1> DEFINE NoClobber == alive' => \A p \in Paths : IsPrefix(cache[p].recs, cache'[p].recs)
<1>1. LogInv /\ LogInv' /\ [Next]_vars /\ [Open => NameLeft]_vars => [NoClobber]_vars
  BY CacheKept DEF LogInv
<1> HIDE DEF NoClobber
<1>2. Spec /\ [][Open => NameLeft]_vars => [][NoClobber]_vars
  BY <1>1, LogInvInit, LogInvStep, PTL DEF Spec
<1> QED BY <1>2 DEF NeverClobbers, NoClobber

\* As long as log_open finds a free name, the log keeps its promise: no crash,
\* power loss, failed write or later run takes a record that log_sync has
\* covered.
THEOREM LogKeepsItsPromise == Spec /\ [][Open => NameLeft]_vars => JournalSpec
<1>1. Init => J!Init
  BY JournalInit
<1>2. LogInv /\ LogInv' /\ [Next]_vars /\ [Open => NameLeft]_vars => [J!Next]_(J!vars)
  <2> SUFFICES ASSUME LogInv, LogInv', [Next]_vars, [Open => NameLeft]_vars
               PROVE  [J!Next]_(J!vars)
    OBVIOUS
  <2>1. CASE Open => NameLeft
    BY <2>1, JournalStep DEF LogInv
  <2>2. CASE UNCHANGED vars
    BY <2>2 DEF vars, J!vars, InFiles, InBuffer
  <2> QED BY <2>1, <2>2
<1> QED BY <1>1, <1>2, LogInvInit, LogInvStep, PTL DEF Spec, JournalSpec, J!Spec

-----------------------------------------------------------------------------
\* A run makes at most one file, so a minute has a name left as long as there
\* were fewer runs than names.
Existing == {p \in Paths : cache[p].exists}
FewFiles ==
  /\ IsFiniteSet(Existing)
  /\ Cardinality(Existing) <= IF state = "unopened" THEN run - 1 ELSE run

LEMMA ExistStep ==
  ASSUME TypeOK, OpenExists, [Next]_vars
  PROVE  /\ OpenExists'
         /\ ~Open => Existing' \subseteq Existing
         /\ Open => Existing' = Existing \cup {path'}
<1>0. 0 \in 0..Len(buffer) /\ Len(buffer) \in 0..Len(buffer) /\ Len(buffer) \in Nat
  BY DEF TypeOK
<1>1. ASSUME NEW k \in 0..Len(buffer), cache' = Flushed(path, k), cache[path].exists
      PROVE  Existing' \subseteq Existing /\ cache'[path].exists
  <2>1. cache'[path].exists /\ \A p \in Paths \ {path} : cache'[p] = cache[p]
    BY <1>1, FlushedFiles
  <2> QED BY <1>1, <2>1 DEF Existing
<1>2. ASSUME ~Open, Existing' \subseteq Existing, OpenExists' PROVE
        /\ OpenExists'
        /\ ~Open => Existing' \subseteq Existing
        /\ Open => Existing' = Existing \cup {path'}
  BY <1>2
<1>3. CASE Open
  <2>1. /\ path' \in Paths /\ cache' = [cache EXCEPT ![path'] = File(<<>>)]
        /\ cache \in [Paths -> Files]
    BY <1>3, FreeNameIsNew DEF Open, TypeOK
  <2>2. cache'[path'].exists /\ \A p \in Paths \ {path'} : cache'[p] = cache[p]
    BY <2>1 DEF File
  <2>3. OpenExists'
    BY <2>2 DEF OpenExists
  <2>4. Existing' = Existing \cup {path'}
    BY <2>1, <2>2 DEF Existing
  <2> QED BY <1>3, <2>3, <2>4
<1>4. CASE Write
  <2>1. cache[path].exists /\ path' = path
    BY <1>4 DEF Write, OpenExists
  <2>2. Existing' \subseteq Existing /\ cache'[path].exists
    <3>1. CASE cache' = cache
      BY <2>1, <3>1 DEF Existing
    <3>2. ASSUME NEW k \in 1..Len(buffer), cache' = Flushed(path, k)
          PROVE  Existing' \subseteq Existing /\ cache'[path].exists
      <4>1. k \in 0..Len(buffer)
        BY <1>0
      <4> QED BY <1>1, <2>1, <3>2, <4>1
    <3> QED BY <1>4, <3>1, <3>2 DEF Write
  <2>3. OpenExists' /\ ~Open
    BY <1>4, <2>1, <2>2 DEF OpenExists, Open, Write
  <2> QED BY <1>2, <2>2, <2>3
<1>5. CASE WriteFails \/ Sync \/ SyncErrs \/ Close
  <2>1. cache[path].exists /\ path' = path /\ ~Open
    BY <1>5 DEF WriteFails, Sync, SyncErrs, Close, OpenExists, Open
  <2>2. PICK k \in 0..Len(buffer) : cache' = Flushed(path, k)
    <3>1. CASE WriteFails
      BY <3>1 DEF WriteFails
    <3>2. CASE Sync \/ Close
      BY <1>0, <3>2 DEF Sync, Close
    <3>3. CASE SyncErrs
      <4>1. PICK k \in 0..(Len(buffer) - 1) : cache' = Flushed(path, k)
        BY <3>3 DEF SyncErrs
      <4>2. k \in 0..Len(buffer)
        BY <1>0
      <4> QED BY <4>1, <4>2
    <3> QED BY <1>5, <3>1, <3>2, <3>3
  <2>3. Existing' \subseteq Existing /\ cache'[path].exists
    BY <1>1, <2>1, <2>2
  <2>4. OpenExists'
    BY <2>1, <2>3 DEF OpenExists
  <2> QED BY <1>2, <2>1, <2>3, <2>4
<1>6. CASE WriteOff \/ OpenFails \/ Die \/ Restart \/ Clock \/ WriteBack \/ UNCHANGED vars
  <2>1. cache' = cache
    BY <1>6 DEF WriteOff, OpenFails, Die, Restart, Clock, WriteBack, vars
  <2>2. path' = path /\ (alive' /\ state' = "open" => alive /\ state = "open")
    BY <1>6 DEF WriteOff, OpenFails, Die, Restart, Clock, WriteBack, vars
  <2>3. ~Open \/ Existing' = Existing \cup {path'}
    BY <1>3
  <2>4. OpenExists' /\ Existing' \subseteq Existing
    BY <2>1, <2>2 DEF OpenExists, Existing
  <2> QED BY <2>3, <2>4
<1>7. CASE PowerLoss
  <2>1. cache' = card /\ ~alive'
    BY <1>7 DEF PowerLoss
  <2>2. Existing' \subseteq Existing /\ OpenExists' /\ ~Open
    BY <1>7, <2>1, TypeParts DEF Existing, OpenExists, Behind, Open
  <2> QED BY <1>2, <2>2
<1> QED BY <1>3, <1>4, <1>5, <1>6, <1>7 DEF Next

LEMMA FewFilesStep ==
  ASSUME TypeOK, OpenExists, FewFiles, [Next]_vars PROVE FewFiles'
<1>1. run \in Nat /\ Cardinality(Existing) \in Nat
  BY LogAssumption, FS_CardinalityType DEF TypeOK, FewFiles
<1>2. CASE Open
  <2>1. Existing' = Existing \cup {path'} /\ IsFiniteSet(Existing)
    BY <1>2, ExistStep DEF FewFiles
  <2>2. /\ IsFiniteSet(Existing') /\ Cardinality(Existing') \in Nat
        /\ Cardinality(Existing') <= Cardinality(Existing) + 1
    BY <1>1, <2>1, FS_AddElement
  <2>3. state = "unopened" /\ state' = "open" /\ run' = run
    BY <1>2 DEF Open
  <2> QED BY <1>1, <2>2, <2>3 DEF FewFiles
<1>3. CASE ~Open
  <2>1. IsFiniteSet(Existing) /\ Existing' \in SUBSET Existing
    BY <1>3, ExistStep DEF FewFiles
  <2>2. IsFiniteSet(Existing') /\ Cardinality(Existing') <= Cardinality(Existing)
    BY <2>1, FS_Subset
  <2>3. Cardinality(Existing') \in Nat
    BY <2>2, FS_CardinalityType
  <2>4. \/ run' = run /\ (state' = "unopened" => state = "unopened")
        \/ run' = run + 1
    BY <1>3 DEF Next, vars, WriteOff, OpenFails, Write, WriteFails, Sync, SyncErrs, Close,
                Die, Restart, Clock, WriteBack, PowerLoss, OffAfterError
  <2> QED BY <1>1, <2>2, <2>3, <2>4 DEF FewFiles
<1> QED BY <1>2, <1>3

LEMMA FewFilesLeaveNames ==
  ASSUME TypeOK, FewFiles, MaxRuns < Tries, state = "unopened" PROVE NameLeft
<1>1. SUFFICES ASSUME ~NameLeft PROVE FALSE
  OBVIOUS
<1>2. /\ run \in Nat /\ run <= MaxRuns /\ MaxRuns \in Nat /\ Tries \in Nat /\ Tries >= 2
      /\ minute \in Minutes
  BY LogAssumption DEF TypeOK
<1>3. IsFiniteSet(Existing) /\ Cardinality(Existing) <= run - 1 /\ Cardinality(Existing) \in Nat
  BY FS_CardinalityType DEF FewFiles
<1>4. IsFiniteSet(1..(Tries - 1)) /\ Cardinality(1..(Tries - 1)) = Tries - 1
  BY <1>2, FS_Interval
<1> DEFINE name == [n \in 1..(Tries - 1) |-> <<minute, n>>]
<1>5. name \in [1..(Tries - 1) -> Existing]
  BY <1>1, <1>2 DEF Existing, Paths, NameLeft
<1>6. Cardinality(Existing) < Cardinality(1..(Tries - 1))
  BY <1>2, <1>3, <1>4
<1>7. PICK m, n \in 1..(Tries - 1) : m # n /\ name[m] = name[n]
  <2> HIDE DEF name
  <2> QED BY <1>3, <1>4, <1>5, <1>6, FS_PigeonHole
<1> QED BY <1>7

\* log_open always finds a free name when there are fewer runs than the names
\* it tries in one minute.
THEOREM NamesSuffice == MaxRuns < Tries => (Spec => [][Open => NameLeft]_vars)
<1> SUFFICES ASSUME MaxRuns < Tries PROVE Spec => [][Open => NameLeft]_vars
  OBVIOUS
<1> DEFINE Inv == TypeOK /\ Absent /\ OpenExists /\ FewFiles
<1>1. Init => Inv
  <2> SUFFICES ASSUME Init PROVE OpenExists /\ FewFiles
    BY TypeInit
  <2>1. Existing = {} /\ state = "unopened" /\ run = 1
    BY DEF Init, Existing, NoFile
  <2> QED BY <2>1, FS_EmptySet DEF OpenExists, FewFiles
<1>2. Inv /\ [Next]_vars => Inv'
  BY TypeStep, ExistStep, FewFilesStep
<1>3. Inv => (Open => NameLeft)
  BY FewFilesLeaveNames DEF Open
<1> QED BY <1>1, <1>2, <1>3, PTL DEF Spec

\* So with fewer runs than names nothing is clobbered and the promise kept,
\* with no hypothesis about the names.
THEOREM FewRunsAreSafe == MaxRuns < Tries => (Spec => NeverClobbers /\ JournalSpec)
  BY NamesSuffice, NothingClobbered, LogKeepsItsPromise, PTL

=============================================================================
