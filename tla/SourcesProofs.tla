---------------------------- MODULE SourcesProofs ----------------------------
(***************************************************************************)
(* What is proved of the sources, for any number of feeds and watches, any *)
(* size of a batch and of a feed's window, and any requests, follows and   *)
(* failed runs: a stored ETag hides no item, and no watch that the owner   *)
(* added by hand is paused.                                                *)
(***************************************************************************)
EXTENDS Sources, SequenceTheorems, FiniteSetTheorems, TLAPS

-----------------------------------------------------------------------------
(* Lists of sources.                                                       *)

\* An enumeration of a set of sources is a list that names none twice.
LEMMA Enumerates ==
  ASSUME NEW S \in SUBSET Source, NEW q \in SetToSeqs(S)
  PROVE  q \in Seq(Source) /\ IsInjective(q) /\ \A n \in 1..Len(q) : q[n] \in S
<1>1. Cardinality(S) \in Nat
  BY SourcesAssumption, FS_Subset, FS_CardinalityType DEF Source
<1>2. /\ q \in [1..Cardinality(S) -> S]
      /\ \A i, j \in 1..Cardinality(S) : i # j => q[i] # q[j]
  BY DEF SetToSeqs
<1>3. q \in Seq(S)
  BY <1>1, <1>2
<1>4. q \in Seq(Source) /\ \A n \in 1..Len(q) : q[n] \in S
  BY <1>3, SeqMonotonic, ElementOfSeq
<1>5. IsInjective(q)
  BY <1>2 DEF IsInjective
<1>6. QED BY <1>4, <1>5

\* What the query of the due sources lists.
LEMMA Lists ==
  ASSUME NEW S \in SUBSET Source, NEW q \in InOrder(S)
  PROVE  /\ q \in Seq(Source) /\ IsInjective(q)
         /\ \A s : Contains(q, s) => s \in S /\ IsDue(s)
<1>1. q \in SetToSeqs({s \in S : IsDue(s)})
  BY DEF InOrder
<1> DEFINE D == {s \in S : IsDue(s)}
<1>2. q \in SetToSeqs(D) /\ D \in SUBSET Source
  BY <1>1
<1> HIDE DEF D
<1>3. q \in Seq(Source) /\ IsInjective(q) /\ \A n \in 1..Len(q) : q[n] \in D
  BY <1>2, Enumerates
<1>4. QED BY <1>3 DEF D, Contains

\* A new source comes in anywhere.
LEMMA Inserts ==
  ASSUME NEW q \in Seq(Source), IsInjective(q), NEW n \in 1..Len(q) + 1,
         NEW s \in Source, ~Contains(q, s)
  PROVE  LET p == InsertAt(q, n, s)
         IN  /\ p \in Seq(Source) /\ IsInjective(p)
             /\ \A t : Contains(p, t) => t = s \/ Contains(q, t)
<1> DEFINE a == SubSeq(q, 1, n - 1)
           b == SubSeq(q, n, Len(q))
           p == InsertAt(q, n, s)
<1>1. Len(q) \in Nat /\ n \in Int /\ n - 1 \in Int /\ \A i \in 1..Len(q) : q[i] \in Source
  BY LenProperties
<1>2. a \in Seq(Source) /\ Len(a) = n - 1 /\ \A i \in 1..n - 1 : a[i] = q[i]
  <2>1. \A i \in 1..n - 1 : q[i] \in Source
    BY <1>1
  <2>2. /\ a \in Seq(Source) /\ Len(a) = (IF 1 <= n - 1 THEN n - 1 - 1 + 1 ELSE 0)
        /\ \A i \in 1..(n - 1) - 1 + 1 : a[i] = q[1 + i - 1]
    BY <1>1, <2>1, SubSeqProperties
  <2> HIDE DEF a
  <2>3. QED BY <1>1, <2>2
<1>3. /\ b \in Seq(Source) /\ Len(b) = Len(q) - n + 1
      /\ \A i \in 1..Len(q) - n + 1 : b[i] = q[n + i - 1]
  <2>1. \A i \in n..Len(q) : q[i] \in Source
    BY <1>1
  <2>2. /\ b \in Seq(Source) /\ Len(b) = (IF n <= Len(q) THEN Len(q) - n + 1 ELSE 0)
        /\ \A i \in 1..Len(q) - n + 1 : b[i] = q[n + i - 1]
    BY <1>1, <2>1, SubSeqProperties
  <2> HIDE DEF b
  <2>3. QED BY <1>1, <2>2
<1>4. p = (a \o <<s>>) \o b
  BY DEF InsertAt
<1> HIDE DEF a, b, p
<1> DEFINE c == a \o <<s>>
<1>5. c \in Seq(Source) /\ Len(c) = n /\ \A i \in 1..n : c[i] = IF i < n THEN q[i] ELSE s
  <2>1. <<s>> \in Seq(Source) /\ Len(<<s>>) = 1 /\ <<s>>[1] = s
    OBVIOUS
  <2>2. /\ c \in Seq(Source) /\ Len(c) = Len(a) + 1
        /\ \A i \in 1..Len(a) + 1 : c[i] = IF i <= Len(a) THEN a[i] ELSE <<s>>[i - Len(a)]
    BY <1>2, <2>1, ConcatProperties
  <2> HIDE DEF c
  <2>3. Len(c) = n /\ \A i \in 1..n : c[i] = IF i <= n - 1 THEN a[i] ELSE <<s>>[i - (n - 1)]
    BY <1>1, <1>2, <2>2
  <2>4. ASSUME NEW i \in 1..n PROVE c[i] = IF i < n THEN q[i] ELSE s
    <3>1. CASE i < n
      BY <1>1, <1>2, <2>3, <3>1
    <3>2. CASE i = n
      <4>1. n - (n - 1) = 1 /\ ~ (n <= n - 1)
        OBVIOUS
      <4>2. c[n] = <<s>>[n - (n - 1)]
        BY <2>3, <3>2, <4>1
      <4>3. QED BY <2>1, <3>2, <4>1, <4>2
    <3>3. QED BY <3>1, <3>2
  <2>5. QED BY <2>2, <2>3, <2>4
<1>d. p = c \o b
  BY <1>4
<1> HIDE DEF c
<1>6. /\ p \in Seq(Source) /\ Len(p) = Len(q) + 1
      /\ \A i \in 1..Len(q) + 1 :
           p[i] = IF i < n THEN q[i] ELSE IF i = n THEN s ELSE q[i - 1]
  <2>1. /\ p \in Seq(Source) /\ Len(p) = Len(c) + Len(b)
        /\ \A i \in 1..Len(c) + Len(b) : p[i] = IF i <= Len(c) THEN c[i] ELSE b[i - Len(c)]
    BY <1>3, <1>5, <1>d, ConcatProperties
  <2>2. Len(p) = Len(q) + 1
    BY <1>1, <1>3, <1>5, <2>1
  <2>3. ASSUME NEW i \in 1..Len(q) + 1
        PROVE  p[i] = IF i < n THEN q[i] ELSE IF i = n THEN s ELSE q[i - 1]
    <3>1. p[i] = IF i <= n THEN c[i] ELSE b[i - n]
      BY <1>1, <1>3, <1>5, <2>1
    <3>2. i <= n => c[i] = IF i < n THEN q[i] ELSE s
      BY <1>5
    <3>3. ~ (i <= n) => b[i - n] = q[i - 1]
      <4>1. ~ (i <= n) => i - n \in 1..Len(q) - n + 1 /\ n + (i - n) - 1 = i - 1
        BY <1>1
      <4>2. QED BY <1>3, <4>1
    <3>4. QED BY <1>1, <3>1, <3>2, <3>3
  <2>4. QED BY <2>1, <2>2, <2>3
<1>7. ASSUME NEW t, Contains(p, t) PROVE t = s \/ Contains(q, t)
  <2>1. PICK i \in 1..Len(q) + 1 : p[i] = t
    BY <1>6, <1>7 DEF Contains
  <2>2. CASE i < n
    BY <1>1, <1>6, <2>1, <2>2 DEF Contains
  <2>3. CASE i = n
    BY <1>6, <2>1, <2>3
  <2>4. CASE i > n
    <3>1. i - 1 \in 1..Len(q) /\ q[i - 1] = t
      BY <1>1, <1>6, <2>1, <2>4
    <3>2. QED BY <3>1 DEF Contains
  <2>5. QED BY <1>1, <2>2, <2>3, <2>4
<1>8. IsInjective(p)
  <2>1. \A i \in 1..Len(q) : q[i] # s
    BY DEF Contains
  <2>2. \A i, j \in 1..Len(q) : q[i] = q[j] => i = j
    BY LenProperties DEF IsInjective
  <2>3. ASSUME NEW i \in 1..Len(q) + 1, NEW j \in 1..Len(q) + 1, p[i] = p[j], i < j
        PROVE  FALSE
    <3>1. i = n => p[i] = s
      BY <1>6
    <3>2. j = n => p[j] = s
      BY <1>6
    <3>3. i < n => p[i] = q[i] /\ i \in 1..Len(q)
      BY <1>1, <1>6
    <3>4. j < n => p[j] = q[j] /\ j \in 1..Len(q)
      BY <1>1, <1>6
    <3>5. i > n => p[i] = q[i - 1] /\ i - 1 \in 1..Len(q)
      BY <1>1, <1>6
    <3>6. j > n => p[j] = q[j - 1] /\ j - 1 \in 1..Len(q)
      BY <1>1, <1>6
    <3>7. QED BY <2>1, <2>2, <2>3, <3>1, <3>2, <3>3, <3>4, <3>5, <3>6
  <2>4. \A i, j \in 1..Len(q) + 1 : p[i] = p[j] => i = j
    BY <2>3
  <2>5. DOMAIN p = 1..Len(q) + 1
    BY <1>6, LenProperties
  <2>6. QED BY <2>4, <2>5 DEF IsInjective
<1>9. QED BY <1>6, <1>7, <1>8 DEF p

-----------------------------------------------------------------------------
(* Types, by parts.                                                        *)

StatusType == {"none", "active", "paused", "error"}
AtType == {"idle", "sync", "pick", "fetch", "store", "error"}
DocType == [etag : Version, todo : SUBSET Item]

StatusTyped == status \in [Source -> StatusType]
OriginTyped == byFollow \in [Source -> BOOLEAN]
EtagTyped == etag \in [Source -> Version]
StoredTyped == stored \in [Source -> SUBSET Item]
DueTyped == due \in Seq(Source) /\ IsInjective(due)
NoRowIsEmpty ==
  \A s \in Source : status[s] = "none" => ~IsDue(s) /\ stored[s] = {} /\ etag[s] = 0
WorldTyped == followed \subseteq Watch /\ current \in [Feed -> Version]
AtTyped == at \in [Job -> AtType]
SyncTyped == syncing \in [Job -> SUBSET Watch]
BatchTyped == batch \in [Job -> Seq(Rows)]
AtWork == \A j \in Job : at[j] \in {"fetch", "store", "error"} => batch[j] # <<>>
DocTyped == doc \in [Job -> DocType]
HistoryTyped == byHand \subseteq Source /\ renewed \subseteq Source
CountsTyped == acts \in Nat /\ follows \in Nat /\ faults \in Nat

RowsTyped == /\ StatusTyped /\ OriginTyped /\ EtagTyped /\ StoredTyped /\ DueTyped
             /\ NoRowIsEmpty
JobsTyped == AtTyped /\ SyncTyped /\ BatchTyped /\ AtWork /\ DocTyped
AllTyped == RowsTyped /\ WorldTyped /\ JobsTyped /\ HistoryTyped /\ CountsTyped

\* They are TypeOK, here and in the next state.
LEMMA TypeParts == (TypeOK <=> AllTyped) /\ (TypeOK' <=> AllTyped')
BY DEF TypeOK, AllTyped, RowsTyped, JobsTyped, StatusTyped, OriginTyped, EtagTyped,
       StoredTyped, DueTyped, NoRowIsEmpty, WorldTyped, AtTyped, SyncTyped, BatchTyped,
       AtWork, DocTyped, HistoryTyped, CountsTyped, StatusType, AtType, DocType

\* What a step leaves alone stays typed.
LEMMA Frames ==
  ASSUME AllTyped
  PROVE  /\ UNCHANGED status => StatusTyped'
         /\ UNCHANGED byFollow => OriginTyped'
         /\ UNCHANGED etag => EtagTyped'
         /\ UNCHANGED stored => StoredTyped'
         /\ UNCHANGED due => DueTyped'
         /\ UNCHANGED <<status, stored, etag, due>> => NoRowIsEmpty'
         /\ UNCHANGED rows => RowsTyped'
         /\ UNCHANGED <<followed, current>> => WorldTyped'
         /\ UNCHANGED at => AtTyped'
         /\ UNCHANGED syncing => SyncTyped'
         /\ UNCHANGED batch => BatchTyped'
         /\ UNCHANGED <<at, batch>> => AtWork'
         /\ UNCHANGED doc => DocTyped'
         /\ UNCHANGED jobs => JobsTyped'
         /\ UNCHANGED <<byHand, renewed>> => HistoryTyped'
         /\ UNCHANGED <<acts, follows, faults>> => CountsTyped'
<1>1. /\ UNCHANGED status => StatusTyped'
      /\ UNCHANGED byFollow => OriginTyped'
      /\ UNCHANGED etag => EtagTyped'
      /\ UNCHANGED stored => StoredTyped'
      /\ UNCHANGED due => DueTyped'
      /\ UNCHANGED <<status, stored, etag, due>> => NoRowIsEmpty'
  BY DEF AllTyped, RowsTyped, StatusTyped, OriginTyped, EtagTyped, StoredTyped, DueTyped,
         NoRowIsEmpty, IsDue
<1>2. /\ UNCHANGED at => AtTyped'
      /\ UNCHANGED syncing => SyncTyped'
      /\ UNCHANGED batch => BatchTyped'
      /\ UNCHANGED <<at, batch>> => AtWork'
      /\ UNCHANGED doc => DocTyped'
  BY DEF AllTyped, JobsTyped, AtTyped, SyncTyped, BatchTyped, AtWork, DocTyped
<1>3. /\ UNCHANGED <<followed, current>> => WorldTyped'
      /\ UNCHANGED <<byHand, renewed>> => HistoryTyped'
      /\ UNCHANGED <<acts, follows, faults>> => CountsTyped'
  BY DEF AllTyped, WorldTyped, HistoryTyped, CountsTyped
<1>4. UNCHANGED rows => RowsTyped'
  BY <1>1 DEF rows, RowsTyped
<1>5. UNCHANGED jobs => JobsTyped'
  BY <1>2 DEF jobs, JobsTyped
<1>6. QED BY <1>1, <1>2, <1>3, <1>4, <1>5

\* A list of rows that a batch takes.
LEMMA Takes ==
  ASSUME EtagTyped, NEW q \in Seq(Source)
  PROVE  /\ FirstOf(q) \in Seq(Rows)
         /\ \A n \in 1..Len(FirstOf(q)) : \E s \in Source : FirstOf(q)[n] = Row(s)
<1> DEFINE k == IF Len(q) < Limit THEN Len(q) ELSE Limit
<1>1. k \in Nat /\ k <= Len(q) /\ Len(q) \in Nat
  BY SourcesAssumption
<1>2. FirstOf(q) = [n \in 1..k |-> Row(q[n])]
  BY DEF FirstOf
<1> HIDE DEF k
<1>3. \A n \in 1..k : q[n] \in Source
  BY <1>1
<1>4. \A s \in Source : Row(s) \in Rows
  BY DEF Row, Rows, EtagTyped
<1>5. FirstOf(q) \in Seq(Rows) /\ Len(FirstOf(q)) = k
  BY <1>1, <1>2, <1>3, <1>4
<1>6. QED BY <1>2, <1>3, <1>5

\* A batch begins, and the row that is at hand is done with.
LEMMA Begins ==
  ASSUME AllTyped, NEW j \in Job, NEW list \in Seq(Rows), Begin(j, list)
  PROVE  /\ AtTyped' /\ BatchTyped' /\ AtWork'
         /\ batch'[j] = list /\ at'[j] \in {"idle", "fetch"}
         /\ \A i \in Job \ {j} : batch'[i] = batch[i] /\ at'[i] = at[i]
<1> USE DEF AllTyped, JobsTyped, AtTyped, BatchTyped
<1>1. batch' = [batch EXCEPT ![j] = list]
      /\ at' = [at EXCEPT ![j] = IF list = <<>> THEN "idle" ELSE "fetch"]
  BY DEF Begin
<1>2. BatchTyped' /\ AtTyped'
  BY <1>1 DEF AtType
<1>3. /\ batch'[j] = list /\ at'[j] = IF list = <<>> THEN "idle" ELSE "fetch"
      /\ \A i \in Job \ {j} : batch'[i] = batch[i] /\ at'[i] = at[i]
  BY <1>1
<1>4. AtWork'
  BY <1>3 DEF AtWork
<1>5. QED BY <1>2, <1>3, <1>4

\* The row at hand is one of the batch.
LEMMA HasRow ==
  ASSUME AllTyped, NEW j \in Job, at[j] \in {"fetch", "store", "error"}
  PROVE  /\ batch[j] \in Seq(Rows) /\ batch[j] # <<>> /\ Here(j) \in Rows
         /\ Here(j).id \in Source /\ Here(j).etag \in Version
         /\ 1 \in 1..Len(batch[j]) /\ Here(j) = batch[j][1]
<1>1. batch[j] \in Seq(Rows) /\ batch[j] # <<>>
  BY DEF AllTyped, JobsTyped, BatchTyped, AtWork
<1>2. Here(j) \in Rows /\ Here(j) = batch[j][1] /\ 1 \in 1..Len(batch[j])
  BY <1>1, EmptySeq, HeadTailProperties DEF Here
<1>3. QED BY <1>1, <1>2 DEF Rows

\* What is left of a batch.
LEMMA Advances ==
  ASSUME AllTyped, NEW j \in Job, at[j] \in {"fetch", "store", "error"}, Advance(j)
  PROVE  /\ AtTyped' /\ BatchTyped' /\ AtWork' /\ DocTyped'
         /\ at'[j] \in {"idle", "fetch"}
         /\ \A n \in 1..Len(batch'[j]) : \E i \in 1..Len(batch[j]) : batch'[j][n] = batch[j][i]
         /\ \A i \in Job \ {j} : /\ batch'[i] = batch[i] /\ at'[i] = at[i]
                                 /\ doc'[i] = doc[i]
<1> USE DEF AllTyped, JobsTyped, AtTyped, BatchTyped
<1>1. /\ batch' = [batch EXCEPT ![j] = Tail(batch[j])]
      /\ doc' = [doc EXCEPT ![j] = NoDoc]
      /\ at' = [at EXCEPT ![j] = IF Tail(batch[j]) = <<>> THEN "idle" ELSE "fetch"]
  BY DEF Advance, Go
<1>2. batch[j] \in Seq(Rows) /\ batch[j] # <<>>
  BY HasRow
<1>3. /\ Tail(batch[j]) \in Seq(Rows) /\ Len(Tail(batch[j])) = Len(batch[j]) - 1
      /\ \A n \in 1..Len(Tail(batch[j])) : Tail(batch[j])[n] = batch[j][n + 1]
  BY <1>2, HeadTailProperties
<1>4. NoDoc \in DocType
  BY SourcesAssumption DEF NoDoc, DocType, Version
<1>5. BatchTyped' /\ AtTyped' /\ DocTyped'
  BY <1>1, <1>3, <1>4 DEF AtType, DocTyped
<1>6. /\ batch'[j] = Tail(batch[j])
      /\ at'[j] = IF Tail(batch[j]) = <<>> THEN "idle" ELSE "fetch"
      /\ \A i \in Job \ {j} : batch'[i] = batch[i] /\ at'[i] = at[i] /\ doc'[i] = doc[i]
  BY <1>1 DEF DocTyped
<1>7. AtWork'
  BY <1>6 DEF AtWork
<1>8. \A n \in 1..Len(batch'[j]) : \E i \in 1..Len(batch[j]) : batch'[j][n] = batch[j][i]
  <2>1. ASSUME NEW n \in 1..Len(Tail(batch[j])) PROVE n + 1 \in 1..Len(batch[j])
    BY <1>2, <1>3
  <2>2. QED BY <1>3, <1>6, <2>1
<1>9. QED BY <1>5, <1>6, <1>7, <1>8

\* A source whose time comes, or that is new, goes last.
LEMMA Appends ==
  ASSUME NEW q \in Seq(Source), IsInjective(q), NEW s \in Source, ~Contains(q, s)
  PROVE  LET p == Append(q, s)
         IN  /\ p \in Seq(Source) /\ IsInjective(p)
             /\ \A t : Contains(p, t) => t = s \/ Contains(q, t)
<1> DEFINE p == Append(q, s)
<1>1. /\ Len(q) \in Nat /\ p \in Seq(Source) /\ Len(p) = Len(q) + 1
      /\ \A n \in 1..Len(q) + 1 : p[n] = IF n <= Len(q) THEN q[n] ELSE s
  BY LenProperties
<1>2. \A n \in 1..Len(q) : q[n] # s
  BY DEF Contains
<1>3. \A m, n \in 1..Len(q) : q[m] = q[n] => m = n
  BY LenProperties DEF IsInjective
<1> HIDE DEF p
<1>4. ASSUME NEW m \in 1..Len(p), NEW n \in 1..Len(p), p[m] = p[n] PROVE m = n
  <2>1. CASE m <= Len(q) /\ n <= Len(q)
    <3>1. m \in 1..Len(q) /\ n \in 1..Len(q) /\ q[m] = q[n]
      BY <1>1, <1>4, <2>1
    <3>2. QED BY <1>3, <3>1
  <2>2. CASE m <= Len(q) /\ ~ (n <= Len(q))
    <3>1. m \in 1..Len(q) /\ q[m] = s
      BY <1>1, <1>4, <2>2
    <3>2. QED BY <1>2, <3>1
  <2>3. CASE ~ (m <= Len(q)) /\ n <= Len(q)
    <3>1. n \in 1..Len(q) /\ q[n] = s
      BY <1>1, <1>4, <2>3
    <3>2. QED BY <1>2, <3>1
  <2>4. CASE ~ (m <= Len(q)) /\ ~ (n <= Len(q))
    BY <1>1, <2>4
  <2>5. QED BY <2>1, <2>2, <2>3, <2>4
<1>5. IsInjective(p)
  BY <1>1, <1>4, LenProperties DEF IsInjective
<1>6. \A t : Contains(p, t) => t = s \/ Contains(q, t)
  BY <1>1 DEF Contains
<1>7. QED BY <1>1, <1>5, <1>6 DEF p

\* The lists of the owner's requests are lists of rows.
LEMMA OwnersLists ==
  ASSUME EtagTyped, OwnerRefreshes
  PROVE  \E list \in Seq(Rows) :
           /\ Begin("owner", list)
           /\ \A n \in 1..Len(list) : \E s \in Source : list[n] = Row(s)
<1>1. CASE \E s \in Source : Begin("owner", <<Row(s)>>)
  <2>1. PICK s \in Source : Begin("owner", <<Row(s)>>)
    BY <1>1
  <2>2. Row(s) \in Rows
    BY DEF Row, Rows, EtagTyped
  <2>3. <<Row(s)>> \in Seq(Rows) /\ Len(<<Row(s)>>) = 1 /\ <<Row(s)>>[1] = Row(s)
    BY <2>2
  <2>4. \A n \in 1..Len(<<Row(s)>>) : <<Row(s)>>[n] = Row(s)
    BY <2>3
  <2>5. QED BY <2>1, <2>3, <2>4
<1>2. ASSUME NEW kind \in {Source, Watch},
             NEW ready \in InOrder({s \in kind : Active(s)}),
             NEW later \in SetToSeqs({s \in kind : Active(s) /\ ~IsDue(s)}),
             Begin("owner", FirstOf(ready \o later))
      PROVE  \E list \in Seq(Rows) :
               /\ Begin("owner", list)
               /\ \A n \in 1..Len(list) : \E s \in Source : list[n] = Row(s)
  <2>1. kind \subseteq Source
    BY DEF Source
  <2> DEFINE A == {s \in kind : Active(s)}
             B == {s \in kind : Active(s) /\ ~IsDue(s)}
  <2>2. A \in SUBSET Source /\ B \in SUBSET Source /\ ready \in InOrder(A) /\ later \in SetToSeqs(B)
    BY <2>1
  <2> HIDE DEF A, B
  <2>3. ready \in Seq(Source) /\ later \in Seq(Source)
    BY <2>2, Lists, Enumerates
  <2>4. ready \o later \in Seq(Source)
    BY <2>3
  <2>5. QED BY <1>2, <2>4, Takes
<1>3. QED BY <1>1, <1>2 DEF OwnerRefreshes

\* What the program starts with is typed.
LEMMA InitTyped == Init => TypeOK
<1> SUFFICES ASSUME Init PROVE AllTyped
  BY TypeParts
<1>1. /\ status \in [Source -> {"none", "active"}]
      /\ byHand = {s \in Source : Active(s)} /\ due \in SetToSeqs(byHand)
      /\ stored = [s \in Source |-> {}] /\ etag = [s \in Source |-> 0]
  BY DEF Init
<1>2. byHand \in SUBSET Source
  BY <1>1
<1>3. /\ due \in Seq(Source) /\ IsInjective(due)
      /\ \A n \in 1..Len(due) : due[n] \in byHand
  BY <1>1, <1>2, Enumerates
<1>4. 0 \in Version /\ 1 \in Version
  BY SourcesAssumption DEF Version
<1>5. StatusTyped /\ EtagTyped /\ StoredTyped /\ DueTyped
  BY <1>1, <1>3, <1>4 DEF StatusTyped, StatusType, EtagTyped, StoredTyped, DueTyped
<1>6. OriginTyped /\ WorldTyped /\ HistoryTyped /\ CountsTyped
  BY <1>2, <1>4 DEF Init, OriginTyped, WorldTyped, HistoryTyped, CountsTyped
<1>7. NoRowIsEmpty
  BY <1>1, <1>3 DEF NoRowIsEmpty, IsDue, Contains, Active
<1>8. AtTyped /\ SyncTyped /\ BatchTyped /\ AtWork
  BY EmptySeq DEF Init, AtTyped, AtType, SyncTyped, BatchTyped, AtWork
<1>9. DocTyped
  BY <1>4 DEF Init, DocTyped, DocType, NoDoc
<1>10. QED BY <1>5, <1>6, <1>7, <1>8, <1>9 DEF AllTyped, RowsTyped, JobsTyped

\* Every step leaves the rows and what the jobs hold typed: the statuses are
\* those of the table, a source that has no row has no items, no ETag and no
\* turn, and no source is listed twice.
LEMMA TypeStep == TypeOK /\ [Next]_vars => TypeOK'
<1> SUFFICES ASSUME AllTyped, [Next]_vars PROVE AllTyped'
  BY TypeParts
<1> USE Frames
<1>0. /\ RowsTyped /\ WorldTyped /\ JobsTyped /\ HistoryTyped /\ CountsTyped
      /\ StatusTyped /\ OriginTyped /\ EtagTyped /\ StoredTyped /\ DueTyped /\ NoRowIsEmpty
      /\ AtTyped /\ SyncTyped /\ BatchTyped /\ AtWork /\ DocTyped
  BY Zenon DEF AllTyped, RowsTyped, JobsTyped
<1>1. ASSUME NEW f \in Feed, Publish(f) PROVE AllTyped'
  <2>1. WorldTyped'
    BY <1>0, <1>1, SourcesAssumption DEF Publish, WorldTyped, Version
  <2>2. QED BY <1>1, <2>1, Zenon DEF Publish, AllTyped, bounds
<1>2. ASSUME NEW s \in Source, ComesDue(s) PROVE AllTyped'
  <2>1. due' = Append(due, s) /\ status[s] # "none" /\ ~IsDue(s)
    BY <1>2 DEF ComesDue
  <2>2. /\ due' \in Seq(Source) /\ IsInjective(due')
        /\ \A t : Contains(due', t) => t = s \/ IsDue(t)
    BY <1>0, <2>1, Appends DEF DueTyped, IsDue
  <2>3. DueTyped'
    BY <2>2 DEF DueTyped
  <2>4. NoRowIsEmpty'
    BY <1>0, <1>2, <2>1, <2>2 DEF ComesDue, NoRowIsEmpty, IsDue
  <2>5. QED BY <1>2, <2>3, <2>4, Zenon DEF ComesDue, AllTyped, RowsTyped, bounds
<1>3. ASSUME NEW w \in Watch, ChangeFollow(w) PROVE AllTyped'
  <2>1. WorldTyped' /\ follows + 1 \in Nat
    BY <1>0, <1>3 DEF ChangeFollow, WorldTyped, CountsTyped
  <2>2. CountsTyped'
    BY <1>0, <1>3, <2>1 DEF ChangeFollow, CountsTyped
  <2>3. QED BY <1>3, <2>1, <2>2, Zenon DEF ChangeFollow, AllTyped
<1>a. Act => acts' \in Nat
  BY <1>0 DEF Act, CountsTyped
<1>4. ASSUME NEW s \in Source, OwnerAdds(s) PROVE AllTyped'
  <2>1. /\ status' = [status EXCEPT ![s] = "active"]
        /\ byFollow' = [byFollow EXCEPT ![s] = FALSE]
        /\ byHand' = byHand \cup {s} /\ UNCHANGED <<etag, stored, renewed, follows, faults>>
    BY <1>4 DEF OwnerAdds
  <2>2. StatusTyped' /\ OriginTyped' /\ HistoryTyped'
    BY <1>0, <2>1 DEF StatusTyped, StatusType, OriginTyped, HistoryTyped
  <2>3. CountsTyped'
    BY <1>0, <1>4, <1>a DEF OwnerAdds, CountsTyped
  <2>4. DueTyped' /\ \A t : Contains(due', t) => t = s \/ IsDue(t)
    <3>1. CASE status[s] = "none"
      <4>1. PICK n \in 1..Len(due) + 1 : due' = InsertAt(due, n, s)
        BY <1>4, <3>1 DEF OwnerAdds
      <4>2. ~Contains(due, s)
        BY <1>0, <3>1 DEF NoRowIsEmpty, IsDue
      <4>3. QED BY <1>0, <4>1, <4>2, Inserts DEF DueTyped, IsDue
    <3>2. CASE status[s] # "none"
      BY <1>0, <1>4, <3>2 DEF OwnerAdds, DueTyped, IsDue
    <3>3. QED BY <3>1, <3>2
  <2>5. NoRowIsEmpty'
    BY <1>0, <2>1, <2>4 DEF NoRowIsEmpty, IsDue, StatusTyped
  <2>6. QED BY <1>4, <2>1, <2>2, <2>3, <2>4, <2>5, Zenon DEF OwnerAdds, AllTyped, RowsTyped
<1>5. ASSUME NEW s \in Source, OwnerDeletes(s) PROVE AllTyped'
  <2>1. /\ status' = [status EXCEPT ![s] = "none"]
        /\ byFollow' = [byFollow EXCEPT ![s] = FALSE]
        /\ etag' = [etag EXCEPT ![s] = 0] /\ stored' = [stored EXCEPT ![s] = {}]
        /\ due' \in InOrder(Source \ {s})
        /\ byHand' \subseteq byHand /\ renewed' \subseteq renewed \cup {s}
    BY <1>5 DEF OwnerDeletes
  <2>2. 0 \in Version
    BY SourcesAssumption DEF Version
  <2>3. StatusTyped' /\ OriginTyped' /\ EtagTyped' /\ StoredTyped' /\ HistoryTyped'
    BY <1>0, <2>1, <2>2 DEF StatusTyped, StatusType, OriginTyped, EtagTyped, StoredTyped,
                            HistoryTyped
  <2>4. /\ due' \in Seq(Source) /\ IsInjective(due')
        /\ \A t : Contains(due', t) => t \in Source \ {s} /\ IsDue(t)
    BY <2>1, Lists
  <2>5. NoRowIsEmpty'
    BY <1>0, <2>1, <2>4 DEF NoRowIsEmpty, IsDue, StatusTyped, StoredTyped, EtagTyped
  <2>6. CountsTyped'
    BY <1>0, <1>5, <1>a DEF OwnerDeletes, CountsTyped
  <2>7. DueTyped'
    BY <2>4 DEF DueTyped
  <2>8. QED BY <1>5, <2>3, <2>5, <2>6, <2>7, Zenon DEF OwnerDeletes, AllTyped, RowsTyped
<1>b. ASSUME NEW j \in Job, NEW a \in AtType \ {"fetch", "store", "error"},
             at' = [at EXCEPT ![j] = a], UNCHANGED batch
      PROVE  AtTyped' /\ AtWork'
  BY <1>0, <1>b DEF AtTyped, AtWork
<1>c. \A j : AfterSync(j) \in AtType \ {"fetch", "store", "error"}
  BY DEF AfterSync, AtType
<1>6. ASSUME NEW j \in Job, StartSync(j) PROVE AllTyped'
  <2>1. AtTyped' /\ AtWork'
    BY <1>6, <1>b DEF StartSync, AtType
  <2>2. SyncTyped'
    BY <1>0, <1>6 DEF StartSync, SyncTyped, WorldTyped
  <2>3. CountsTyped'
    BY <1>0, <1>6, <1>a DEF StartSync, CountsTyped
  <2>4. QED BY <1>6, <2>1, <2>2, <2>3, Zenon DEF StartSync, AllTyped, JobsTyped
<1>7. ASSUME NEW j \in Job, NEW w \in Watch, EnsureWatch(j, w) PROVE AllTyped'
  <2>1. w \in Source
    BY DEF Source
  <2>2. /\ syncing' = [syncing EXCEPT ![j] = syncing[j] \ {w}]
        /\ byFollow' = [byFollow EXCEPT ![w] = byFollow[w] \/ status[w] = "none"]
        /\ status' = [status EXCEPT ![w] =
                        IF status[w] \in {"none", "paused"} THEN "active" ELSE status[w]]
        /\ due' = due \/ (status[w] = "none" /\ due' = Append(due, w))
    BY <1>0, <1>7, <2>1 DEF EnsureWatch, StatusTyped, OriginTyped, SyncTyped
  <2>3. SyncTyped'
    BY <1>0, <2>2 DEF SyncTyped
  <2>4. StatusTyped'
    BY <1>0, <2>1, <2>2 DEF StatusTyped, StatusType
  <2>5. OriginTyped'
    BY <1>0, <2>2, <2>1 DEF OriginTyped
  <2>6. DueTyped' /\ \A t : Contains(due', t) => t = w \/ IsDue(t)
    <3>1. CASE due' = due
      BY <1>0, <3>1 DEF DueTyped, IsDue
    <3>2. CASE status[w] = "none" /\ due' = Append(due, w)
      <4>1. ~Contains(due, w)
        BY <1>0, <2>1, <3>2 DEF NoRowIsEmpty, IsDue
      <4>2. due \in Seq(Source) /\ IsInjective(due)
        BY <1>0 DEF DueTyped
      <4>3. QED BY <2>1, <3>2, <4>1, <4>2, Appends DEF DueTyped, IsDue
    <3>3. QED BY <2>2, <3>1, <3>2
  <2>7. NoRowIsEmpty'
    <3>1. UNCHANGED <<etag, stored>>
      BY <1>7 DEF EnsureWatch
    <3>2. \A s \in Source : status'[s] = "none" => status[s] = "none" /\ s # w
      BY <1>0, <2>1, <2>2 DEF StatusTyped
    <3>3. QED BY <1>0, <2>6, <3>1, <3>2 DEF NoRowIsEmpty, IsDue
  <2>8. QED BY <1>7, <2>3, <2>4, <2>5, <2>6, <2>7, Zenon
            DEF EnsureWatch, AllTyped, RowsTyped, JobsTyped, bounds
<1>8. ASSUME NEW j \in Job, PauseWatches(j) PROVE AllTyped'
  <2>1. AtTyped' /\ AtWork'
    BY <1>8, <1>b, <1>c DEF PauseWatches
  <2>2. StatusTyped' /\ \A s \in Source : status'[s] = "none" => status[s] = "none"
    BY <1>0, <1>8 DEF PauseWatches, StatusTyped, StatusType
  <2>3. NoRowIsEmpty'
    BY <1>0, <1>8, <2>2 DEF PauseWatches, NoRowIsEmpty, IsDue
  <2>4. QED BY <1>8, <2>1, <2>2, <2>3, Zenon DEF PauseWatches, AllTyped, RowsTyped, JobsTyped,
                                                  bounds
<1>9. ASSUME NEW j \in Job, SyncFails(j) PROVE AllTyped'
  <2>1. AtTyped' /\ AtWork'
    BY <1>9, <1>b, <1>c DEF SyncFails
  <2>2. SyncTyped'
    BY <1>0, <1>9 DEF SyncFails, SyncTyped
  <2>3. CountsTyped'
    BY <1>0, <1>9 DEF SyncFails, CountsTyped
  <2>4. QED BY <1>9, <2>1, <2>2, <2>3, Zenon DEF SyncFails, AllTyped, JobsTyped
<1>10. CASE PickDue
  <2>1. PICK q \in InOrder({s \in Source : Active(s)}) : Begin("cron", FirstOf(q))
    BY <1>10 DEF PickDue
  <2>2. FirstOf(q) \in Seq(Rows)
    BY <1>0, Lists, Takes
  <2>3. AtTyped' /\ BatchTyped' /\ AtWork'
    BY <2>1, <2>2, Begins DEF Job
  <2>4. QED BY <1>10, <2>3, Zenon DEF PickDue, AllTyped, JobsTyped, bounds
<1>11. CASE OwnerRefreshes
  <2>1. PICK list \in Seq(Rows) : Begin("owner", list)
    BY <1>0, <1>11, OwnersLists
  <2>2. AtTyped' /\ BatchTyped' /\ AtWork'
    BY <2>1, Begins DEF Job
  <2>3. CountsTyped'
    BY <1>0, <1>11, <1>a DEF OwnerRefreshes, CountsTyped
  <2>4. QED BY <1>11, <2>2, <2>3, Zenon DEF OwnerRefreshes, AllTyped, JobsTyped
<1>d. ASSUME NEW j \in Job, at[j] \in {"fetch", "store", "error"},
             NEW a \in {"store", "error"}, Go(j, a), UNCHANGED batch
      PROVE  AtTyped' /\ AtWork'
  BY <1>0, <1>d DEF Go, AtTyped, AtType, AtWork
<1>12. ASSUME NEW j \in Job, Fetch(j) PROVE AllTyped'
  <2>1. AtTyped' /\ AtWork'
    BY <1>12, <1>d DEF Fetch
  <2>2. DocTyped'
    <3>1. Here(j).etag \in Version
      BY <1>12, HasRow DEF Fetch
    <3>2. \A s \in Feed : current[s] \in Version
      BY <1>0 DEF WorldTyped
    <3>3. \A v : Items(v) \subseteq Item
      BY DEF Items
    <3>4. \/ UNCHANGED doc
          \/ \E d \in DocType : doc' = [doc EXCEPT ![j] = d]
      BY <1>12, <3>1, <3>2, <3>3 DEF Fetch, DocType
    <3>5. QED BY <1>0, <3>4 DEF DocTyped
  <2>3. QED BY <1>12, <2>1, <2>2, Zenon DEF Fetch, AllTyped, JobsTyped, bounds
<1>13. ASSUME NEW j \in Job, NEW i \in Item, Store(j, i) PROVE AllTyped'
  <2>1. Here(j).id \in Source
    BY <1>13, HasRow DEF Store
  <2>2. StoredTyped' /\ DocTyped'
    BY <1>0, <1>13, <2>1 DEF Store, StoredTyped, DocTyped, DocType
  <2>3. NoRowIsEmpty'
    BY <1>0, <1>13, <2>1 DEF Store, NoRowIsEmpty, IsDue, StoredTyped
  <2>4. QED BY <1>13, <2>2, <2>3, Zenon DEF Store, AllTyped, RowsTyped, JobsTyped, bounds
<1>14. ASSUME NEW j \in Job, Fails(j) PROVE AllTyped'
  <2>1. AtTyped' /\ AtWork'
    BY <1>14, <1>d DEF Fails
  <2>2. QED BY <1>14, <2>1, Zenon DEF Fails, AllTyped, JobsTyped, bounds
<1>15. ASSUME NEW j \in Job, MarkRefreshed(j) PROVE AllTyped'
  <2>1. AtTyped' /\ BatchTyped' /\ AtWork' /\ DocTyped'
    BY <1>15, Advances DEF MarkRefreshed
  <2> DEFINE s == Here(j).id
             e == doc[j].etag
  <2>2. s \in Source /\ e \in Version
    BY <1>0, <1>15, HasRow DEF MarkRefreshed, DocTyped, DocType
  <2>3. CASE status[s] = "none"
    <3>1. UNCHANGED <<status, etag, due, stored>>
      BY <1>15, <2>3 DEF MarkRefreshed
    <3>2. QED BY <1>15, <2>1, <3>1, Zenon DEF MarkRefreshed, AllTyped, RowsTyped, JobsTyped,
                                              bounds
  <2>4. CASE status[s] # "none"
    <3>1. /\ status' = [status EXCEPT ![s] = "active"]
          /\ etag' = [etag EXCEPT ![s] = IF e = 0 THEN etag[s] ELSE e]
          /\ due' \in InOrder(Source \ {s}) /\ UNCHANGED stored
      BY <1>0, <1>15, <2>2, <2>4 DEF MarkRefreshed, EtagTyped
    <3> HIDE DEF s, e
    <3>2. StatusTyped'
      BY <1>0, <3>1 DEF StatusTyped, StatusType
    <3>3. EtagTyped'
      BY <1>0, <2>2, <3>1 DEF EtagTyped
    <3>4. /\ due' \in Seq(Source) /\ IsInjective(due')
          /\ \A t : Contains(due', t) => t \in Source \ {s} /\ IsDue(t)
      BY <3>1, Lists
    <3>5. NoRowIsEmpty'
      BY <1>0, <2>2, <2>4, <3>1, <3>4
         DEF NoRowIsEmpty, IsDue, StatusTyped, EtagTyped
    <3>6. DueTyped'
      BY <3>4 DEF DueTyped
    <3>7. QED BY <1>15, <2>1, <3>2, <3>3, <3>5, <3>6, Zenon
              DEF MarkRefreshed, AllTyped, RowsTyped, JobsTyped, bounds
  <2>5. QED BY <2>3, <2>4
<1>16. ASSUME NEW j \in Job, MarkError(j) PROVE AllTyped'
  <2>1. AtTyped' /\ BatchTyped' /\ AtWork' /\ DocTyped'
    BY <1>16, Advances DEF MarkError
  <2>2. StatusTyped' /\ \A s \in Source : status'[s] = "none" => status[s] = "none"
    BY <1>0, <1>16 DEF MarkError, StatusTyped, StatusType
  <2>3. NoRowIsEmpty'
    BY <1>0, <1>16, <2>2 DEF MarkError, NoRowIsEmpty, IsDue
  <2>4. QED BY <1>16, <2>1, <2>2, <2>3, Zenon DEF MarkError, AllTyped, RowsTyped, JobsTyped,
                                                  bounds
<1>17. ASSUME NEW j \in Job, Abort(j) PROVE AllTyped'
  <2>1. AtTyped' /\ SyncTyped' /\ BatchTyped'
    BY <1>0, <1>17, EmptySeq DEF Abort, AtTyped, AtType, SyncTyped, BatchTyped
  <2>2. AtWork'
    BY <1>0, <1>17 DEF Abort, AtWork, AtTyped, BatchTyped
  <2>3. NoDoc \in DocType
    BY SourcesAssumption DEF NoDoc, DocType, Version
  <2>4. DocTyped' /\ CountsTyped'
    BY <1>0, <1>17, <2>3 DEF Abort, DocTyped, CountsTyped
  <2>5. QED BY <1>17, <2>1, <2>2, <2>4, Zenon DEF Abort, AllTyped, JobsTyped
<1>18. CASE UNCHANGED vars
  BY <1>18, Zenon DEF vars, AllTyped, bounds
<1>19. QED
  BY <1>1, <1>2, <1>3, <1>4, <1>5, <1>6, <1>7, <1>8, <1>9, <1>10, <1>11, <1>12, <1>13,
     <1>14, <1>15, <1>16, <1>17, <1>18, Zenon DEF Next, CronJob, Work, Job

\* The table and the jobs are typed after every step, for any number of sources.
THEOREM SourcesTypeCorrect == Spec => []TypeOK
<1>1. QED BY InitTyped, TypeStep, PTL DEF Spec

-----------------------------------------------------------------------------
(* Watches added by hand.                                                  *)

\* A source that the owner added has a row, which is not paused, and whose
\* policy the synchronisation does not own: it pauses only its own.
ByHandKept == \A s \in byHand : status[s] \notin {"none", "paused"} /\ ~byFollow[s]

\* So after every step.
LEMMA ByHandStep ==
  ASSUME TypeOK, ByHandKept, [Next]_vars
  PROVE  ByHandKept'
<1>0. AllTyped /\ StatusTyped /\ OriginTyped /\ byHand \subseteq Source
  BY TypeParts, Zenon DEF AllTyped, RowsTyped, HistoryTyped
<1>a. ASSUME byHand' \subseteq byHand, UNCHANGED byFollow,
             \A s \in byHand' : status'[s] \in {status[s], "active", "error"}
      PROVE  ByHandKept'
  BY <1>a DEF ByHandKept
<1>1. ASSUME UNCHANGED <<status, byFollow, byHand>> PROVE ByHandKept'
  BY <1>1 DEF ByHandKept
<1>2. ASSUME NEW s \in Source, OwnerAdds(s) PROVE ByHandKept'
  BY <1>0, <1>2 DEF OwnerAdds, ByHandKept, StatusTyped, OriginTyped
<1>3. ASSUME NEW s \in Source, OwnerDeletes(s) PROVE ByHandKept'
  BY <1>0, <1>3 DEF OwnerDeletes, ByHandKept, StatusTyped, OriginTyped
<1>4. ASSUME NEW j \in Job, NEW w \in Watch, EnsureWatch(j, w) PROVE ByHandKept'
  <2>1. w \in Source /\ UNCHANGED byHand
    BY <1>4 DEF EnsureWatch, Source
  <2>2. \A s \in Source \ {w} : status'[s] = status[s] /\ byFollow'[s] = byFollow[s]
    BY <1>0, <1>4 DEF EnsureWatch, StatusTyped, OriginTyped
  <2>3. status[w] \notin {"none", "paused"} => status'[w] = status[w]
    BY <1>0, <1>4, <2>1 DEF EnsureWatch, StatusTyped
  <2>4. status[w] # "none" => byFollow'[w] = byFollow[w]
    <3>1. byFollow'[w] = (byFollow[w] \/ status[w] = "none")
      BY <1>0, <1>4, <2>1, Zenon DEF EnsureWatch, OriginTyped
    <3>2. byFollow[w] \in BOOLEAN
      BY <1>0, <2>1 DEF OriginTyped
    <3>3. QED BY <3>1, <3>2
  <2>5. QED BY <1>0, <2>1, <2>2, <2>3, <2>4 DEF ByHandKept
<1>5. ASSUME NEW j \in Job, PauseWatches(j) PROVE ByHandKept'
  <2>1. UNCHANGED <<byHand, byFollow>>
    BY <1>5 DEF PauseWatches
  <2>2. ASSUME NEW s \in byHand PROVE status'[s] = status[s]
    <3>1. s \in Source /\ ~byFollow[s]
      BY <1>0, <2>2 DEF ByHandKept
    <3>2. QED BY <1>5, <3>1 DEF PauseWatches
  <2>3. QED BY <1>a, <2>1, <2>2
<1>6. ASSUME NEW j \in Job, MarkRefreshed(j) PROVE ByHandKept'
  <2>1. \A s \in Source : status'[s] \in {status[s], "active"}
    BY <1>0, <1>6 DEF MarkRefreshed, StatusTyped
  <2>2. UNCHANGED <<byHand, byFollow>>
    BY <1>6 DEF MarkRefreshed
  <2>3. QED BY <1>0, <1>a, <2>1, <2>2
<1>7. ASSUME NEW j \in Job, MarkError(j) PROVE ByHandKept'
  <2>1. \A s \in Source : status'[s] \in {status[s], "error"}
    BY <1>0, <1>7 DEF MarkError, StatusTyped
  <2>2. UNCHANGED <<byHand, byFollow>>
    BY <1>7 DEF MarkError
  <2>3. QED BY <1>0, <1>a, <2>1, <2>2
<1>8. ASSUME NEW j \in Job, \/ StartSync(j) \/ SyncFails(j) \/ Fetch(j) \/ Fails(j) \/ Abort(j)
      PROVE  ByHandKept'
  BY <1>1, <1>8 DEF StartSync, SyncFails, Fetch, Fails, Abort, rows
<1>9. ASSUME NEW j \in Job, NEW i \in Item, Store(j, i) PROVE ByHandKept'
  BY <1>1, <1>9 DEF Store
<1>10. CASE \/ PickDue \/ OwnerRefreshes \/ (\E f \in Feed : Publish(f))
            \/ (\E s \in Source : ComesDue(s)) \/ (\E w \in Watch : ChangeFollow(w))
            \/ UNCHANGED vars
  BY <1>1, <1>10, Zenon
     DEF PickDue, OwnerRefreshes, Publish, ComesDue, ChangeFollow, vars, rows
<1>11. QED
  BY <1>2, <1>3, <1>4, <1>5, <1>6, <1>7, <1>8, <1>9, <1>10, Zenon DEF Next, CronJob, Work, Job

\* A watch that the owner added by hand is never paused by the synchronisation,
\* whichever of the two came first and whatever is in flight: the upsert for a
\* follow leaves the policy of a row that is there alone, and the UPDATE that
\* pauses looks at the policy.
THEOREM HandWatchesStay == Spec => []HandWatchStays
<1> DEFINE HandInv == TypeOK /\ ByHandKept
<1>1. Init => HandInv
  <2>1. Init => ByHandKept
    BY DEF Init, ByHandKept, Active
  <2>2. QED BY <2>1, InitTyped
<1>2. HandInv /\ [Next]_vars => HandInv'
  BY TypeStep, ByHandStep
<1>3. HandInv => HandWatchStays
  BY DEF ByHandKept, HandWatchStays
<1>4. QED BY <1>1, <1>2, <1>3, PTL DEF Spec

-----------------------------------------------------------------------------
(* ETags.                                                                  *)

\* What the jobs know of the feeds that were not deleted under a refresh: the
\* items that an ETag stands for are stored, or still to be stored by the job that
\* has it from the feed.  So for the ETags in the rows that a batch has read, and
\* for that of the document at hand.
CarriedBy(j) ==
  /\ \A n \in 1..Len(batch[j]) :
       batch[j][n].id \in Feed \ renewed =>
         Items(batch[j][n].etag) \subseteq stored[batch[j][n].id]
  /\ at[j] = "store" /\ Here(j).id \in Feed \ renewed =>
       Items(doc[j].etag) \subseteq stored[Here(j).id] \cup doc[j].todo
Carried == \A j \in Job : CarriedBy(j)

\* No items are those of no version.
LEMMA NoItems == Items(0) = {}
<1>1. \A i \in Item : ~ (i <= 0)
  BY SourcesAssumption DEF Item
<1>2. QED BY <1>1 DEF Items

\* No step but a deletion takes items away, and a deleted source of which the
\* properties speak was in no batch.
Keeps ==
  /\ renewed \subseteq renewed'
  /\ \A s \in Feed \ renewed' :
       \/ stored[s] \subseteq stored'[s]
       \/ \A j \in Job : \A n \in 1..Len(batch[j]) : batch[j][n].id # s

\* A job that a step leaves alone still knows what it knew.
LEMMA LeftAlone ==
  ASSUME AllTyped, Carried, Keeps, NEW j \in Job,
         batch'[j] = batch[j], doc'[j] = doc[j], at'[j] = "store" => at[j] = "store"
  PROVE  CarriedBy(j)'
<1>1. CarriedBy(j)
  BY DEF Carried
<1>2. ASSUME NEW n \in 1..Len(batch[j]), batch[j][n].id \in Feed \ renewed'
      PROVE  stored[batch[j][n].id] \subseteq stored'[batch[j][n].id]
             /\ batch[j][n].id \in Feed \ renewed
  BY <1>2 DEF Keeps
<1>3. ASSUME NEW n \in 1..Len(batch[j]), batch[j][n].id \in Feed \ renewed'
      PROVE  Items(batch[j][n].etag) \subseteq stored'[batch[j][n].id]
  BY <1>1, <1>2, <1>3 DEF CarriedBy
<1>4. ASSUME at[j] = "store", Here(j).id \in Feed \ renewed'
      PROVE  Items(doc[j].etag) \subseteq stored'[Here(j).id] \cup doc[j].todo
  <2>1. Here(j) = batch[j][1] /\ 1 \in 1..Len(batch[j])
    BY <1>4, HasRow
  <2>2. stored[Here(j).id] \subseteq stored'[Here(j).id] /\ Here(j).id \in Feed \ renewed
    BY <1>2, <1>4, <2>1
  <2>3. QED BY <1>1, <1>4, <2>2 DEF CarriedBy
<1>5. Head(batch'[j]) = Here(j)
  BY DEF Here
<1>6. CarriedBy(j)' <=>
        /\ \A n \in 1..Len(batch'[j]) :
             batch'[j][n].id \in Feed \ renewed' =>
               Items(batch'[j][n].etag) \subseteq stored'[batch'[j][n].id]
        /\ at'[j] = "store" /\ Head(batch'[j]).id \in Feed \ renewed' =>
             Items(doc'[j].etag) \subseteq stored'[Head(batch'[j]).id] \cup doc'[j].todo
  BY DEF CarriedBy, Here, Items
<1>7. QED BY <1>3, <1>4, <1>5, <1>6

\* A job that goes on to rows it had, or that it reads now, knows no less.
LEMMA GoesOn ==
  ASSUME AllTyped, Carried, EtagMeansStored, Keeps, UNCHANGED <<stored, renewed>>,
         NEW j \in Job, at'[j] # "store",
         \A n \in 1..Len(batch'[j]) :
           \/ \E i \in 1..Len(batch[j]) : batch'[j][n] = batch[j][i]
           \/ \E s \in Source : batch'[j][n] = Row(s)
  PROVE  CarriedBy(j)'
<1>1. CarriedBy(j)
  BY DEF Carried
<1>2. ASSUME NEW n \in 1..Len(batch'[j]), batch'[j][n].id \in Feed \ renewed'
      PROVE  Items(batch'[j][n].etag) \subseteq stored'[batch'[j][n].id]
  <2>1. CASE \E i \in 1..Len(batch[j]) : batch'[j][n] = batch[j][i]
    BY <1>1, <1>2, <2>1 DEF CarriedBy
  <2>2. CASE \E s \in Source : batch'[j][n] = Row(s)
    <3>1. PICK s \in Source : batch'[j][n] = Row(s)
      BY <2>2
    <3>2. batch'[j][n].id = s /\ batch'[j][n].etag = etag[s]
      BY <3>1 DEF Row
    <3>3. s \in Feed /\ s \notin renewed
      BY <1>2, <3>2
    <3>4. QED BY <3>2, <3>3 DEF EtagMeansStored
  <2>3. QED BY <2>1, <2>2
<1>3. QED BY <1>2 DEF CarriedBy, Items

\* So after every step.
LEMMA EtagStep ==
  ASSUME TypeOK, EtagMeansStored, Carried, [Next]_vars
  PROVE  EtagMeansStored' /\ Carried'
<1>0. AllTyped /\ EtagTyped /\ StoredTyped /\ AtTyped /\ BatchTyped /\ DocTyped
  BY TypeParts, Zenon DEF AllTyped, RowsTyped, JobsTyped
<1>a. UNCHANGED <<stored, renewed>> => Keeps
  BY DEF Keeps
<1>b. UNCHANGED <<etag, stored, renewed>> => EtagMeansStored'
  BY DEF EtagMeansStored, Items
<1>c. ASSUME UNCHANGED <<etag, stored, renewed, batch, doc>>,
             \A j \in Job : at'[j] = "store" => at[j] = "store"
      PROVE  EtagMeansStored' /\ Carried'
  <2>1. \A j \in Job : CarriedBy(j)'
    BY <1>0, <1>a, <1>c, LeftAlone
  <2>2. QED BY <1>b, <1>c, <2>1 DEF Carried
\* Job j moves, and the others are left alone.
<1>d. ASSUME Keeps, NEW j \in Job, CarriedBy(j)',
             \A i \in Job \ {j} : batch'[i] = batch[i] /\ doc'[i] = doc[i] /\ at'[i] = at[i]
      PROVE  Carried'
  <2>1. \A i \in Job \ {j} : CarriedBy(i)'
    BY <1>0, <1>d, LeftAlone
  <2>2. QED BY <1>d, <2>1 DEF Carried
<1>1. CASE \/ \E f \in Feed : Publish(f)
           \/ \E s \in Source : ComesDue(s) \/ OwnerAdds(s)
           \/ \E w \in Watch : ChangeFollow(w)
           \/ \E j \in Job : \E w \in Watch : EnsureWatch(j, w)
           \/ UNCHANGED vars
  <2>1. UNCHANGED <<etag, stored, renewed, batch, doc, at>>
    BY <1>1, Zenon DEF Publish, ComesDue, OwnerAdds, ChangeFollow, EnsureWatch, vars, rows, jobs
  <2>2. QED BY <1>c, <2>1
<1>2. ASSUME NEW j \in Job, \/ StartSync(j) \/ PauseWatches(j) \/ SyncFails(j) \/ Fails(j)
      PROVE  EtagMeansStored' /\ Carried'
  <2>1. UNCHANGED <<etag, stored, renewed, batch, doc>>
    BY <1>2, Zenon DEF StartSync, PauseWatches, SyncFails, Fails, rows
  <2>2. \E a \in {"sync", "pick", "idle", "error"} : at' = [at EXCEPT ![j] = a]
    BY <1>2 DEF StartSync, PauseWatches, SyncFails, Fails, Go, AfterSync
  <2>3. \A i \in Job : at'[i] = "store" => at[i] = "store"
    BY <1>0, <2>2 DEF AtTyped
  <2>4. QED BY <1>c, <2>1, <2>3
<1>3. ASSUME NEW s \in Source, OwnerDeletes(s) PROVE EtagMeansStored' /\ Carried'
  <2>1. /\ etag' = [etag EXCEPT ![s] = 0] /\ stored' = [stored EXCEPT ![s] = {}]
        /\ renewed' = IF InBatch(s) THEN renewed \cup {s} ELSE renewed
        /\ UNCHANGED <<batch, doc, at>>
    BY <1>3 DEF OwnerDeletes, jobs
  <2>2. /\ etag'[s] = 0
        /\ \A t \in Source \ {s} : etag'[t] = etag[t] /\ stored'[t] = stored[t]
    BY <1>0, <2>1 DEF EtagTyped, StoredTyped
  <2>3. EtagMeansStored'
    <3>1. ASSUME NEW f \in Feed, f \notin renewed' PROVE Items(etag'[f]) \subseteq stored'[f]
      <4>1. f \in Source /\ f \notin renewed
        BY <2>1, <3>1 DEF Source
      <4>2. CASE f = s
        BY <2>2, <4>2, NoItems
      <4>3. CASE f # s
        BY <2>2, <4>1, <4>3 DEF EtagMeansStored
      <4>4. QED BY <4>2, <4>3
    <3>2. QED BY <3>1 DEF EtagMeansStored, Items
  <2>4. Keeps
    <3>1. renewed \subseteq renewed'
      BY <2>1
    <3>2. ASSUME s \notin renewed'
          PROVE  \A j \in Job : \A n \in 1..Len(batch[j]) : batch[j][n].id # s
      <4>1. ~InBatch(s)
        BY <2>1, <3>2
      <4>2. \A j \in Job : DOMAIN batch[j] = 1..Len(batch[j])
        BY <1>0, LenProperties DEF BatchTyped
      <4>3. QED BY <4>1, <4>2 DEF InBatch
    <3>3. ASSUME NEW f \in Feed \ renewed', f # s PROVE stored[f] \subseteq stored'[f]
      BY <2>2, <3>3 DEF Source
    <3>4. QED BY <3>1, <3>2, <3>3 DEF Keeps
  <2>5. \A j \in Job : CarriedBy(j)'
    BY <1>0, <2>1, <2>4, LeftAlone
  <2>6. QED BY <2>3, <2>5 DEF Carried
\* A batch begins with the rows as they are.
<1>e. ASSUME NEW j \in Job, NEW list \in Seq(Rows), Begin(j, list),
             \A n \in 1..Len(list) : \E s \in Source : list[n] = Row(s),
             UNCHANGED <<etag, stored, renewed, doc>>
      PROVE  EtagMeansStored' /\ Carried'
  <2>1. /\ batch'[j] = list /\ at'[j] \in {"idle", "fetch"}
        /\ \A i \in Job \ {j} : batch'[i] = batch[i] /\ at'[i] = at[i]
    BY <1>0, <1>e, Begins
  <2>2. at'[j] # "store"
    BY <2>1
  <2>3. \A n \in 1..Len(batch'[j]) : \E s \in Source : batch'[j][n] = Row(s)
    BY <1>e, <2>1
  <2>4. Keeps /\ EtagMeansStored'
    BY <1>a, <1>b, <1>e
  <2>5. CarriedBy(j)'
    BY <1>0, <1>e, <2>2, <2>3, <2>4, GoesOn
  <2>6. \A i \in Job \ {j} : doc'[i] = doc[i]
    BY <1>e
  <2>7. QED BY <1>d, <2>1, <2>4, <2>5, <2>6
<1>4. CASE PickDue
  <2>1. PICK q \in InOrder({s \in Source : Active(s)}) : Begin("cron", FirstOf(q))
    BY <1>4 DEF PickDue
  <2>2. q \in Seq(Source)
    BY Lists
  <2>3. /\ FirstOf(q) \in Seq(Rows)
        /\ \A n \in 1..Len(FirstOf(q)) : \E s \in Source : FirstOf(q)[n] = Row(s)
    BY <1>0, <2>2, Takes
  <2>4. UNCHANGED <<etag, stored, renewed, doc>>
    BY <1>4, Zenon DEF PickDue, rows
  <2>5. "cron" \in Job
    BY DEF Job
  <2>6. QED BY <1>e, <2>1, <2>3, <2>4, <2>5
<1>5. CASE OwnerRefreshes
  <2>1. PICK list \in Seq(Rows) :
          Begin("owner", list) /\ \A n \in 1..Len(list) : \E s \in Source : list[n] = Row(s)
    BY <1>0, <1>5, OwnersLists
  <2>2. UNCHANGED <<etag, stored, renewed, doc>>
    BY <1>5, Zenon DEF OwnerRefreshes, rows
  <2>3. "owner" \in Job
    BY DEF Job
  <2>4. QED BY <1>e, <2>1, <2>2, <2>3
<1>6. ASSUME NEW j \in Job, Fetch(j) PROVE EtagMeansStored' /\ Carried'
  <2>1. /\ UNCHANGED <<etag, stored, renewed, batch>> /\ at[j] = "fetch"
        /\ at' = [at EXCEPT ![j] = "store"]
        /\ doc' = doc \/ \E d \in DocType : doc' = [doc EXCEPT ![j] = d]
    <3>1. /\ UNCHANGED <<etag, stored, renewed, batch>> /\ at[j] = "fetch"
          /\ at' = [at EXCEPT ![j] = "store"]
      BY <1>6 DEF Fetch, rows, Go
    <3>2. Here(j).etag \in Version
      BY <1>0, <3>1, HasRow
    <3>3. \A s \in Feed : current[s] \in Version
      BY <1>0 DEF AllTyped, WorldTyped
    <3>4. \A v : Items(v) \subseteq Item
      BY DEF Items
    <3>5. \/ UNCHANGED doc
          \/ \E d \in DocType : doc' = [doc EXCEPT ![j] = d]
      BY <1>6, <3>2, <3>3, <3>4 DEF Fetch, DocType
    <3>6. QED BY <3>1, <3>5
  <2>2. Here(j) = batch[j][1] /\ 1 \in 1..Len(batch[j])
    BY <1>0, <2>1, HasRow
  <2>3. CarriedBy(j)
    BY DEF Carried
  <2>4. ASSUME Here(j).id \in Feed \ renewed
        PROVE  Items(doc'[j].etag) \subseteq stored[Here(j).id] \cup doc'[j].todo
    <3>1. Items(Here(j).etag) \subseteq stored[Here(j).id]
      BY <2>2, <2>3, <2>4 DEF CarriedBy
    <3>2. Here(j).id \notin Watch
      BY <2>4, SourcesAssumption
    <3>3. \E e : /\ e \in {Here(j).etag, current[Here(j).id]}
                 /\ \/ doc' = [doc EXCEPT ![j] = [etag |-> Here(j).etag, todo |-> {}]]
                    \/ doc' = [doc EXCEPT ![j] = [etag |-> e,
                                                  todo |-> Items(current[Here(j).id])]]
      BY <1>6, <3>2 DEF Fetch
    <3>4. PICK e \in {Here(j).etag, current[Here(j).id]} :
            \/ doc'[j] = [etag |-> Here(j).etag, todo |-> {}]
            \/ doc'[j] = [etag |-> e, todo |-> Items(current[Here(j).id])]
      BY <1>0, <3>3 DEF DocTyped
    <3>5. QED BY <3>1, <3>4
  <2>5. CarriedBy(j)'
    BY <2>1, <2>3, <2>4 DEF CarriedBy, Here, Items
  <2>6. \A i \in Job \ {j} : batch'[i] = batch[i] /\ doc'[i] = doc[i] /\ at'[i] = at[i]
    BY <1>0, <2>1 DEF AtTyped, DocTyped
  <2>7. QED BY <1>a, <1>b, <1>d, <2>1, <2>5, <2>6
<1>7. ASSUME NEW j \in Job, NEW i \in Item, Store(j, i) PROVE EtagMeansStored' /\ Carried'
  <2> DEFINE s == Here(j).id
  <2>1. s \in Source /\ at[j] = "store"
    BY <1>0, <1>7, HasRow DEF Store
  <2>2. /\ stored' = [stored EXCEPT ![s] = stored[s] \cup {i}]
        /\ doc' = [doc EXCEPT ![j] = [doc[j] EXCEPT !.todo = doc[j].todo \ {i}]]
        /\ UNCHANGED <<etag, at, batch, renewed>>
    BY <1>0, <1>7, <2>1 DEF Store, StoredTyped, DocTyped
  <2>3. doc[j] \in DocType
    BY <1>0 DEF DocTyped
  <2>4. /\ doc'[j].etag = doc[j].etag /\ doc'[j].todo = doc[j].todo \ {i}
        /\ \A k \in Job \ {j} : doc'[k] = doc[k]
    BY <1>0, <2>2, <2>3 DEF DocTyped, DocType
  <2>5. stored'[s] = stored[s] \cup {i} /\ \A t \in Source : stored[t] \subseteq stored'[t]
    BY <1>0, <2>1, <2>2 DEF StoredTyped
  <2>6. Keeps
    BY <2>2, <2>5 DEF Keeps, Source
  <2>7. EtagMeansStored'
    <3>1. \A f \in Feed : f \notin renewed => Items(etag[f]) \subseteq stored'[f]
      BY <2>5 DEF EtagMeansStored, Source
    <3>2. QED BY <2>2, <3>1 DEF EtagMeansStored, Items
  <2>8. CarriedBy(j)'
    <3>1. CarriedBy(j)
      BY DEF Carried
    <3>2. \A n \in 1..Len(batch[j]) : batch[j][n].id \in Feed => batch[j][n].id \in Source
      BY DEF Source
    <3>3. \A n \in 1..Len(batch[j]) : batch[j][n].id \in Feed \ renewed =>
            Items(batch[j][n].etag) \subseteq stored'[batch[j][n].id]
      BY <2>5, <3>1, <3>2 DEF CarriedBy
    <3>4. s \in Feed \ renewed => Items(doc'[j].etag) \subseteq stored'[s] \cup doc'[j].todo
      BY <2>1, <2>4, <2>5, <3>1 DEF CarriedBy
    <3>5. QED BY <2>2, <3>3, <3>4 DEF CarriedBy, Here, Items
  <2>9. QED BY <1>d, <2>2, <2>4, <2>6, <2>7, <2>8
\* Job j is done with a row.
<1>f. ASSUME NEW j \in Job, at[j] \in {"fetch", "store", "error"}, Advance(j),
             UNCHANGED <<stored, renewed>>
      PROVE  Carried'
  <2>1. /\ at'[j] \in {"idle", "fetch"}
        /\ \A n \in 1..Len(batch'[j]) :
             \E i \in 1..Len(batch[j]) : batch'[j][n] = batch[j][i]
        /\ \A i \in Job \ {j} : batch'[i] = batch[i] /\ at'[i] = at[i] /\ doc'[i] = doc[i]
    BY <1>0, <1>f, Advances
  <2>2. at'[j] # "store"
    BY <2>1
  <2>3. CarriedBy(j)'
    BY <1>0, <1>a, <1>f, <2>1, <2>2, GoesOn
  <2>4. QED BY <1>a, <1>d, <1>f, <2>1, <2>3
<1>8. ASSUME NEW j \in Job, MarkRefreshed(j) PROVE EtagMeansStored' /\ Carried'
  <2> DEFINE s == Here(j).id
             e == doc[j].etag
  <2>1. /\ at[j] = "store" /\ doc[j].todo = {} /\ Advance(j)
        /\ UNCHANGED <<stored, renewed>>
    BY <1>8 DEF MarkRefreshed
  <2>2. s \in Source
    BY <1>0, <2>1, HasRow
  <2>3. /\ \A t \in Source \ {s} : etag'[t] = etag[t]
        /\ etag'[s] = etag[s] \/ etag'[s] = e
    BY <1>0, <1>8, <2>2 DEF MarkRefreshed, EtagTyped
  <2>4. s \in Feed \ renewed => Items(e) \subseteq stored[s]
    BY <2>1 DEF Carried, CarriedBy
  <2>5. \A f \in Feed : f \notin renewed => Items(etag'[f]) \subseteq stored[f]
    <3>1. ASSUME NEW f \in Feed, f \notin renewed PROVE Items(etag'[f]) \subseteq stored[f]
      <4>1. f \in Source /\ Items(etag[f]) \subseteq stored[f]
        BY <3>1 DEF Source, EtagMeansStored
      <4>2. CASE f = s
        BY <2>3, <2>4, <3>1, <4>1, <4>2
      <4>3. CASE f # s
        BY <2>3, <4>1, <4>3
      <4>4. QED BY <4>2, <4>3
    <3>2. QED BY <3>1
  <2>6. EtagMeansStored'
    BY <2>1, <2>5 DEF EtagMeansStored, Items
  <2>7. QED BY <1>f, <2>1, <2>6
<1>9. ASSUME NEW j \in Job, MarkError(j) PROVE EtagMeansStored' /\ Carried'
  <2>1. /\ at[j] = "error" /\ Advance(j)
        /\ UNCHANGED <<etag, stored, renewed>>
    BY <1>9 DEF MarkError
  <2>2. QED BY <1>b, <1>f, <2>1
<1>10. ASSUME NEW j \in Job, Abort(j) PROVE EtagMeansStored' /\ Carried'
  <2>1. /\ at' = [at EXCEPT ![j] = "idle"] /\ batch' = [batch EXCEPT ![j] = <<>>]
        /\ doc' = [doc EXCEPT ![j] = NoDoc] /\ UNCHANGED <<etag, stored, renewed>>
    BY <1>10 DEF Abort, rows
  <2>2. /\ at'[j] = "idle" /\ batch'[j] = <<>>
        /\ \A i \in Job \ {j} : batch'[i] = batch[i] /\ at'[i] = at[i] /\ doc'[i] = doc[i]
    BY <1>0, <2>1 DEF AtTyped, BatchTyped, DocTyped
  <2>3. at'[j] # "store" /\ 1..Len(batch'[j]) = {}
    BY <2>2
  <2>4. CarriedBy(j)'
    BY <1>0, <1>a, <2>1, <2>3, GoesOn
  <2>5. QED BY <1>a, <1>b, <1>d, <2>1, <2>2, <2>4
<1>11. QED
  BY <1>1, <1>2, <1>3, <1>4, <1>5, <1>6, <1>7, <1>8, <1>9, <1>10, Zenon
     DEF Next, CronJob, Work, Job

\* A stored ETag stands for items that are stored, however batches overlap,
\* inserts fail and runs end: a refresh writes the ETag last, and every ETag it
\* may write is one whose items it has stored or found stored.
THEOREM EtagsHideNothing == Spec => []EtagMeansStored
<1> DEFINE EtagInv == TypeOK /\ EtagMeansStored /\ Carried
<1>1. Init => EtagInv
  <2>1. Init => EtagMeansStored
    BY NoItems DEF Init, EtagMeansStored, Source
  <2>2. Init => Carried
    <3>1. Len(<<>>) = 0 /\ 1..0 = {}
      OBVIOUS
    <3>2. QED BY <3>1 DEF Init, Carried, CarriedBy
  <2>3. QED BY <2>1, <2>2, InitTyped
<1>2. EtagInv /\ [Next]_vars => EtagInv'
  BY TypeStep, EtagStep
<1>3. QED BY <1>1, <1>2, PTL DEF Spec


=============================================================================
