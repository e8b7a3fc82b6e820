----------------------------- MODULE RepoProofs -----------------------------
(***************************************************************************)
(* What is proved of the repository, for any number of keys and any size   *)
(* of a page: the types, that each record is in a snapshot once, what the  *)
(* revision says, and that it goes forward.                                *)
(***************************************************************************)
EXTENDS Repo, FiniteSetTheorems, SequenceTheorems, WellFoundedInduction, TLAPS

-----------------------------------------------------------------------------
(* Pages.                                                                  *)

TableType == [Key -> Row]
Before(table, k) == {i \in Keys(table) : Newer(table, i, k)}

\* A table has finitely many rows.
LEMMA KeysAreFinite ==
  ASSUME NEW table
  PROVE  /\ IsFiniteSet(Keys(table)) /\ Cardinality(Keys(table)) \in Nat
         /\ \A S \in SUBSET Keys(table) : /\ IsFiniteSet(S) /\ Cardinality(S) \in Nat
                                          /\ Cardinality(S) <= Cardinality(Keys(table))
<1>1. IsFiniteSet(Keys(table))
  <2>1. Keys(table) \in SUBSET Key
    BY DEF Keys
  <2>2. QED BY <2>1, RepoAssumption, FS_Subset
<1>2. ASSUME NEW S \in SUBSET Keys(table)
      PROVE  IsFiniteSet(S) /\ Cardinality(S) \in Nat /\ Cardinality(S) <= Cardinality(Keys(table))
  BY <1>1, FS_Subset, FS_CardinalityType
<1>3. QED BY <1>1, <1>2, FS_CardinalityType

\* A row of the table has a place in it.
LEMMA PlaceInTable ==
  ASSUME NEW table \in TableType, NEW k \in Keys(table)
  PROVE  Place(table, k) \in 0 .. Cardinality(Keys(table)) - 1
<1>1. Before(table, k) \in SUBSET Keys(table) /\ Place(table, k) = Cardinality(Before(table, k))
  BY DEF Before, Place
<1>2. k \notin Before(table, k)
  <2>1. k \in Nat /\ table[k].at \in Nat
    BY RepoAssumption DEF Keys, TableType, Row
  <2>2. QED BY <2>1 DEF Before, Newer
<1>3. Cardinality(Before(table, k)) # Cardinality(Keys(table))
  BY <1>1, <1>2, KeysAreFinite, FS_Subset
<1>4. QED BY <1>1, <1>3, KeysAreFinite

\* Two rows have two places, the newer one the first.
LEMMA PlacesDiffer ==
  ASSUME NEW table \in TableType, NEW i \in Keys(table), NEW j \in Keys(table), i # j
  PROVE  Place(table, i) # Place(table, j)
<1>0. i \in Nat /\ j \in Nat /\ \A k \in Keys(table) : k \in Nat /\ table[k].at \in Nat
  BY RepoAssumption DEF Keys, TableType, Row
<1>1. ASSUME NEW m \in Keys(table), NEW n \in Keys(table), Newer(table, m, n)
      PROVE  Place(table, m) < Place(table, n)
  <2>1. Before(table, m) \in SUBSET Before(table, n)
    <3>1. ASSUME NEW k \in Keys(table), Newer(table, k, m) PROVE Newer(table, k, n)
      <4>1. /\ k \in Nat /\ m \in Nat /\ n \in Nat
            /\ table[k].at \in Nat /\ table[m].at \in Nat /\ table[n].at \in Nat
        BY <1>0
      <4>2. QED BY ONLY <1>1, <3>1, <4>1 DEF Newer
    <3>2. QED BY <3>1 DEF Before
  <2>2. m \in Before(table, n) /\ m \notin Before(table, m)
    BY <1>0, <1>1 DEF Before, Newer
  <2>3. Before(table, n) \in SUBSET Keys(table)
    BY DEF Before
  <2>4. Cardinality(Before(table, m)) <= Cardinality(Before(table, n))
        /\ Cardinality(Before(table, m)) # Cardinality(Before(table, n))
    BY <2>1, <2>2, <2>3, KeysAreFinite, FS_Subset
  <2>5. Cardinality(Before(table, m)) \in Nat /\ Cardinality(Before(table, n)) \in Nat
    BY <2>1, <2>3, KeysAreFinite
  <2>6. QED BY <2>4, <2>5 DEF Place, Before
<1>2. Newer(table, i, j) \/ Newer(table, j, i)
  BY <1>0 DEF Newer
<1>3. Place(table, i) \in Nat /\ Place(table, j) \in Nat
  BY PlaceInTable
<1>4. QED BY <1>1, <1>2, <1>3

\* Every place up to the number of rows is somebody's.
LEMMA PlacesAreTaken ==
  ASSUME NEW table \in TableType, NEW n \in 0 .. Cardinality(Keys(table)) - 1
  PROVE  \E k \in Keys(table) : Place(table, k) = n
<1> DEFINE S == Keys(table)
           T == 0 .. Cardinality(S) - 1
           f == [k \in S |-> Place(table, k)]
<1>1. f \in Injection(S, T)
  BY PlaceInTable, PlacesDiffer DEF Injection, IsInjective
<1>2. IsFiniteSet(T) /\ Cardinality(T) = Cardinality(S)
  BY KeysAreFinite, FS_Interval
<1>3. f \in Surjection(S, T)
  <2> HIDE DEF f, S, T
  <2>1. QED BY <1>1, <1>2, FS_Injection
<1>4. QED BY <1>3 DEF Surjection

\* What the ordered table has at each index.
LEMMA InOrderHas ==
  ASSUME NEW table \in TableType
  PROVE  /\ InOrder(table) \in Seq(Keys(table))
         /\ Len(InOrder(table)) = Cardinality(Keys(table))
         /\ \A n \in 1 .. Cardinality(Keys(table)) :
              InOrder(table)[n] \in Keys(table) /\ Place(table, InOrder(table)[n]) = n - 1
         /\ \A k \in Keys(table) : InOrder(table)[Place(table, k) + 1] = k
<1>1. Cardinality(Keys(table)) \in Nat
  BY KeysAreFinite
<1>2. ASSUME NEW n \in 1 .. Cardinality(Keys(table))
      PROVE  InOrder(table)[n] \in Keys(table) /\ Place(table, InOrder(table)[n]) = n - 1
  <2>1. n - 1 \in 0 .. Cardinality(Keys(table)) - 1
    BY <1>1
  <2>2. \E k \in Keys(table) : Place(table, k) = n - 1
    BY <2>1, PlacesAreTaken
  <2>3. InOrder(table)[n] = CHOOSE k \in Keys(table) : Place(table, k) = n - 1
    BY DEF InOrder
  <2>4. QED BY <2>2, <2>3
<1>3. InOrder(table) \in Seq(Keys(table)) /\ Len(InOrder(table)) = Cardinality(Keys(table))
  <2>1. InOrder(table) = [n \in 1 .. Cardinality(Keys(table)) |-> InOrder(table)[n]]
    BY DEF InOrder
  <2>2. QED BY <1>1, <1>2, <2>1, IsASeq, LenProperties
<1>4. ASSUME NEW k \in Keys(table) PROVE InOrder(table)[Place(table, k) + 1] = k
  <2>1. Place(table, k) + 1 \in 1 .. Cardinality(Keys(table))
    BY <1>1, PlaceInTable
  <2>2. Place(table, k) \in Nat
    BY PlaceInTable
  <2>3. QED BY <1>2, <2>1, <2>2, PlacesDiffer
<1>5. QED BY <1>2, <1>3, <1>4

\* The least of two.
LEMMA MinOfTwo ==
  ASSUME NEW a \in Int, NEW b \in Int
  PROVE  Min({a, b}) = IF a <= b THEN a ELSE b
<1>1. \E x \in {a, b} : \A y \in {a, b} : x <= y
  OBVIOUS
<1>2. PICK x \in {a, b} : x = Min({a, b}) /\ \A y \in {a, b} : x <= y
  BY <1>1 DEF Min
<1>3. QED BY <1>2

\* LIMIT and OFFSET.
LEMMA SliceHas ==
  ASSUME NEW S, NEW s \in Seq(S), NEW from \in Nat, NEW count \in Nat
  PROVE  /\ Slice(s, from, count) \in Seq(S)
         /\ Len(Slice(s, from, count)) =
              IF from + count <= Len(s) THEN count
              ELSE IF from <= Len(s) THEN Len(s) - from ELSE 0
         /\ \A i \in 1 .. Len(Slice(s, from, count)) : Slice(s, from, count)[i] = s[from + i]
<1> DEFINE m == Min({from + count, Len(s)})
<1>1. Len(s) \in Nat
  BY LenProperties
<1>2. m = IF from + count <= Len(s) THEN from + count ELSE Len(s)
  BY <1>1, MinOfTwo
<1> HIDE DEF m
<1>3. m \in Nat /\ m <= Len(s)
  BY <1>1, <1>2
<1>4. /\ SubSeq(s, from + 1, m) \in Seq(S)
      /\ Len(SubSeq(s, from + 1, m)) = IF from + 1 <= m THEN m - (from + 1) + 1 ELSE 0
      /\ \A i \in 1 .. m - (from + 1) + 1 : SubSeq(s, from + 1, m)[i] = s[from + 1 + i - 1]
  BY <1>1, <1>3, SubSeqProperties
<1>5. Slice(s, from, count) = SubSeq(s, from + 1, m)
  BY DEF Slice, m
<1>6. QED BY <1>1, <1>2, <1>3, <1>4, <1>5

\* What a page takes: the rows in the next PageLimit places; and when it is the
\* last one, nobody's place is after it.
LEMMA PageHas ==
  ASSUME NEW table \in TableType, NEW from \in Nat
  PROVE  LET page == Slice(InOrder(table), from, PageLimit + 1)
             taken == Slice(page, 0, PageLimit)
         IN  /\ taken \in Seq(Keys(table))
             /\ \A i \in 1 .. Len(taken) :
                  Place(table, taken[i]) = from + i - 1 /\ i <= PageLimit
             /\ \A k \in Keys(table) :
                  from <= Place(table, k) /\ Place(table, k) < from + PageLimit =>
                    \E i \in 1 .. Len(taken) : taken[i] = k
             /\ Len(page) <= PageLimit =>
                  \A k \in Keys(table) : Place(table, k) < from + PageLimit
<1> DEFINE all == InOrder(table)
           page == Slice(all, from, PageLimit + 1)
           taken == Slice(page, 0, PageLimit)
           N == Cardinality(Keys(table))
<1>1. PageLimit \in Nat /\ PageLimit > 0 /\ N \in Nat
  BY RepoAssumption, KeysAreFinite
<1>2. /\ all \in Seq(Keys(table)) /\ Len(all) = N
      /\ \A n \in 1 .. N : all[n] \in Keys(table) /\ Place(table, all[n]) = n - 1
      /\ \A k \in Keys(table) : all[Place(table, k) + 1] = k
  BY InOrderHas
<1>3. \A k \in Keys(table) : Place(table, k) \in Nat /\ Place(table, k) < N
  BY PlaceInTable, <1>1
<1> HIDE DEF all, N
<1>4. /\ page \in Seq(Keys(table))
      /\ Len(page) = IF from + (PageLimit + 1) <= N THEN PageLimit + 1
                     ELSE IF from <= N THEN N - from ELSE 0
      /\ \A i \in 1 .. Len(page) : page[i] = all[from + i]
  <2>1. all \in Seq(Keys(table)) /\ from \in Nat /\ PageLimit + 1 \in Nat
    BY <1>1, <1>2
  <2>2. /\ page \in Seq(Keys(table))
        /\ Len(page) = IF from + (PageLimit + 1) <= Len(all) THEN PageLimit + 1
                       ELSE IF from <= Len(all) THEN Len(all) - from ELSE 0
        /\ \A i \in 1 .. Len(page) : page[i] = all[from + i]
    BY ONLY <2>1, SliceHas
  <2> HIDE DEF page
  <2>3. QED BY <1>2, <2>2
<1> HIDE DEF page
<1>5. Len(page) \in Nat
  BY <1>4, LenProperties
<1>6. /\ taken \in Seq(Keys(table))
      /\ Len(taken) = IF PageLimit <= Len(page) THEN PageLimit ELSE Len(page)
      /\ \A i \in 1 .. Len(taken) : taken[i] = page[i]
  <2>1. /\ taken \in Seq(Keys(table))
        /\ Len(taken) = IF 0 + PageLimit <= Len(page) THEN PageLimit
                        ELSE IF 0 <= Len(page) THEN Len(page) - 0 ELSE 0
        /\ \A i \in 1 .. Len(taken) : taken[i] = page[0 + i]
    <3>1. page \in Seq(Keys(table)) /\ 0 \in Nat /\ PageLimit \in Nat
      BY <1>1, <1>4
    <3>2. QED BY ONLY <3>1, SliceHas
  <2> HIDE DEF taken
  <2>2. QED BY <1>1, <1>5, <2>1
<1> HIDE DEF taken
<1>7. /\ Len(taken) \in Nat /\ Len(taken) <= PageLimit
      /\ from + Len(taken) <= N \/ Len(taken) = 0
  BY <1>1, <1>4, <1>5, <1>6
<1>8. ASSUME NEW i \in 1 .. Len(taken)
      PROVE  Place(table, taken[i]) = from + i - 1 /\ i <= PageLimit
  <2>1. i \in 1 .. Len(page) /\ from + i \in 1 .. N
    BY <1>1, <1>4, <1>5, <1>6
  <2>2. taken[i] = all[from + i]
    BY <1>4, <1>6, <2>1
  <2>3. QED BY <1>1, <1>2, <1>7, <2>1, <2>2
<1>9. ASSUME NEW k \in Keys(table), from <= Place(table, k), Place(table, k) < from + PageLimit
      PROVE  \E i \in 1 .. Len(taken) : taken[i] = k
  <2> DEFINE i == Place(table, k) + 1 - from
  <2>1. i \in 1 .. Len(taken) /\ i \in 1 .. Len(page) /\ from + i = Place(table, k) + 1
    <3>1. /\ Place(table, k) \in Nat /\ Place(table, k) < N
          /\ from <= Place(table, k) /\ Place(table, k) < from + PageLimit
      BY <1>3, <1>9
    <3>2. QED BY <1>1, <1>4, <1>5, <1>6, <3>1
  <2>2. taken[i] = k
    BY <1>2, <1>4, <1>6, <2>1
  <2>3. QED BY <2>1, <2>2
<1>10. ASSUME Len(page) <= PageLimit, NEW k \in Keys(table)
       PROVE  Place(table, k) < from + PageLimit
  BY <1>1, <1>3, <1>4, <1>10
<1>11. QED BY <1>6, <1>8, <1>9, <1>10 DEF page, taken, all

-----------------------------------------------------------------------------
(* Dates.                                                                  *)

\* A nonempty set of numbers has a least one.
LEMMA LeastExists ==
  ASSUME NEW S \in SUBSET Nat, S # {}
  PROVE  \E m \in S : \A k \in S : m <= k
<1>1. PICK m \in S : \A k \in S : ~ (<<k, m>> \in OpToRel(<, Nat))
  BY NatLessThanWellFounded, WFMin
<1>2. \A k \in S : ~ (k < m)
  BY <1>1 DEF OpToRel
<1>3. QED BY <1>2

\* The newest of a set of dates that has a bound.
LEMMA NewestExists ==
  ASSUME NEW S \in SUBSET Nat, S # {}, NEW bound \in Nat, \A s \in S : s <= bound
  PROVE  Max(S) \in S /\ \A s \in S : s <= Max(S)
<1> DEFINE B == {b \in Nat : \A s \in S : s <= b}
<1>1. B \in SUBSET Nat /\ B # {}
  OBVIOUS
<1> HIDE DEF B
<1>2. PICK m \in B : \A b \in B : m <= b
  BY <1>1, LeastExists
<1>3. m \in Nat /\ \A s \in S : s <= m
  BY <1>2 DEF B
<1>4. ASSUME m \notin S PROVE FALSE
  <2>1. \A s \in S : s \in Nat /\ s < m
    BY <1>3, <1>4
  <2>2. m - 1 \in Nat
    <3>1. PICK s \in S : TRUE
      OBVIOUS
    <3>2. QED BY <3>1, <2>1, <1>3
  <2>3. m - 1 \in B
    BY <2>1, <2>2, <1>3 DEF B
  <2>4. QED BY <2>3, <1>2, <1>3
<1>5. \E x \in S : \A y \in S : x >= y
  BY <1>3, <1>4
<1>6. Max(S) \in S /\ \A y \in S : Max(S) >= y
  BY <1>5 DEF Max
<1>7. QED BY <1>6

\* A later day is not dated before, whatever the hour.
LEMMA SqliteForward ==
  ASSUME NEW t \in Nat
  PROVE  Sqlite(t) \in Nat /\ Iso(t) \in Nat /\ Sqlite(t) <= Sqlite(t + 1)
<1> DEFINE p == t \div PerDay
           q == (t + 1) \div PerDay
           m == t % PerDay
           n == (t + 1) % PerDay
<1>1. PerDay \in Nat /\ PerDay > 0
  BY RepoAssumption
<1>2. p \in Nat /\ m \in Nat /\ m < PerDay /\ t = PerDay * p + m
  BY <1>1
<1>3. q \in Nat /\ n \in Nat /\ n < PerDay /\ t + 1 = PerDay * q + n
  BY <1>1
<1>4. Sqlite(t) = 2 * PerDay * p + m /\ Sqlite(t + 1) = 2 * PerDay * q + n
  BY DEF Sqlite
<1> HIDE DEF p, q, m, n
<1>5. PerDay * p \in Nat /\ PerDay * q \in Nat
      /\ 2 * PerDay * p = PerDay * p + PerDay * p /\ 2 * PerDay * q = PerDay * q + PerDay * q
  BY ONLY <1>1, <1>2, <1>3
<1>6. PerDay * p <= PerDay * q
  <2>1. CASE q < p
    <3>1. p = q + (p - q - 1) + 1 /\ p - q - 1 \in Nat
      BY ONLY <2>1, <1>2, <1>3
    <3>2. PerDay * p = PerDay * q + PerDay * (p - q - 1) + PerDay /\ PerDay * (p - q - 1) \in Nat
      BY ONLY <3>1, <1>1, <1>2, <1>3
    <3>3. QED BY ONLY <1>1, <1>2, <1>3, <1>5, <3>2
  <2>2. CASE p <= q
    BY ONLY <2>2, <1>1, <1>2, <1>3
  <2>3. QED BY <2>1, <2>2, <1>2, <1>3
<1>7. Sqlite(t) = t + PerDay * p /\ Sqlite(t + 1) = t + 1 + PerDay * q
  BY ONLY <1>2, <1>3, <1>4, <1>5
<1>8. Sqlite(t) \in Nat /\ Sqlite(t) <= Sqlite(t + 1)
  BY ONLY <1>5, <1>6, <1>7, t \in Nat
<1>9. Iso(t) \in Nat
  BY <1>1, <1>8 DEF Iso
<1>10. QED BY <1>8, <1>9

\* The next page begins where a page ends.
LEMMA NextPage ==
  ASSUME NEW o \in Nat, o % PageLimit = 0
  PROVE  o + PageLimit \in Nat /\ (o + PageLimit) % PageLimit = 0
<1> DEFINE L == PageLimit
           p == o \div L
           q == (o + L) \div L
           n == (o + L) % L
<1>1. L \in Nat /\ L > 0
  BY RepoAssumption
<1> HIDE DEF L
<1>2. p \in Nat /\ o = L * p
  BY <1>1 DEF L
<1>3. o + L \in Nat
  BY <1>1
<1>4. q \in Nat /\ n \in Nat /\ n < L /\ o + L = L * q + n
  BY <1>1, <1>3
<1> HIDE DEF p, q, n
<1>5. L * (p + 1) = L * q + n
  BY ONLY <1>1, <1>2, <1>4
<1>6. n = 0
  <2> DEFINE d == p + 1 - q
  <2>1. d \in Int /\ n = L * d
    BY ONLY <1>1, <1>2, <1>4, <1>5
  <2> HIDE DEF d
  <2>2. CASE d <= 0
    <3>1. L * d <= 0
      BY ONLY <1>1, <2>1, <2>2
    <3>2. QED BY ONLY <1>4, <2>1, <3>1
  <2>3. CASE d >= 1
    <3>1. d - 1 \in Nat /\ L * d = L * (d - 1) + L /\ L * (d - 1) \in Nat
      BY ONLY <1>1, <2>1, <2>3
    <3>2. QED BY ONLY <1>1, <1>4, <2>1, <3>1
  <2>4. QED BY <2>1, <2>2, <2>3
<1>7. QED BY <1>3, <1>6 DEF n, L

-----------------------------------------------------------------------------
(* The invariant.                                                          *)

\* The q-th collection has been read, or is being read.
Past(q) == stage = "done" \/ (stage = "pages" /\ q < part)
Reads(q) == stage = "pages" /\ q = part

\* What was there all the time is there, and what is there was there at some time.
Known ==
  stage # "idle" => there \subseteq Records(rows, profile) /\ Records(rows, profile) \subseteq ever

\* The profile is read first, and collections in their order.
InTurn ==
  /\ stage \in {"idle", "profile"} => got = <<>>
  /\ stage = "profile" => part = 1 /\ offset = 0
  /\ \A i \in 1 .. Len(got) : got[i][1] = "profile" => i = 1
  /\ \A i \in 1 .. Len(got), q \in 1 .. Len(Order) : got[i][1] = Order[q] => Past(q) \/ Reads(q)

\* A record that was there all the time, in a collection that lost nothing, has
\* been read or has its place ahead of the reading.
Kept ==
  \A r \in there : r[1] \notin shrunk =>
    /\ r[1] = "profile" /\ stage \in {"pages", "done"} => r \in ToSet(got)
    /\ \A q \in 1 .. Len(Order) : r[1] = Order[q] =>
         /\ Past(q) => r \in ToSet(got)
         /\ Reads(q) => r \in ToSet(got) \/ Place(rows[r[1]], r[2]) >= offset

\* In a collection that gained nothing, what has been read is gone or has its
\* place behind the reading, and was read once.
Single ==
  /\ ToSet(got) \subseteq ever
  /\ \A i, j \in 1 .. Len(got) :
       i # j /\ got[i][1] = got[j][1] /\ got[i][2] = got[j][2] => got[i][1] \in grown
  /\ \A i \in 1 .. Len(got) :
       /\ stage = "pages" /\ got[i][1] = Order[part] /\ got[i][1] \notin grown
       /\ got[i][2] \in Keys(rows[got[i][1]])
       => Place(rows[got[i][1]], got[i][2]) < offset

\* The dates that the server gives are not in the future, and all dates have a bound.
Dated ==
  /\ profile.stamp <= Sqlite(now)
  /\ \A k \in Keys(rows["post"]) : rows["post"][k].stamp <= Sqlite(now)
  /\ \E bound \in Nat : \A s \in Dates(rows, profile, peers) : s <= bound

\* While no date is taken back, the newest one does not go back; and while
\* it tells of every change, it has moved or nothing has changed.
Forward == ~sunk => rev <= Revision
Telling ==
  stage # "idle" /\ ~silent =>
    \/ rev < Revision
    \/ rev = Revision /\ there = Records(rows, profile) /\ ever = there /\ shrunk = {}

RepoInv == TypeOK /\ Known /\ InTurn /\ Kept /\ Single /\ Dated /\ Forward /\ Telling

-----------------------------------------------------------------------------
(* What the actions that change the tables have in common.                 *)

Tables == {rs \in [Collection -> TableType] :
             \A c \in Collection, k \in Key : Here(rs[c], k) \/ rs[c][k] = NoRow}

\* A row is removed, or one of a like, repost or follow replaced.
Removes(rs) == \E c \in Collection, k \in Key : Here(rows[c], k) /\ ~Here(rs[c], k)
Replaces(rs) ==
  \E c \in {"like", "repost", "follow"}, k \in Key : Here(rows[c], k) /\ rs[c][k] # rows[c][k]

\* A change is to rows, posts and the profile are dated by the clock, and a change
\* that is neither a removal nor a replacement leaves a date behind.
Sound(rs, pr, stamps) ==
  /\ rs \in Tables /\ pr \in Profiles /\ stamps \in SUBSET Nat
  /\ pr.stamp \in {profile.stamp, Sqlite(now)}
  /\ \A k \in Keys(rs["post"]) :
       rs["post"][k].stamp = Sqlite(now) \/ rs["post"][k] = rows["post"][k]
  /\ \E b \in Nat : \A c \in Collection, k \in Key : rs[c][k] = rows[c][k] \/ rs[c][k].stamp <= b
  /\ Removes(rs) \/ Replaces(rs) \/ \E s \in stamps : s \in Stamps(rs, pr)

Write ==
  \/ SetProfile
  \/ \E k \in Key :
       \/ EditPost(k)
       \/ \E at \in 0 .. MaxTime :
            \/ CreatePost(k, at)
            \/ \E c \in {"like", "repost"} : Mark(c, k, at)
            \/ \E old \in Key \cup {0} : Follow(k, old, at)
       \/ \E c \in {"like", "repost"} : Unmark(c, k)
       \/ \E c \in Collection : DeleteRecord(c, k)

\* The collections.
LEMMA OrderIs ==
  /\ Len(Order) = 4 /\ Order[1] = "post" /\ Order[2] = "like" /\ Order[3] = "repost"
  /\ Order[4] = "follow" /\ Collection = {"post", "like", "repost", "follow"}
  /\ \A q \in 1 .. Len(Order) : Order[q] \in Collection
  /\ \A c \in Collection : c # "profile" /\ \E q \in 1 .. Len(Order) : Order[q] = c
  /\ \A q, r \in 1 .. Len(Order) : Order[q] = Order[r] => q = r
<1>1. /\ Len(Order) = 4 /\ Order[1] = "post" /\ Order[2] = "like" /\ Order[3] = "repost"
      /\ Order[4] = "follow"
  BY DEF Order
<1>2. DOMAIN Order = {1, 2, 3, 4}
  BY DEF Order
<1>3. Collection = {"post", "like", "repost", "follow"}
  BY <1>1, <1>2 DEF Collection, ToSet
<1>4. QED BY <1>1, <1>3

\* One row is written.
LEMMA PutIsSound ==
  ASSUME TypeOK, NEW c \in Collection, NEW k \in Key, NEW at \in Nat, NEW stamp \in Nat,
         c = "post" => stamp = Sqlite(now),
         Put(c, k, at, stamp)
  PROVE  \E rs, pr, stamps : Change(rs, pr, stamps) /\ Sound(rs, pr, stamps)
<1> DEFINE row == [at |-> at, stamp |-> stamp, version |-> writes + 1]
           rs == [rows EXCEPT ![c][k] = row]
<1>1. Change(rs, profile, {stamp})
  BY DEF Put
<1>2. /\ rows \in [Collection -> TableType] /\ profile \in Profiles /\ writes \in Nat
      /\ \A d \in Collection, i \in Key : Here(rows[d], i) \/ rows[d][i] = NoRow
  BY DEF TypeOK, TableType
<1>3. row \in Row /\ row.version # 0 /\ row.stamp = stamp
  BY <1>2 DEF Row
<1> HIDE DEF row
<1>4. /\ rs \in [Collection -> TableType] /\ rs[c][k] = row
      /\ \A d \in Collection, i \in Key : d # c \/ i # k => rs[d][i] = rows[d][i]
  <2>1. rows[c] \in TableType
    BY <1>2
  <2>2. [rows[c] EXCEPT ![k] = row] \in TableType
    BY <1>3, <2>1 DEF TableType
  <2>3. rs = [rows EXCEPT ![c] = [rows[c] EXCEPT ![k] = row]]
    OBVIOUS
  <2>4. rs \in [Collection -> TableType] /\ rs[c] = [rows[c] EXCEPT ![k] = row]
        /\ \A d \in Collection : d # c => rs[d] = rows[d]
    BY <1>2, <2>2, <2>3
  <2>5. QED BY <2>1, <2>4 DEF TableType
<1> HIDE DEF rs
<1>5. Here(rs[c], k)
  BY <1>3, <1>4 DEF Here
<1>6. rs \in Tables
  BY <1>2, <1>4, <1>5 DEF Tables, Here
<1>7. stamp \in Stamps(rs, profile)
  BY <1>3, <1>4, <1>5 DEF Stamps, Keys
<1>8. \A i \in Keys(rs["post"]) :
        rs["post"][i].stamp = Sqlite(now) \/ rs["post"][i] = rows["post"][i]
  BY <1>3, <1>4, OrderIs DEF Keys
<1>9. \A d \in Collection, i \in Key : rs[d][i] = rows[d][i] \/ rs[d][i].stamp <= stamp
  BY <1>3, <1>4
<1>10. Sound(rs, profile, {stamp})
  BY <1>2, <1>6, <1>7, <1>8, <1>9 DEF Sound
<1>11. QED BY <1>1, <1>10

\* A row is removed, in one collection or two.
LEMMA RemovalIsSound ==
  ASSUME TypeOK, NEW rs \in [Collection -> TableType],
         \A c \in Collection, k \in Key : rs[c][k] = rows[c][k] \/ rs[c][k] = NoRow,
         NEW d \in Collection, NEW i \in Key, Here(rows[d], i), rs[d][i] = NoRow
  PROVE  Sound(rs, profile, {})
<1>1. NoRow \in Row /\ NoRow.version = 0 /\ NoRow.stamp = 0
  BY DEF NoRow, Row
<1>2. /\ rows \in [Collection -> TableType] /\ profile \in Profiles
      /\ \A c \in Collection, k \in Key : Here(rows[c], k) \/ rows[c][k] = NoRow
  BY DEF TypeOK, TableType
<1>3. rs \in Tables
  BY <1>1, <1>2 DEF Tables, Here
<1>4. Removes(rs)
  BY <1>1 DEF Removes, Here
<1>5. \A k \in Keys(rs["post"]) : rs["post"][k] = rows["post"][k]
  BY <1>1, OrderIs DEF Keys, Here
<1>6. \A c \in Collection, k \in Key : rs[c][k] = rows[c][k] \/ rs[c][k].stamp <= 0
  BY <1>1
<1>7. QED BY <1>2, <1>3, <1>4, <1>5, <1>6 DEF Sound

\* Every change of the tables is of this kind.
LEMMA WriteIsSound ==
  ASSUME TypeOK, Write
  PROVE  \E rs, pr, stamps : Change(rs, pr, stamps) /\ Sound(rs, pr, stamps)
<1>1. /\ rows \in [Collection -> TableType] /\ profile \in Profiles /\ writes \in Nat /\ now \in Nat
      /\ \A c \in Collection, k \in Key : Here(rows[c], k) \/ rows[c][k] = NoRow
  BY DEF TypeOK, TableType
<1>2. Sqlite(now) \in Nat /\ \A at \in 0 .. MaxTime : at \in Nat /\ Iso(at) \in Nat
  BY <1>1, RepoAssumption, SqliteForward
<1>3. \A c \in {"like", "repost"} : c \in Collection /\ c # "post"
  BY OrderIs
<1>4. "post" \in Collection /\ "follow" \in Collection
  BY OrderIs
<1>5. CASE SetProfile
  <2> DEFINE pr == [stamp |-> Sqlite(now), version |-> writes + 1]
  <2>1. Change(rows, pr, {Sqlite(now)})
    BY <1>5 DEF SetProfile
  <2>2. pr \in Profiles /\ pr.stamp = Sqlite(now)
    BY <1>1, <1>2 DEF Profiles
  <2> HIDE DEF pr
  <2>3. Sqlite(now) \in Stamps(rows, pr)
    BY <2>2 DEF Stamps
  <2>4. rows \in Tables
    BY <1>1 DEF Tables
  <2>5. Sound(rows, pr, {Sqlite(now)})
    BY <1>2, <2>2, <2>3, <2>4 DEF Sound
  <2>6. QED BY <2>1, <2>5
<1>6. ASSUME NEW k \in Key, EditPost(k)
      PROVE  \E rs, pr, stamps : Change(rs, pr, stamps) /\ Sound(rs, pr, stamps)
  <2>1. rows["post"][k].at \in Nat
    BY <1>1, <1>4 DEF TableType, Row
  <2>2. Put("post", k, rows["post"][k].at, Sqlite(now))
    BY <1>6 DEF EditPost
  <2>3. QED BY <1>2, <1>4, <2>1, <2>2, PutIsSound
<1>7. ASSUME NEW k \in Key, NEW at \in 0 .. MaxTime, CreatePost(k, at)
      PROVE  \E rs, pr, stamps : Change(rs, pr, stamps) /\ Sound(rs, pr, stamps)
  <2>1. Put("post", k, at, Sqlite(now))
    BY <1>7 DEF CreatePost
  <2>2. QED BY <1>2, <1>4, <2>1, PutIsSound
<1>8. ASSUME NEW k \in Key, NEW at \in 0 .. MaxTime, NEW c \in {"like", "repost"}, Mark(c, k, at)
      PROVE  \E rs, pr, stamps : Change(rs, pr, stamps) /\ Sound(rs, pr, stamps)
  <2>1. Put(c, k, at, Iso(at))
    BY <1>8 DEF Mark
  <2>2. QED BY <1>2, <1>3, <2>1, PutIsSound
<1>9. ASSUME NEW k \in Key, NEW at \in 0 .. MaxTime, NEW old \in Key \cup {0}, Follow(k, old, at)
      PROVE  \E rs, pr, stamps : Change(rs, pr, stamps) /\ Sound(rs, pr, stamps)
  <2> DEFINE row == [at |-> at, stamp |-> Iso(at), version |-> writes + 1]
             follows == [i \in Key |-> IF i = k THEN row ELSE IF i = old THEN NoRow
                                       ELSE rows["follow"][i]]
             rs == [rows EXCEPT !["follow"] = follows]
  <2>1. Change(rs, profile, {Iso(at)})
    BY <1>9 DEF Follow
  <2>2. row \in Row /\ row.version # 0 /\ row.stamp = Iso(at)
    BY <1>1, <1>2 DEF Row
  <2> HIDE DEF row
  <2>3. NoRow \in Row /\ NoRow.version = 0 /\ NoRow.stamp = 0
    BY DEF NoRow, Row
  <2>4. /\ follows \in TableType /\ follows[k] = row
        /\ \A i \in Key : i # k => follows[i] = NoRow \/ follows[i] = rows["follow"][i]
    BY <1>1, <1>4, <2>2, <2>3 DEF TableType
  <2> HIDE DEF follows
  <2>5. /\ rs \in [Collection -> TableType] /\ rs["follow"] = follows
        /\ \A c \in Collection : c # "follow" => rs[c] = rows[c]
    BY <1>1, <1>4, <2>4
  <2> HIDE DEF rs
  <2>6. \A c \in Collection, i \in Key : \/ rs[c][i] = rows[c][i]
                                         \/ rs[c][i] = NoRow
                                         \/ rs[c][i] = row
    BY <2>4, <2>5
  <2>7. rs \in Tables
    BY <1>1, <2>2, <2>5, <2>6 DEF Tables, Here
  <2>8. Iso(at) \in Stamps(rs, profile)
    BY <1>4, <2>2, <2>4, <2>5 DEF Stamps, Keys, Here
  <2>9. \A i \in Keys(rs["post"]) : rs["post"][i] = rows["post"][i]
    BY <1>4, <2>5
  <2>10. \A c \in Collection, i \in Key : rs[c][i] = rows[c][i] \/ rs[c][i].stamp <= Iso(at)
    BY <1>2, <2>2, <2>3, <2>6
  <2>11. Sound(rs, profile, {Iso(at)})
    BY <1>1, <1>2, <2>7, <2>8, <2>9, <2>10 DEF Sound
  <2>12. QED BY <2>1, <2>11
<1>10. ASSUME NEW k \in Key, NEW c \in {"like", "repost"}, Unmark(c, k)
       PROVE  \E rs, pr, stamps : Change(rs, pr, stamps) /\ Sound(rs, pr, stamps)
  <2> DEFINE rs == [rows EXCEPT ![c][k] = NoRow]
  <2>1. Change(rs, profile, {}) /\ Here(rows[c], k)
    BY <1>10 DEF Unmark
  <2>2. NoRow \in Row
    BY DEF NoRow, Row
  <2>3. rows[c] \in TableType /\ [rows[c] EXCEPT ![k] = NoRow] \in TableType
    BY <1>1, <1>3, <2>2 DEF TableType
  <2>4. rs \in [Collection -> TableType] /\ rs[c][k] = NoRow
        /\ \A d \in Collection, i \in Key : rs[d][i] = rows[d][i] \/ rs[d][i] = NoRow
    BY <1>1, <1>3, <2>3 DEF TableType
  <2> HIDE DEF rs
  <2>5. Sound(rs, profile, {})
    BY <1>3, <2>1, <2>4, RemovalIsSound
  <2>6. QED BY <2>1, <2>5
<1>11. ASSUME NEW k \in Key, NEW c \in Collection, DeleteRecord(c, k)
       PROVE  \E rs, pr, stamps : Change(rs, pr, stamps) /\ Sound(rs, pr, stamps)
  <2> DEFINE cs == IF c \in {"like", "repost"} THEN {"like", "repost"} ELSE {c}
             rs == [d \in Collection |-> IF d \in cs THEN [rows[d] EXCEPT ![k] = NoRow]
                                         ELSE rows[d]]
  <2>1. Change(rs, profile, {}) /\ \E d \in cs : Here(rows[d], k)
    BY <1>11 DEF DeleteRecord
  <2>2. cs \in SUBSET Collection
    BY <1>3
  <2> HIDE DEF cs
  <2>3. PICK d \in cs : Here(rows[d], k)
    BY <2>1
  <2>4. NoRow \in Row
    BY DEF NoRow, Row
  <2>5. \A e \in Collection : rows[e] \in TableType /\ [rows[e] EXCEPT ![k] = NoRow] \in TableType
    BY <1>1, <2>4 DEF TableType
  <2>6. rs \in [Collection -> TableType] /\ rs[d][k] = NoRow
        /\ \A e \in Collection, i \in Key : rs[e][i] = rows[e][i] \/ rs[e][i] = NoRow
    BY <2>2, <2>3, <2>5 DEF TableType
  <2> HIDE DEF rs
  <2>7. Sound(rs, profile, {})
    BY <2>2, <2>3, <2>6, RemovalIsSound
  <2>8. QED BY <2>1, <2>7
<1>12. QED BY <1>5, <1>6, <1>7, <1>8, <1>9, <1>10, <1>11 DEF Write

-----------------------------------------------------------------------------
(* A change of the tables keeps the invariant.                             *)

\* The newest date is one of them.
LEMMA NewestIs ==
  ASSUME NEW rs \in Tables, NEW pr \in Profiles, NEW ps \in [Peer -> PeerRow],
         NEW bound \in Nat, \A s \in Dates(rs, pr, ps) : s <= bound
  PROVE  LET newest == Max(Dates(rs, pr, ps))
         IN  /\ newest \in Dates(rs, pr, ps) /\ newest \in Nat
             /\ \A s \in Dates(rs, pr, ps) : s \in Nat /\ s <= newest
<1>1. \A c \in Collection, k \in Key : rs[c][k].stamp \in Nat
  BY DEF Tables, TableType, Row
<1>2. pr.stamp \in Nat /\ pr.stamp \in Dates(rs, pr, ps)
  BY DEF Profiles, Stamps, Dates
<1>3. Stamps(rs, pr) \in SUBSET Nat
  BY <1>1, <1>2 DEF Stamps, Keys
<1>4. Dates(rs, pr, ps) \in SUBSET Nat
  BY <1>3 DEF Dates, PeerRow
<1>5. QED BY <1>2, <1>4, NewestExists

\* A row that stays, in a table where every row stays, is no nearer to the first.
LEMMA PlaceGrows ==
  ASSUME NEW old \in TableType, NEW new \in TableType, NEW k \in Keys(old), k \in Keys(new),
         \A i \in Keys(old) : i \in Keys(new) /\ old[i].at = new[i].at
  PROVE  Place(old, k) \in Nat /\ Place(new, k) \in Nat /\ Place(old, k) <= Place(new, k)
<1>1. Before(old, k) \in SUBSET Before(new, k)
  BY DEF Before, Newer
<1>2. Before(new, k) \in SUBSET Keys(new)
  BY DEF Before
<1>3. Cardinality(Before(old, k)) <= Cardinality(Before(new, k))
  BY <1>1, <1>2, KeysAreFinite, FS_Subset
<1>4. QED BY <1>3, PlaceInTable DEF Place, Before

\* What a record of the tables is.
LEMMA RecordsAre ==
  ASSUME NEW rs, NEW pr, NEW r
  PROVE  r \in Records(rs, pr) <=>
           \/ r = <<"profile", 0, pr.version>>
           \/ \E c \in Collection : \E k \in Keys(rs[c]) : r = <<c, k, rs[c][k].version>>
BY DEF Records

\* What the history notes.
LEMMA NoteSays ==
  ASSUME NEW rs, NEW pr, NEW stamps, Change(rs, pr, stamps)
  PROVE  /\ rows' = rs /\ profile' = pr /\ writes' = writes + 1
         /\ UNCHANGED <<now, peers, stage, part, offset, rev, got>>
         /\ there' = there \cap Records(rs, pr) /\ ever' = ever \cup Records(rs, pr)
         /\ shrunk \subseteq shrunk' /\ grown \subseteq grown'
         /\ \A c \in Collection : c \notin shrunk' =>
              \A k \in Keys(rows[c]) : k \in Keys(rs[c]) /\ rows[c][k].at = rs[c][k].at
         /\ \A c \in Collection : c \notin grown' =>
              \A k \in Keys(rs[c]) : k \in Keys(rows[c]) /\ rows[c][k].at = rs[c][k].at
         /\ sunk' = (sunk \/ Removes(rs) \/ Replaces(rs))
         /\ silent' = (silent \/ Removes(rs) \/ Replaces(rs) \/ \E s \in stamps : s <= Revision)
<1>1. /\ rows' = rs /\ profile' = pr /\ writes' = writes + 1
      /\ UNCHANGED <<now, peers, stage, part, offset, rev, got>>
      /\ Note(rs, pr, stamps)
  BY DEF Change, reading
<1> DEFINE removed(c) == \E k \in Key : Here(rows[c], k) /\ ~Here(rs[c], k)
           added(c) == \E k \in Key : ~Here(rows[c], k) /\ Here(rs[c], k)
           redated(c) == \E k \in Key : Here(rows[c], k) /\ Here(rs[c], k)
                                        /\ rs[c][k].at # rows[c][k].at
           gone == \E c \in Collection : removed(c)
           replaced == \E c \in {"like", "repost", "follow"}, k \in Key :
                         Here(rows[c], k) /\ rs[c][k] # rows[c][k]
<1>2. /\ there' = there \cap Records(rs, pr) /\ ever' = ever \cup Records(rs, pr)
      /\ shrunk' = shrunk \cup {c \in Collection : removed(c) \/ redated(c)}
      /\ grown' = grown \cup {c \in Collection : added(c) \/ redated(c)}
      /\ sunk' = (sunk \/ gone \/ replaced)
      /\ silent' = (silent \/ gone \/ replaced \/ \E s \in stamps : s <= Revision)
  BY <1>1 DEF Note
<1>3. ASSUME NEW c \in Collection, c \notin shrunk'
      PROVE  \A k \in Keys(rows[c]) : k \in Keys(rs[c]) /\ rows[c][k].at = rs[c][k].at
  <2>1. ~removed(c) /\ ~redated(c)
    BY <1>2, <1>3
  <2>2. QED BY <2>1 DEF Keys
<1>4. ASSUME NEW c \in Collection, c \notin grown'
      PROVE  \A k \in Keys(rs[c]) : k \in Keys(rows[c]) /\ rows[c][k].at = rs[c][k].at
  <2>1. ~added(c) /\ ~redated(c)
    BY <1>2, <1>4
  <2>2. QED BY <2>1 DEF Keys
<1>5. gone <=> Removes(rs)
  BY DEF Removes
<1>6. replaced <=> Replaces(rs)
  BY DEF Replaces
<1>7. shrunk \subseteq shrunk' /\ grown \subseteq grown'
  BY <1>2
<1>8. sunk' = (sunk \/ Removes(rs) \/ Replaces(rs))
  BY <1>2, <1>5, <1>6
<1>9. silent' = (silent \/ Removes(rs) \/ Replaces(rs) \/ \E s \in stamps : s <= Revision)
  BY <1>2, <1>5, <1>6
<1> HIDE DEF gone, replaced, removed, added, redated
<1>10. QED BY <1>1, <1>2, <1>3, <1>4, <1>7, <1>8, <1>9

\* Types.
LEMMA ChangeTypes ==
  ASSUME TypeOK, NEW rs, NEW pr, NEW stamps, Change(rs, pr, stamps), Sound(rs, pr, stamps)
  PROVE  TypeOK'
<1>1. rows' \in [Collection -> [Key -> Row]] /\ profile' \in Profiles
      /\ \A c \in Collection, k \in Key : Here(rows'[c], k) \/ rows'[c][k] = NoRow
  BY NoteSays DEF Sound, Tables, TableType
<1>2. UNCHANGED <<now, peers, stage, part, offset, rev, got>> /\ writes' = writes + 1
      /\ sunk' \in BOOLEAN /\ silent' \in BOOLEAN
  BY NoteSays
<1>3. QED BY <1>1, <1>2 DEF TypeOK

\* What was there, and the order of the reading.
LEMMA ChangeReading ==
  ASSUME Known, InTurn, NEW rs, NEW pr, NEW stamps, Change(rs, pr, stamps)
  PROVE  Known' /\ InTurn'
<1>1. /\ UNCHANGED <<stage, part, offset, got>> /\ rows' = rs /\ profile' = pr
      /\ there' = there \cap Records(rs, pr) /\ ever' = ever \cup Records(rs, pr)
  BY NoteSays
<1>2. Known'
  BY <1>1 DEF Known
<1>3. InTurn'
  BY <1>1 DEF InTurn, Past, Reads
<1>4. QED BY <1>2, <1>3

\* What was there all the time is still read or ahead.
LEMMA ChangeKept ==
  ASSUME TypeOK, Known, Kept, NEW rs, NEW pr, NEW stamps,
         Change(rs, pr, stamps), Sound(rs, pr, stamps)
  PROVE  Kept'
<1>1. /\ UNCHANGED <<stage, part, offset, got>> /\ rows' = rs /\ shrunk \subseteq shrunk'
      /\ there' = there \cap Records(rs, pr)
      /\ \A c \in Collection : c \notin shrunk' =>
           \A k \in Keys(rows[c]) : k \in Keys(rs[c]) /\ rows[c][k].at = rs[c][k].at
  BY NoteSays
<1>2. rows \in [Collection -> TableType] /\ rs \in [Collection -> TableType] /\ offset \in Nat
  BY DEF TypeOK, TableType, Sound, Tables
<1>3. SUFFICES ASSUME NEW r \in there', r[1] \notin shrunk',
                      NEW q \in 1 .. Len(Order), r[1] = Order[q], Reads(q), r \notin ToSet(got)
               PROVE  Place(rs[r[1]], r[2]) >= offset
  <2>1. \A r \in there' : r \in there /\ (r[1] \notin shrunk' => r[1] \notin shrunk)
    BY <1>1
  <2>2. \A i \in 1 .. Len(Order) : (Past(i) <=> Past(i)') /\ (Reads(i) <=> Reads(i)')
    BY <1>1 DEF Past, Reads
  <2>3. QED BY <1>1, <1>3, <2>1, <2>2 DEF Kept
<1>4. r \in there /\ r[1] \notin shrunk /\ r \in Records(rs, pr)
  BY <1>1, <1>3
<1>5. r \in Records(rows, profile)
  BY <1>3, <1>4 DEF Known, Reads
<1>6. r[1] \in Collection
  BY <1>3, OrderIs
<1>7. r[2] \in Keys(rows[r[1]]) /\ r[2] \in Keys(rs[r[1]])
  <2>1. r[1] # "profile"
    BY <1>6, OrderIs
  <2>2. \E c \in Collection : \E k \in Keys(rows[c]) : r = <<c, k, rows[c][k].version>>
    BY <1>5, <2>1, RecordsAre
  <2>3. \E c \in Collection : \E k \in Keys(rs[c]) : r = <<c, k, rs[c][k].version>>
    BY <1>4, <2>1, RecordsAre
  <2>4. QED BY <2>2, <2>3
<1>8. Place(rows[r[1]], r[2]) >= offset
  BY <1>3, <1>4 DEF Kept
<1>9. \A k \in Keys(rows[r[1]]) : k \in Keys(rs[r[1]]) /\ rows[r[1]][k].at = rs[r[1]][k].at
  BY <1>1, <1>3, <1>6
<1>10. /\ Place(rows[r[1]], r[2]) \in Nat /\ Place(rs[r[1]], r[2]) \in Nat
       /\ Place(rows[r[1]], r[2]) <= Place(rs[r[1]], r[2])
  <2>1. rows[r[1]] \in TableType /\ rs[r[1]] \in TableType
    BY <1>2, <1>6
  <2>2. QED BY <1>7, <1>9, <2>1, PlaceGrows
<1>11. QED BY <1>2, <1>8, <1>10

\* What has been read is still behind, and read once.
LEMMA ChangeSingle ==
  ASSUME TypeOK, InTurn, Single, NEW rs, NEW pr, NEW stamps,
         Change(rs, pr, stamps), Sound(rs, pr, stamps)
  PROVE  Single'
<1>1. /\ UNCHANGED <<stage, part, offset, got>> /\ rows' = rs /\ grown \subseteq grown'
      /\ ever' = ever \cup Records(rs, pr)
      /\ \A c \in Collection : c \notin grown' =>
           \A k \in Keys(rs[c]) : k \in Keys(rows[c]) /\ rows[c][k].at = rs[c][k].at
  BY NoteSays
<1>2. rows \in [Collection -> TableType] /\ rs \in [Collection -> TableType]
      /\ offset \in Nat /\ part \in 1 .. Len(Order)
  BY DEF TypeOK, TableType, Sound, Tables
<1>3. ToSet(got') \subseteq ever'
  BY <1>1 DEF Single
<1>4. \A i, j \in 1 .. Len(got') :
        i # j /\ got'[i][1] = got'[j][1] /\ got'[i][2] = got'[j][2] => got'[i][1] \in grown'
  BY <1>1 DEF Single
<1>5. ASSUME NEW i \in 1 .. Len(got), stage = "pages", got[i][1] = Order[part],
             got[i][1] \notin grown', got[i][2] \in Keys(rs[got[i][1]])
      PROVE  Place(rs[got[i][1]], got[i][2]) < offset
  <2> DEFINE c == got[i][1]
             k == got[i][2]
  <2>1. c \in Collection
    BY <1>2, <1>5, OrderIs
  <2>2. \A m \in Keys(rs[c]) : m \in Keys(rows[c]) /\ rows[c][m].at = rs[c][m].at
    BY <1>1, <1>5, <2>1
  <2>3. c \notin grown /\ k \in Keys(rows[c]) /\ k \in Keys(rs[c])
    BY <1>1, <1>5, <2>2
  <2>4. Place(rows[c], k) < offset
    BY <1>5, <2>3 DEF Single
  <2>5. rows[c] \in TableType /\ rs[c] \in TableType
    BY <1>2, <2>1
  <2> HIDE DEF c, k
  <2>6. /\ Place(rows[c], k) \in Nat /\ Place(rs[c], k) \in Nat
        /\ Place(rs[c], k) <= Place(rows[c], k)
    BY <2>2, <2>3, <2>5, PlaceGrows
  <2>7. Place(rs[c], k) < offset
    BY <1>2, <2>4, <2>6
  <2>8. QED BY <2>7 DEF c, k
<1>6. QED BY <1>1, <1>3, <1>4, <1>5 DEF Single

\* The dates, and the revision.
LEMMA ChangeDates ==
  ASSUME TypeOK, Dated, Forward, Telling, NEW rs, NEW pr, NEW stamps,
         Change(rs, pr, stamps), Sound(rs, pr, stamps)
  PROVE  Dated' /\ Forward' /\ Telling'
<1>1. /\ UNCHANGED <<now, peers, stage, rev>> /\ rows' = rs /\ profile' = pr
      /\ sunk' = (sunk \/ Removes(rs) \/ Replaces(rs))
      /\ silent' = (silent \/ Removes(rs) \/ Replaces(rs) \/ \E s \in stamps : s <= Revision)
  BY NoteSays
<1>2. /\ rows \in Tables /\ profile \in Profiles /\ peers \in [Peer -> PeerRow]
      /\ rev \in Nat /\ now \in Nat /\ Sqlite(now) \in Nat
  <2>1. peers \in [Peer -> PeerRow] /\ rows \in Tables /\ profile \in Profiles /\ rev \in Nat /\ now \in Nat
    BY DEF TypeOK, Tables, TableType
  <2>2. QED BY <2>1, SqliteForward
<1>3. /\ rs \in Tables /\ pr \in Profiles /\ stamps \in SUBSET Nat
      /\ pr.stamp \in {profile.stamp, Sqlite(now)}
      /\ \A k \in Keys(rs["post"]) :
           rs["post"][k].stamp = Sqlite(now) \/ rs["post"][k] = rows["post"][k]
      /\ \E b \in Nat : \A c \in Collection, k \in Key :
           rs[c][k] = rows[c][k] \/ rs[c][k].stamp <= b
      /\ Removes(rs) \/ Replaces(rs) \/ \E s \in stamps : s \in Stamps(rs, pr)
  BY DEF Sound
<1>4. PICK bound \in Nat : \A s \in Dates(rows, profile, peers) : s <= bound
  BY DEF Dated
<1>5. \A c \in Collection, k \in Key :
        /\ rows[c][k].stamp \in Nat /\ rs[c][k].stamp \in Nat
        /\ rows[c][k].version \in Nat /\ rs[c][k].version \in Nat
  BY <1>2, <1>3 DEF Tables, TableType, Row
<1>6. profile.stamp \in Nat /\ pr.stamp \in Nat
  BY <1>2, <1>3 DEF Profiles
<1>7. PICK most \in Nat : \A s \in Dates(rs, pr, peers) : s <= most
  <2>1. PICK b \in Nat : \A c \in Collection, k \in Key :
          rs[c][k] = rows[c][k] \/ rs[c][k].stamp <= b
    BY <1>3
  <2> DEFINE most == bound + b + profile.stamp + Sqlite(now)
  <2>2. most \in Nat /\ b <= most /\ bound <= most /\ profile.stamp <= most /\ Sqlite(now) <= most
    BY <1>2, <1>6
  <2> HIDE DEF most
  <2>3. ASSUME NEW c \in Collection, NEW k \in Keys(rs[c]) PROVE rs[c][k].stamp <= most
    <3>1. k \in Key
      BY DEF Keys
    <3>2. CASE rs[c][k] = rows[c][k]
      <4>1. rows[c][k].stamp \in Dates(rows, profile, peers)
        BY <3>1, <3>2 DEF Keys, Here, Stamps, Dates
      <4>2. rows[c][k].stamp <= bound
        BY <4>1, <1>4
      <4>3. rs[c][k].stamp \in Nat /\ rs[c][k].stamp <= bound
        BY <3>1, <3>2, <4>2, <1>5
      <4>4. QED BY <4>3, <2>2
    <3>3. CASE rs[c][k].stamp <= b
      <4>1. rs[c][k].stamp \in Nat
        BY <3>1, <1>5
      <4>2. QED BY <3>3, <4>1, <2>2
    <3>4. QED BY <2>1, <3>1, <3>2, <3>3
  <2>4. pr.stamp <= most
    BY <1>3, <2>2
  <2>5. \A s \in Stamps(rs, pr) : s <= most
    BY <2>3, <2>4 DEF Stamps
  <2>6. ASSUME NEW q \in Peer, peers[q].status # "none" PROVE peers[q].stamp <= most
    <3>1. peers[q].stamp \in Dates(rows, profile, peers)
      BY <2>6 DEF Dates
    <3>2. peers[q].stamp \in Nat /\ peers[q].stamp <= bound
      BY <1>2, <1>4, <3>1 DEF PeerRow
    <3>3. QED BY <2>2, <3>2
  <2>7. \A s \in Dates(rs, pr, peers) : s <= most
    BY <2>5, <2>6 DEF Dates
  <2>8. QED BY <2>2, <2>7
<1>8. Dated'
  <2>1. pr.stamp <= Sqlite(now)
    BY <1>2, <1>3, <1>6 DEF Dated
  <2>2. ASSUME NEW k \in Keys(rs["post"]) PROVE rs["post"][k].stamp <= Sqlite(now)
    <3>1. CASE rs["post"][k] = rows["post"][k]
      <4>1. k \in Keys(rows["post"])
        BY <3>1 DEF Keys, Here
      <4>2. QED BY <3>1, <4>1 DEF Dated
    <3>2. CASE rs["post"][k].stamp = Sqlite(now)
      BY <3>2, <1>2
    <3>3. QED BY <1>3, <3>1, <3>2
  <2>3. Sqlite(now') = Sqlite(now)
    BY <1>1
  <2>4. QED BY <1>1, <1>7, <2>1, <2>2, <2>3 DEF Dated
<1>9. /\ Revision \in Dates(rows, profile, peers) /\ Revision \in Nat
  BY <1>2, <1>4, NewestIs DEF Revision
<1>10. /\ Revision' \in Nat
       /\ \A s \in Dates(rs, pr, peers) : s \in Nat /\ s <= Revision'
  <2>1. Revision' = Max(Dates(rs, pr, peers))
    BY <1>1 DEF Revision
  <2>2. QED BY <1>2, <1>3, <1>7, <2>1, NewestIs
<1>11. ASSUME ~Removes(rs), ~Replaces(rs) PROVE Revision <= Revision'
  <2>1. \E s \in Dates(rs, pr, peers) : Revision <= s
    <3>1. CASE Revision = profile.stamp
      <4>1. pr.stamp \in Dates(rs, pr, peers)
        BY DEF Stamps, Dates
      <4>2. profile.stamp <= pr.stamp
        BY <1>2, <1>3, <1>6 DEF Dated
      <4>3. QED BY <3>1, <4>1, <4>2
    <3>2. ASSUME NEW c \in Collection, NEW k \in Keys(rows[c]), Revision = rows[c][k].stamp
          PROVE  \E s \in Dates(rs, pr, peers) : Revision <= s
      <4>1. k \in Key /\ Here(rows[c], k)
        BY DEF Keys
      <4>2. k \in Keys(rs[c])
        BY <1>11, <4>1 DEF Removes, Keys
      <4>3. rs[c][k].stamp \in Dates(rs, pr, peers)
        BY <4>2 DEF Stamps, Dates
      <4>4. rows[c][k].stamp <= rs[c][k].stamp
        <5>1. CASE c = "post"
          <6>1. rows["post"][k].stamp <= Sqlite(now) /\ rows["post"][k].stamp \in Nat
            BY <5>1, <4>1, <1>5 DEF Dated
          <6>2. QED BY <5>1, <6>1, <4>2, <1>3
        <5>2. CASE c # "post"
          <6>1. c \in {"like", "repost", "follow"}
            BY <5>2, OrderIs
          <6>2. rs[c][k] = rows[c][k]
            BY <6>1, <4>1, <1>11 DEF Replaces
          <6>3. QED BY <6>2, <4>1, <1>5
        <5>3. QED BY <5>1, <5>2
      <4>5. QED BY <3>2, <4>3, <4>4
    <3>3. ASSUME NEW q \in Peer, peers[q].status # "none", Revision = peers[q].stamp
          PROVE  \E s \in Dates(rs, pr, peers) : Revision <= s
      <4>1. peers[q].stamp \in Dates(rs, pr, peers)
        BY <3>3 DEF Dates
      <4>2. QED BY <1>9, <3>3, <4>1
    <3>4. QED BY <1>9, <3>1, <3>2, <3>3 DEF Stamps, Dates
  <2>2. QED BY <2>1, <1>9, <1>10
<1>12. Forward'
  <2>1. SUFFICES ASSUME ~sunk' PROVE rev' <= Revision'
    BY DEF Forward
  <2>2. ~sunk /\ ~Removes(rs) /\ ~Replaces(rs)
    BY <1>1, <2>1
  <2>3. rev <= Revision /\ Revision <= Revision'
    BY <2>2, <1>11 DEF Forward
  <2>4. QED BY <2>3, <1>1, <1>2, <1>9, <1>10
<1>13. Telling'
  <2>1. SUFFICES ASSUME stage' # "idle", ~silent' PROVE rev' < Revision'
    BY DEF Telling
  <2>2. stage # "idle" /\ ~silent /\ ~Removes(rs) /\ ~Replaces(rs) /\ \A s \in stamps : ~(s <= Revision)
    BY <1>1, <2>1
  <2>3. PICK s \in stamps : s \in Stamps(rs, pr)
    BY <1>3, <2>2
  <2>4. s \in Nat /\ s <= Revision' /\ ~(s <= Revision)
    BY <1>10, <2>2, <2>3 DEF Dates
  <2>5. rev <= Revision
    BY <2>2, <1>2, <1>9 DEF Telling
  <2>6. QED BY <2>4, <2>5, <1>1, <1>2, <1>9, <1>10
<1>14. QED BY <1>8, <1>12, <1>13

-----------------------------------------------------------------------------
(* The steps of the reading keep it.                                       *)

\* The clock.
LEMMA TickStep ==
  ASSUME RepoInv, Tick
  PROVE  RepoInv'
<1>1. /\ UNCHANGED <<rows, profile, peers, writes, stage, part, offset, rev, got>>
      /\ UNCHANGED <<there, ever, shrunk, grown, sunk, silent>> /\ now' = now + 1
  BY DEF Tick, tables, reading, history
<1>2. TypeOK'
  BY <1>1 DEF RepoInv, TypeOK
<1>3. Known' /\ InTurn'
  BY <1>1 DEF RepoInv, Known, InTurn, Past, Reads
<1>4. Kept' /\ Single'
  BY <1>1 DEF RepoInv, Kept, Single, Past, Reads
<1>5. Revision' = Revision
  BY <1>1 DEF Revision
<1>6. Forward' /\ Telling'
  BY <1>1, <1>5 DEF RepoInv, Forward, Telling
<1>7. Dated'
  <2>1. now \in Nat /\ profile.stamp \in Nat
        /\ \A k \in Keys(rows["post"]) : rows["post"][k].stamp \in Nat
    BY OrderIs DEF RepoInv, TypeOK, Profiles, Row, Keys
  <2>2. Sqlite(now) \in Nat /\ Sqlite(now + 1) \in Nat /\ Sqlite(now) <= Sqlite(now + 1)
    BY <2>1, SqliteForward
  <2>3. Sqlite(now') = Sqlite(now + 1)
    BY <1>1
  <2>4. profile.stamp <= Sqlite(now + 1)
    BY <2>1, <2>2 DEF RepoInv, Dated
  <2>5. \A k \in Keys(rows["post"]) : rows["post"][k].stamp <= Sqlite(now + 1)
    BY <2>1, <2>2 DEF RepoInv, Dated
  <2>6. QED BY <1>1, <2>3, <2>4, <2>5 DEF RepoInv, Dated
<1>8. QED BY <1>2, <1>3, <1>4, <1>6, <1>7 DEF RepoInv

\* The newest date is a number.
LEMMA RevisionIs ==
  ASSUME TypeOK, Dated
  PROVE  Revision \in Nat
<1>1. rows \in Tables /\ profile \in Profiles /\ peers \in [Peer -> PeerRow]
  BY DEF TypeOK, Tables, TableType
<1>2. QED BY <1>1, NewestIs DEF Revision, Dated

\* The revision is taken, and the reading begins.
LEMMA TakeRevisionStep ==
  ASSUME RepoInv, TakeRevision
  PROVE  RepoInv'
<1>1. /\ UNCHANGED <<now, rows, profile, peers, writes>>
      /\ stage' = "profile" /\ rev' = Revision /\ got' = <<>> /\ part' = 1 /\ offset' = 0
      /\ there' = Records(rows, profile) /\ ever' = Records(rows, profile)
      /\ shrunk' = {} /\ grown' = {} /\ sunk' = FALSE /\ silent' = FALSE
  BY DEF TakeRevision, tables
<1>2. Revision' = Revision /\ Records(rows, profile)' = Records(rows, profile) /\ Revision \in Nat
  <2>1. Revision \in Nat
    BY RevisionIs DEF RepoInv
  <2>2. QED BY <1>1, <2>1 DEF Revision, Records
<1>3. TypeOK'
  <2>1. got' \in Seq({"profile"} \X {0} \X Nat \cup Collection \X Key \X Nat)
    BY <1>1
  <2>2. part' \in 1 .. Len(Order)
    BY <1>1, OrderIs
  <2>3. QED BY <1>1, <1>2, <2>1, <2>2 DEF RepoInv, TypeOK
<1>4. Len(got') = 0 /\ ToSet(got') = {}
  BY <1>1 DEF ToSet
<1>5. Known' /\ InTurn'
  BY <1>1, <1>2, <1>4 DEF Known, InTurn
<1>6. Kept'
  BY <1>1 DEF Kept, Past, Reads
<1>7. Single'
  BY <1>4 DEF Single
<1>8. Dated'
  BY <1>1 DEF RepoInv, Dated
<1>9. Forward' /\ Telling'
  BY <1>1, <1>2 DEF Forward, Telling
<1>10. QED BY <1>3, <1>5, <1>6, <1>7, <1>8, <1>9 DEF RepoInv

\* The profile is read.
LEMMA ReadProfileStep ==
  ASSUME RepoInv, ReadProfile
  PROVE  RepoInv'
<1> DEFINE p == <<"profile", 0, profile.version>>
<1>1. /\ UNCHANGED <<now, rows, profile, peers, writes, part, offset, rev>>
      /\ UNCHANGED <<there, ever, shrunk, grown, sunk, silent>>
      /\ stage = "profile" /\ stage' = "pages" /\ got' = <<p>> /\ part = 1 /\ offset = 0
  BY DEF ReadProfile, tables, history, RepoInv, InTurn
<1>2. /\ p[1] = "profile" /\ p \in {"profile"} \X {0} \X Nat /\ p \in Records(rows, profile)
  BY DEF RepoInv, TypeOK, Profiles, Records
<1> HIDE DEF p
<1>3. Len(got') = 1 /\ got'[1] = p /\ ToSet(got') = {p}
      /\ got' \in Seq({"profile"} \X {0} \X Nat \cup Collection \X Key \X Nat)
  <2>1. Len(got') = 1 /\ got'[1] = p /\ DOMAIN got' = {1}
    BY <1>1
  <2>2. p \in {"profile"} \X {0} \X Nat \cup Collection \X Key \X Nat
    BY <1>2
  <2>3. got' \in Seq({"profile"} \X {0} \X Nat \cup Collection \X Key \X Nat)
    BY <1>1, <2>2
  <2>4. QED BY <2>1, <2>3 DEF ToSet
<1>4. TypeOK'
  <2>1. 0 % PageLimit = 0
    BY RepoAssumption
  <2>2. QED BY <1>1, <1>3, <2>1 DEF RepoInv, TypeOK
<1>5. Known'
  BY <1>1 DEF RepoInv, Known
<1>6. InTurn'
  BY <1>1, <1>2, <1>3, OrderIs DEF InTurn
<1>7. Kept'
  <2>1. SUFFICES ASSUME NEW r \in there, r[1] \notin shrunk
                 PROVE  /\ r[1] = "profile" => r = p
                        /\ \A q \in 1 .. Len(Order) : r[1] = Order[q] =>
                             /\ ~(q < 1)
                             /\ Reads(q)' => Place(rows[r[1]], r[2]) >= 0
    BY <1>1, <1>3 DEF Kept, Past, Reads
  <2>2. r \in Records(rows, profile)
    BY <1>1 DEF RepoInv, Known
  <2>3. r = p \/ \E c \in Collection : \E k \in Keys(rows[c]) : r = <<c, k, rows[c][k].version>>
    BY <2>2, RecordsAre DEF p
  <2>4. CASE r = p
    BY <2>4, <1>2, OrderIs
  <2>5. ASSUME NEW c \in Collection, NEW k \in Keys(rows[c]), r = <<c, k, rows[c][k].version>>
        PROVE  r[1] # "profile" /\ Place(rows[r[1]], r[2]) >= 0
    <3>1. rows[c] \in TableType
      BY DEF RepoInv, TypeOK, TableType
    <3>2. Place(rows[c], k) \in Nat
      BY <3>1, PlaceInTable
    <3>3. r[1] = c /\ r[2] = k
      BY <2>5
    <3>4. QED BY <3>2, <3>3, OrderIs
  <2>6. \A q \in 1 .. Len(Order) : ~(q < 1)
    BY OrderIs
  <2>7. QED BY <2>3, <2>4, <2>5, <2>6, <1>2, OrderIs
<1>8. Single'
  <2>1. p \in ever
    BY <1>1, <1>2 DEF RepoInv, Known
  <2>2. p[1] # Order[part']
    BY <1>1, <1>2, OrderIs
  <2>3. QED BY <1>1, <1>3, <2>1, <2>2 DEF Single
<1>9. Dated'
  BY <1>1 DEF RepoInv, Dated
<1>10. Forward' /\ Telling'
  BY <1>1 DEF RepoInv, Forward, Telling, Revision, Records
<1>11. QED BY <1>4, <1>5, <1>6, <1>7, <1>8, <1>9, <1>10 DEF RepoInv

\* A page is read: what it adds, and where the reading is then.
LEMMA PageAdds ==
  ASSUME RepoInv, ReadPage
  PROVE  \E new, last :
           /\ stage = "pages" /\ got' = got \o new /\ last \in BOOLEAN
           /\ new \in Seq(Collection \X Key \X Nat)
           /\ \A i \in 1 .. Len(new) :
                /\ new[i] = <<Order[part], new[i][2], rows[Order[part]][new[i][2]].version>>
                /\ new[i][2] \in Keys(rows[Order[part]])
                /\ Place(rows[Order[part]], new[i][2]) = offset + i - 1 /\ i <= PageLimit
           /\ \A k \in Keys(rows[Order[part]]) :
                offset <= Place(rows[Order[part]], k)
                /\ Place(rows[Order[part]], k) < offset + PageLimit =>
                  \E i \in 1 .. Len(new) :
                    new[i] = <<Order[part], k, rows[Order[part]][k].version>>
           /\ last => \A k \in Keys(rows[Order[part]]) :
                        Place(rows[Order[part]], k) < offset + PageLimit
           /\ ~last => offset' = offset + PageLimit /\ part' = part /\ stage' = "pages"
           /\ last => /\ offset' = 0
                      /\ part = 4 => stage' = "done" /\ part' = part
                      /\ part # 4 => stage' = "pages" /\ part' = part + 1
           /\ UNCHANGED <<now, rows, profile, peers, writes, rev>>
           /\ UNCHANGED <<there, ever, shrunk, grown, sunk, silent>>
<1> DEFINE c == Order[part]
           table == rows[c]
           taken == Slice(Page, 0, PageLimit)
           new == Taken(taken)
           last == Len(Page) <= PageLimit
<1>1. /\ stage = "pages" /\ got' = got \o new /\ Advance(last)
      /\ UNCHANGED <<now, rows, profile, peers, writes, rev>>
      /\ UNCHANGED <<there, ever, shrunk, grown, sunk, silent>>
  BY DEF ReadPage, tables, history
<1>2. /\ part \in 1 .. Len(Order) /\ offset \in Nat /\ rows \in [Collection -> TableType]
  BY DEF RepoInv, TypeOK, TableType
<1>3. c \in Collection /\ table \in TableType
  BY <1>2, OrderIs
<1>4. Page = Slice(InOrder(table), offset, PageLimit + 1)
  BY DEF Page
<1>5. /\ taken \in Seq(Keys(table))
      /\ \A i \in 1 .. Len(taken) : Place(table, taken[i]) = offset + i - 1 /\ i <= PageLimit
      /\ \A k \in Keys(table) :
           offset <= Place(table, k) /\ Place(table, k) < offset + PageLimit =>
             \E i \in 1 .. Len(taken) : taken[i] = k
      /\ last => \A k \in Keys(table) : Place(table, k) < offset + PageLimit
  <2> HIDE DEF c, table
  <2>1. QED BY <1>2, <1>3, <1>4, PageHas
<1>6. new = [i \in 1 .. Len(taken) |-> <<c, taken[i], table[taken[i]].version>>]
  BY DEF Taken
<1>7. ~last => offset' = offset + PageLimit /\ part' = part /\ stage' = "pages"
  BY <1>1 DEF Advance
<1>8. last => /\ offset' = 0
              /\ part = 4 => stage' = "done" /\ part' = part
              /\ part # 4 => stage' = "pages" /\ part' = part + 1
  BY <1>1, OrderIs DEF Advance
<1> HIDE DEF taken, new, last
<1>9. Len(taken) \in Nat /\ \A i \in 1 .. Len(taken) : taken[i] \in Keys(table)
  BY <1>5, LenProperties, ElementOfSeq
<1>10. \A k \in Keys(table) : k \in Key /\ table[k].version \in Nat
  BY <1>3 DEF TableType, Row, Keys
<1>11. \A i \in 1 .. Len(taken) : <<c, taken[i], table[taken[i]].version>> \in Collection \X Key \X Nat
  BY <1>3, <1>9, <1>10
<1>12. new \in Seq(Collection \X Key \X Nat) /\ Len(new) = Len(taken)
  BY <1>6, <1>9, <1>11, IsASeq, LenProperties
<1>13. \A i \in 1 .. Len(new) :
         new[i] = <<c, taken[i], table[taken[i]].version>> /\ new[i][2] = taken[i]
  BY <1>6, <1>12
<1>14. \A i \in 1 .. Len(new) :
         /\ new[i] = <<c, new[i][2], table[new[i][2]].version>> /\ new[i][2] \in Keys(table)
         /\ Place(table, new[i][2]) = offset + i - 1 /\ i <= PageLimit
  BY <1>5, <1>9, <1>12, <1>13
<1>15. ASSUME NEW k \in Keys(table), offset <= Place(table, k),
              Place(table, k) < offset + PageLimit
       PROVE  \E i \in 1 .. Len(new) : new[i] = <<c, k, table[k].version>>
  <2>1. PICK i \in 1 .. Len(taken) : taken[i] = k
    BY <1>5, <1>15
  <2>2. i \in 1 .. Len(new) /\ new[i] = <<c, k, table[k].version>>
    BY <2>1, <1>12, <1>13
  <2>3. QED BY <2>2
<1>16. last \in BOOLEAN
  BY DEF last
<1>17. QED BY <1>1, <1>5, <1>7, <1>8, <1>12, <1>14, <1>15, <1>16

\* What a longer list has at its indices.
LEMMA LongerHas ==
  ASSUME NEW S, NEW old \in Seq(S), NEW new \in Seq(S)
  PROVE  /\ old \o new \in Seq(S) /\ Len(old \o new) = Len(old) + Len(new)
         /\ Len(old) \in Nat /\ Len(new) \in Nat
         /\ \A i \in 1 .. Len(old) : i \in 1 .. Len(old \o new) /\ (old \o new)[i] = old[i]
         /\ \A i \in 1 .. Len(new) :
              Len(old) + i \in 1 .. Len(old \o new) /\ (old \o new)[Len(old) + i] = new[i]
         /\ \A i \in 1 .. Len(old \o new) :
              \/ i \in 1 .. Len(old)
              \/ i > Len(old) /\ i - Len(old) \in 1 .. Len(new)
                 /\ (old \o new)[i] = new[i - Len(old)]
         /\ ToSet(old \o new) = ToSet(old) \cup ToSet(new)
<1>1. Len(old) \in Nat /\ Len(new) \in Nat
  BY LenProperties
<1>2. /\ old \o new \in Seq(S) /\ Len(old \o new) = Len(old) + Len(new)
      /\ \A i \in 1 .. Len(old) + Len(new) :
           (old \o new)[i] = IF i <= Len(old) THEN old[i] ELSE new[i - Len(old)]
  BY ConcatProperties
<1>3. \A i \in 1 .. Len(old) : i \in 1 .. Len(old \o new) /\ (old \o new)[i] = old[i]
  BY <1>1, <1>2
<1>4. \A i \in 1 .. Len(new) :
        Len(old) + i \in 1 .. Len(old \o new) /\ (old \o new)[Len(old) + i] = new[i]
  <2>1. ASSUME NEW i \in 1 .. Len(new)
        PROVE  Len(old) + i \in 1 .. Len(old \o new) /\ (old \o new)[Len(old) + i] = new[i]
    <3>1. Len(old) + i \in 1 .. Len(old) + Len(new) /\ ~(Len(old) + i <= Len(old))
          /\ Len(old) + i - Len(old) = i
      BY <1>1
    <3>2. QED BY <1>2, <3>1
  <2>2. QED BY <2>1
<1>5. \A i \in 1 .. Len(old \o new) :
        \/ i \in 1 .. Len(old)
        \/ i > Len(old) /\ i - Len(old) \in 1 .. Len(new) /\ (old \o new)[i] = new[i - Len(old)]
  BY <1>1, <1>2
<1>6. /\ DOMAIN old = 1 .. Len(old) /\ DOMAIN new = 1 .. Len(new)
      /\ DOMAIN (old \o new) = 1 .. Len(old \o new)
  BY <1>2, LenProperties
<1>7. ToSet(old \o new) = ToSet(old) \cup ToSet(new)
  <2>1. /\ \A x : x \in ToSet(old) <=> \E i \in 1 .. Len(old) : x = old[i]
        /\ \A x : x \in ToSet(new) <=> \E i \in 1 .. Len(new) : x = new[i]
        /\ \A x : x \in ToSet(old \o new) <=> \E i \in 1 .. Len(old \o new) : x = (old \o new)[i]
    BY <1>6 DEF ToSet
  <2>2. ASSUME NEW x \in ToSet(old) PROVE x \in ToSet(old \o new)
    BY <2>1, <1>3
  <2>3. ASSUME NEW x \in ToSet(new) PROVE x \in ToSet(old \o new)
    BY <2>1, <1>4
  <2>4. ASSUME NEW x \in ToSet(old \o new) PROVE x \in ToSet(old) \/ x \in ToSet(new)
    <3>1. PICK i \in 1 .. Len(old \o new) : x = (old \o new)[i]
      BY <2>1
    <3>2. CASE i \in 1 .. Len(old)
      BY <3>1, <3>2, <2>1, <1>3
    <3>3. CASE i - Len(old) \in 1 .. Len(new) /\ (old \o new)[i] = new[i - Len(old)]
      BY <3>1, <3>3, <2>1
    <3>4. QED BY <1>5, <3>2, <3>3
  <2>5. QED BY <2>2, <2>3, <2>4
<1>8. QED BY <1>1, <1>2, <1>3, <1>4, <1>5, <1>7

\* A page is read.
LEMMA ReadPageStep ==
  ASSUME RepoInv, ReadPage
  PROVE  RepoInv'
<1> DEFINE c == Order[part]
           table == rows[c]
           R == {"profile"} \X {0} \X Nat \cup Collection \X Key \X Nat
<1>1. PICK new, last :
        /\ stage = "pages" /\ got' = got \o new /\ last \in BOOLEAN
        /\ new \in Seq(Collection \X Key \X Nat)
        /\ \A i \in 1 .. Len(new) :
             /\ new[i] = <<c, new[i][2], table[new[i][2]].version>> /\ new[i][2] \in Keys(table)
             /\ Place(table, new[i][2]) = offset + i - 1 /\ i <= PageLimit
        /\ \A k \in Keys(table) :
             offset <= Place(table, k) /\ Place(table, k) < offset + PageLimit =>
               \E i \in 1 .. Len(new) : new[i] = <<c, k, table[k].version>>
        /\ last => \A k \in Keys(table) : Place(table, k) < offset + PageLimit
        /\ ~last => offset' = offset + PageLimit /\ part' = part /\ stage' = "pages"
        /\ last => /\ offset' = 0
                   /\ part = 4 => stage' = "done" /\ part' = part
                   /\ part # 4 => stage' = "pages" /\ part' = part + 1
        /\ UNCHANGED <<now, rows, profile, peers, writes, rev>>
        /\ UNCHANGED <<there, ever, shrunk, grown, sunk, silent>>
  BY PageAdds
<1>2. /\ part \in 1 .. 4 /\ offset \in Nat /\ rows \in [Collection -> TableType]
      /\ PageLimit \in Nat /\ PageLimit > 0 /\ got \in Seq(R)
  BY OrderIs, RepoAssumption DEF RepoInv, TypeOK, TableType
<1>3. c \in Collection /\ table \in TableType /\ c # "profile"
  BY <1>2, OrderIs
<1>4. \A k \in Keys(table) : Place(table, k) \in Nat
  BY <1>3, PlaceInTable
<1>5. /\ got' \in Seq(R) /\ Len(got') = Len(got) + Len(new)
      /\ Len(got) \in Nat /\ Len(new) \in Nat
      /\ \A i \in 1 .. Len(got) : i \in 1 .. Len(got') /\ got'[i] = got[i]
      /\ \A i \in 1 .. Len(new) : Len(got) + i \in 1 .. Len(got') /\ got'[Len(got) + i] = new[i]
      /\ \A i \in 1 .. Len(got') :
           \/ i \in 1 .. Len(got)
           \/ i > Len(got) /\ i - Len(got) \in 1 .. Len(new) /\ got'[i] = new[i - Len(got)]
      /\ ToSet(got') = ToSet(got) \cup ToSet(new)
  <2> HIDE DEF c, table
  <2>1. new \in Seq(R)
    BY <1>1
  <2> HIDE DEF R
  <2>2. QED BY <1>1, <1>2, <2>1, LongerHas
<1>6. /\ \A i \in 1 .. Len(new) : new[i] \in ToSet(new)
      /\ \A x \in ToSet(new) : \E i \in 1 .. Len(new) : x = new[i]
  <2>1. DOMAIN new = 1 .. Len(new)
    BY <1>1, LenProperties
  <2>2. QED BY <2>1 DEF ToSet
<1>7. \A i \in 1 .. Len(new) : new[i][1] = c
  BY <1>1
<1>8. \A q \in 1 .. 4 : Order[q] = c <=> q = part
  BY <1>2, OrderIs
<1>9. \A q \in 1 .. 4 : /\ Past(q) <=> q < part
                        /\ Past(q)' <=> q < part \/ (last /\ q = part)
                        /\ Reads(q) <=> q = part
                        /\ Reads(q)' <=> (~last /\ q = part) \/ (last /\ part # 4 /\ q = part + 1)
  <2>1. CASE ~last
    BY <1>1, <1>2, <2>1 DEF Past, Reads
  <2>2. CASE last /\ part = 4
    BY <1>1, <1>2, <2>2 DEF Past, Reads
  <2>3. CASE last /\ part # 4
    BY <1>1, <1>2, <2>3 DEF Past, Reads
  <2>4. QED BY <1>1, <2>1, <2>2, <2>3
<1> HIDE DEF c, table, R
<1>10. TypeOK'
  <2>1. /\ part' \in 1 .. 4 /\ offset' \in Nat
        /\ stage' = "pages" => offset' % PageLimit = 0
    <3>1. CASE ~last
      <4>1. offset % PageLimit = 0
        BY <1>1 DEF RepoInv, TypeOK
      <4>2. (offset + PageLimit) % PageLimit = 0 /\ offset + PageLimit \in Nat
        BY <1>2, <4>1, NextPage
      <4>3. QED BY <1>1, <1>2, <3>1, <4>2
    <3>2. CASE last
      <4>1. 0 % PageLimit = 0
        BY <1>2
      <4>2. QED BY <1>1, <1>2, <3>2, <4>1
    <3>3. QED BY <1>1, <3>1, <3>2
  <2>2. stage' \in {"pages", "done"}
    BY <1>1
  <2>3. QED BY <1>1, <1>5, <2>1, <2>2, OrderIs DEF RepoInv, TypeOK, R
<1>11. Known'
  BY <1>1 DEF RepoInv, Known
<1>12. InTurn'
  <2>1. stage' \in {"pages", "done"}
    BY <1>1
  <2>2. ASSUME NEW i \in 1 .. Len(got'), got'[i][1] = "profile" PROVE i = 1
    BY <2>2, <1>3, <1>5, <1>7 DEF RepoInv, InTurn
  <2>3. ASSUME NEW i \in 1 .. Len(got'), NEW q \in 1 .. 4, got'[i][1] = Order[q]
        PROVE  Past(q)' \/ Reads(q)'
    <3>1. q <= part
      <4>1. CASE i \in 1 .. Len(got)
        <5>1. got[i][1] = Order[q]
          BY <2>3, <4>1, <1>5
        <5>2. Past(q) \/ Reads(q)
          BY <5>1, <4>1, OrderIs DEF RepoInv, InTurn
        <5>3. QED BY <5>2, <1>2, <1>9
      <4>2. CASE i - Len(got) \in 1 .. Len(new) /\ got'[i] = new[i - Len(got)]
        <5>1. q = part
          BY <2>3, <4>2, <1>7, <1>8
        <5>2. QED BY <5>1, <1>2
      <4>3. QED BY <1>5, <4>1, <4>2
    <3>2. QED BY <3>1, <1>1, <1>2, <1>9
  <2>4. QED BY <2>1, <2>2, <2>3, OrderIs DEF InTurn
<1>13. ASSUME NEW r \in there, r[1] \notin shrunk, r[1] = c, r \notin ToSet(got')
       PROVE  /\ r[2] \in Keys(table) /\ Place(table, r[2]) >= offset + PageLimit
  <2>1. r \in Records(rows, profile) /\ r \notin ToSet(got)
    BY <1>1, <1>5, <1>13 DEF RepoInv, Known
  <2>2. PICK k \in Keys(table) : r = <<c, k, table[k].version>>
    BY <2>1, <1>3, <1>13, RecordsAre DEF table
  <2>3. Place(rows[r[1]], r[2]) >= offset
    BY <1>2, <1>8, <1>9, <1>13, <2>1, OrderIs DEF RepoInv, Kept
  <2>4. r[2] = k /\ Place(table, k) >= offset
    BY <2>2, <2>3, <1>13 DEF table
  <2>5. ~(Place(table, k) < offset + PageLimit)
    <3>1. SUFFICES ASSUME Place(table, k) < offset + PageLimit PROVE FALSE
      OBVIOUS
    <3>2. offset <= Place(table, k)
      BY <2>4, <1>2, <1>4
    <3>3. PICK i \in 1 .. Len(new) : new[i] = <<c, k, table[k].version>>
      BY <1>1, <3>1, <3>2
    <3>4. r \in ToSet(new)
      BY <3>3, <2>2, <1>6
    <3>5. QED BY <3>4, <1>5, <1>13
  <2>6. QED BY <2>2, <2>4, <2>5, <1>2, <1>4
<1>14. Kept'
  <2>1. SUFFICES ASSUME NEW r \in there, r[1] \notin shrunk
                 PROVE  /\ r[1] = "profile" => r \in ToSet(got')
                        /\ \A q \in 1 .. 4 : r[1] = Order[q] =>
                             /\ Past(q)' => r \in ToSet(got')
                             /\ Reads(q)' => r \in ToSet(got') \/ Place(rows[r[1]], r[2]) >= offset'
    BY <1>1, OrderIs DEF Kept
  <2>2. r[1] = "profile" => r \in ToSet(got')
    BY <2>1, <1>1, <1>5 DEF RepoInv, Kept
  <2>3. ASSUME NEW q \in 1 .. 4, r[1] = Order[q], Past(q)' PROVE r \in ToSet(got')
    <3>1. CASE q < part
      BY <2>1, <2>3, <3>1, <1>5, <1>9, OrderIs DEF RepoInv, Kept
    <3>2. CASE last /\ q = part
      <4>1. SUFFICES ASSUME r \notin ToSet(got') PROVE FALSE
        OBVIOUS
      <4>2. r[2] \in Keys(table) /\ Place(table, r[2]) >= offset + PageLimit
        BY <2>1, <2>3, <3>2, <4>1, <1>8, <1>13
      <4>3. Place(table, r[2]) < offset + PageLimit
        BY <1>1, <3>2, <4>2
      <4>4. QED BY <4>2, <4>3, <1>2, <1>4
    <3>3. QED BY <2>3, <3>1, <3>2, <1>9
  <2>4. ASSUME NEW q \in 1 .. 4, r[1] = Order[q], Reads(q)', r \notin ToSet(got')
        PROVE  Place(rows[r[1]], r[2]) >= offset'
    <3>1. CASE ~last /\ q = part
      BY <2>1, <2>4, <3>1, <1>1, <1>8, <1>13 DEF table
    <3>2. CASE last /\ q = part + 1
      <4>1. r \in Records(rows, profile)
        BY <2>1, <1>1 DEF RepoInv, Known
      <4>2. r[1] # "profile"
        BY <2>4, OrderIs
      <4>3. PICK d \in Collection : \E k \in Keys(rows[d]) : r = <<d, k, rows[d][k].version>>
        BY <4>1, <4>2, RecordsAre
      <4>4. rows[d] \in TableType /\ r[1] = d /\ r[2] \in Keys(rows[d])
        BY <4>3, <1>2
      <4>5. Place(rows[r[1]], r[2]) \in Nat
        BY <4>4, PlaceInTable
      <4>6. QED BY <4>5, <3>2, <1>1
    <3>3. QED BY <2>4, <3>1, <3>2, <1>9
  <2>5. QED BY <2>2, <2>3, <2>4
<1>15. ASSUME NEW i \in 1 .. Len(got), NEW j \in 1 .. Len(new),
              got[i][1] = c, got[i][2] = new[j][2]
       PROVE  c \in grown
  <2>1. SUFFICES ASSUME c \notin grown PROVE FALSE
    OBVIOUS
  <2>2. new[j][2] \in Keys(table) /\ Place(table, new[j][2]) = offset + j - 1
    BY <1>1
  <2>3. Place(rows[got[i][1]], got[i][2]) < offset
    BY <2>1, <2>2, <1>1, <1>15 DEF RepoInv, Single, c, table
  <2>4. Place(table, new[j][2]) < offset
    BY <2>3, <1>15 DEF table
  <2>5. offset + j - 1 < offset
    BY <2>2, <2>4
  <2>6. QED BY <2>5, <1>2
<1>16. Single'
  <2>1. ToSet(got') \subseteq ever
    <3>1. ASSUME NEW x \in ToSet(new) PROVE x \in ever
      <4>1. PICK i \in 1 .. Len(new) : x = new[i]
        BY <1>6
      <4>2. x = <<c, new[i][2], table[new[i][2]].version>> /\ new[i][2] \in Keys(table)
        BY <4>1, <1>1
      <4>3. x \in Records(rows, profile)
        BY <4>2, <1>3, RecordsAre DEF table
      <4>4. QED BY <4>3, <1>1 DEF RepoInv, Known
    <3>2. QED BY <3>1, <1>5 DEF RepoInv, Single
  <2>2. ASSUME NEW i \in 1 .. Len(got'), NEW j \in 1 .. Len(got'), i # j,
               got'[i][1] = got'[j][1], got'[i][2] = got'[j][2]
        PROVE  got'[i][1] \in grown
    <3>1. CASE i \in 1 .. Len(got) /\ j \in 1 .. Len(got)
      <4>1. got'[i] = got[i] /\ got'[j] = got[j]
        BY <3>1, <1>5
      <4>2. QED BY <2>2, <3>1, <4>1 DEF RepoInv, Single
    <3>2. CASE /\ i \in 1 .. Len(got)
               /\ j - Len(got) \in 1 .. Len(new) /\ got'[j] = new[j - Len(got)]
      <4>1. got'[i] = got[i] /\ got'[j][1] = c
        BY <3>2, <1>5, <1>7
      <4>2. QED BY <2>2, <3>2, <4>1, <1>15
    <3>3. CASE /\ j \in 1 .. Len(got)
               /\ i - Len(got) \in 1 .. Len(new) /\ got'[i] = new[i - Len(got)]
      <4>1. got'[j] = got[j] /\ got'[i][1] = c
        BY <3>3, <1>5, <1>7
      <4>2. QED BY <2>2, <3>3, <4>1, <1>15
    <3>4. CASE /\ i - Len(got) \in 1 .. Len(new) /\ got'[i] = new[i - Len(got)]
               /\ j - Len(got) \in 1 .. Len(new) /\ got'[j] = new[j - Len(got)]
      <4>1. /\ Place(table, got'[i][2]) = offset + (i - Len(got)) - 1
            /\ Place(table, got'[j][2]) = offset + (j - Len(got)) - 1
        BY <3>4, <1>1
      <4>2. offset + (i - Len(got)) - 1 = offset + (j - Len(got)) - 1
        BY <4>1, <2>2
      <4>3. QED BY <4>2, <2>2, <1>2, <1>5
    <3>5. QED BY <1>5, <3>1, <3>2, <3>3, <3>4
  <2>3. ASSUME NEW i \in 1 .. Len(got'), stage' = "pages", got'[i][1] = Order[part'],
               got'[i][1] \notin grown, got'[i][2] \in Keys(rows[got'[i][1]])
        PROVE  Place(rows[got'[i][1]], got'[i][2]) < offset'
    <3>1. ~last
      <4>1. SUFFICES ASSUME last PROVE FALSE
        OBVIOUS
      <4>2. part # 4 /\ part' = part + 1 /\ part + 1 \in 1 .. 4
        BY <4>1, <2>3, <1>1, <1>2
      <4>3. CASE i \in 1 .. Len(got)
        <5>1. got[i][1] = Order[part + 1]
          BY <4>2, <4>3, <2>3, <1>5
        <5>2. Past(part + 1) \/ Reads(part + 1)
          BY <4>2, <4>3, <5>1, OrderIs DEF RepoInv, InTurn
        <5>3. QED BY <5>2, <4>2, <1>2, <1>9
      <4>4. CASE i - Len(got) \in 1 .. Len(new) /\ got'[i] = new[i - Len(got)]
        <5>1. Order[part + 1] = c
          BY <4>2, <4>4, <2>3, <1>7
        <5>2. QED BY <5>1, <4>2, <1>2, <1>8
      <4>5. QED BY <1>5, <4>3, <4>4
    <3>2. part' = part /\ offset' = offset + PageLimit
      BY <3>1, <1>1
    <3>3. got'[i][1] = c /\ got'[i][2] \in Keys(table)
      BY <3>2, <2>3 DEF c, table
    <3>4. CASE i \in 1 .. Len(got)
      <4>1. got'[i] = got[i]
        BY <3>4, <1>5
      <4>2. Place(rows[got[i][1]], got[i][2]) < offset
        BY <4>1, <3>2, <3>4, <2>3, <1>1 DEF RepoInv, Single
      <4>3. Place(table, got'[i][2]) < offset
        BY <4>1, <4>2, <3>3 DEF table
      <4>4. Place(table, got'[i][2]) < offset + PageLimit
        BY <4>3, <3>3, <1>2, <1>4
      <4>5. QED BY <4>4, <3>2, <3>3 DEF table
    <3>5. CASE i - Len(got) \in 1 .. Len(new) /\ got'[i] = new[i - Len(got)]
      <4>1. Place(table, got'[i][2]) = offset + (i - Len(got)) - 1 /\ i - Len(got) <= PageLimit
        BY <3>5, <1>1
      <4>2. Place(table, got'[i][2]) < offset + PageLimit
        BY <4>1, <1>2, <1>5
      <4>3. QED BY <4>2, <3>2, <3>3 DEF table
    <3>6. QED BY <1>5, <3>4, <3>5
  <2>4. QED BY <1>1, <2>1, <2>2, <2>3 DEF Single
<1>17. Dated'
  BY <1>1 DEF RepoInv, Dated
<1>18. Forward' /\ Telling'
  <2>1. stage' # "idle" /\ stage # "idle"
    BY <1>1
  <2>2. Revision' = Revision /\ Records(rows, profile)' = Records(rows, profile)
    BY <1>1 DEF Revision, Records
  <2>3. QED BY <1>1, <2>1, <2>2 DEF RepoInv, Forward, Telling
<1>19. QED BY <1>10, <1>11, <1>12, <1>14, <1>16, <1>17, <1>18 DEF RepoInv

-----------------------------------------------------------------------------
(* The theorems.                                                           *)

\* Init.
LEMMA RepoInvInit == Init => RepoInv
<1> SUFFICES ASSUME Init PROVE RepoInv
  OBVIOUS
<1>1. /\ now = 0 /\ profile = [stamp |-> 0, version |-> 1] /\ writes = 1
      /\ stage = "idle" /\ part = 1 /\ offset = 0 /\ rev = 0 /\ got = <<>>
      /\ there = {} /\ ever = {} /\ shrunk = {} /\ grown = {} /\ sunk = FALSE /\ silent = FALSE
  BY DEF Init
<1>2. /\ rows \in [Collection -> TableType]
      /\ \A c \in Collection, k \in Key :
           /\ rows[c][k].stamp = 0
           /\ Here(rows[c], k) \/ rows[c][k] = NoRow
  BY DEF Init, TableType, Row, NoRow, Here
<1>11. peers \in [Peer -> PeerRow] /\ \A q \in Peer : peers[q].stamp <= Iso(0) /\ Iso(0) \in Nat
  <2>1. Iso(0) \in Nat
    BY SqliteForward
  <2>2. peers \in [Peer -> {NoPeer, [status |-> "pending", stamp |-> Iso(0)]}]
    BY DEF Init
  <2>3. QED BY <2>1, <2>2 DEF PeerRow, NoPeer
<1>3. TypeOK
  <2>1. rows \in [Collection -> [Key -> Row]] /\ profile \in Profiles
        /\ peers \in [Peer -> PeerRow]
    BY <1>1, <1>2, <1>11 DEF TableType, Profiles
  <2>2. got \in Seq({"profile"} \X {0} \X Nat \cup Collection \X Key \X Nat)
    BY <1>1
  <2>3. part \in 1 .. Len(Order) /\ stage # "pages" /\ stage \in {"idle", "profile", "pages", "done"}
    BY <1>1, OrderIs
  <2>4. now \in Nat /\ offset \in Nat /\ rev \in Nat /\ writes \in Nat
        /\ sunk \in BOOLEAN /\ silent \in BOOLEAN
    BY <1>1
  <2>5. QED BY <1>2, <2>1, <2>2, <2>3, <2>4 DEF TypeOK
<1>4. Known /\ Kept /\ Telling
  BY <1>1 DEF Known, Kept, Telling
<1>5. Len(got) = 0 /\ ToSet(got) = {}
  BY <1>1 DEF ToSet
<1>6. InTurn /\ Single
  BY <1>1, <1>5 DEF InTurn, Single
<1>7. \A s \in Stamps(rows, profile) : s = 0
  BY <1>1, <1>2 DEF Stamps, Keys
<1>8. Dated
  <2>1. Sqlite(now) \in Nat
    BY <1>1, SqliteForward
  <2>2. \A k \in Keys(rows["post"]) : rows["post"][k].stamp = 0
    BY <1>2, OrderIs DEF Keys
  <2>3. \A s \in Dates(rows, profile, peers) : s <= Iso(0)
    BY <1>7, <1>11, SqliteForward DEF Dates
  <2>4. Iso(0) \in Nat
    BY SqliteForward
  <2>5. QED BY <1>1, <2>1, <2>2, <2>3, <2>4 DEF Dated
<1>9. Forward
  <2>1. Revision \in Nat
    BY <1>3, <1>8, RevisionIs
  <2>2. QED BY <1>1, <2>1 DEF Forward
<1>10. QED BY <1>3, <1>4, <1>6, <1>8, <1>9 DEF RepoInv

\* A change of the tables.
LEMMA WriteStep ==
  ASSUME RepoInv, Write
  PROVE  RepoInv'
<1>1. PICK rs, pr, stamps : Change(rs, pr, stamps) /\ Sound(rs, pr, stamps)
  BY WriteIsSound DEF RepoInv
<1>2. TypeOK'
  BY <1>1, ChangeTypes DEF RepoInv
<1>3. Known' /\ InTurn'
  BY <1>1, ChangeReading DEF RepoInv
<1>4. Kept'
  BY <1>1, ChangeKept DEF RepoInv
<1>5. Single'
  BY <1>1, ChangeSingle DEF RepoInv
<1>6. Dated' /\ Forward' /\ Telling'
  BY <1>1, ChangeDates DEF RepoInv
<1>7. QED BY <1>2, <1>3, <1>4, <1>5, <1>6 DEF RepoInv

\* A follow of an ActivityPub actor: the records stay, and the newest date is only
\* taken back if the history notes it.
LEMMA PeerStep ==
  ASSUME RepoInv, NEW p \in Peer, NEW status \in {"none", "pending", "accepted"},
         NEW stamp \in Nat, SetPeer(p, status, stamp)
  PROVE  RepoInv'
<1> DEFINE back == /\ peers[p].status # "none"
                   /\ status = "none" \/ stamp < peers[p].stamp
<1>1. /\ UNCHANGED <<now, rows, profile, stage, part, offset, rev, got>>
      /\ UNCHANGED <<there, ever, shrunk, grown>> /\ writes' = writes + 1
      /\ peers' = [peers EXCEPT ![p] = [status |-> status, stamp |-> stamp]]
      /\ sunk' = (sunk \/ back) /\ silent' = (silent \/ back)
  BY DEF SetPeer, reading
<1> HIDE DEF back
<1>2. /\ rows \in Tables /\ profile \in Profiles /\ peers \in [Peer -> PeerRow]
      /\ rev \in Nat
  BY DEF RepoInv, TypeOK, Tables, TableType
<1>3. /\ peers' \in [Peer -> PeerRow] /\ peers'[p] = [status |-> status, stamp |-> stamp]
      /\ \A q \in Peer \ {p} : peers'[q] = peers[q]
  BY <1>1, <1>2 DEF PeerRow
<1>4. TypeOK'
  <2>1. sunk' \in BOOLEAN /\ silent' \in BOOLEAN /\ writes' \in Nat
    BY <1>1 DEF RepoInv, TypeOK, back
  <2>2. QED BY <1>1, <1>3, <2>1 DEF RepoInv, TypeOK
<1>5. Known' /\ InTurn'
  BY <1>1 DEF RepoInv, Known, InTurn, Past, Reads
<1>6. Kept' /\ Single'
  BY <1>1 DEF RepoInv, Kept, Single, Past, Reads
<1>7. PICK bound \in Nat : \A s \in Dates(rows, profile, peers) : s <= bound
  BY DEF RepoInv, Dated
<1>8. Revision \in Nat /\ Revision \in Dates(rows, profile, peers)
  BY <1>2, <1>7, NewestIs DEF Revision
<1>9. \A s \in Dates(rows, profile, peers') : s = stamp \/ s \in Dates(rows, profile, peers)
  BY <1>3 DEF Dates
<1>10. \E most \in Nat : \A s \in Dates(rows, profile, peers') : s <= most
  <2>1. \A s \in Dates(rows, profile, peers) : s \in Nat
    BY <1>2, <1>7, NewestIs
  <2>2. bound + stamp \in Nat /\ bound <= bound + stamp /\ stamp <= bound + stamp
    OBVIOUS
  <2>3. \A s \in Dates(rows, profile, peers') : s <= bound + stamp
    BY <1>7, <1>9, <2>1, <2>2
  <2>4. QED BY <2>2, <2>3
<1>11. Dated'
  BY <1>1, <1>10 DEF RepoInv, Dated
<1>12. Revision' \in Nat /\ \A s \in Dates(rows, profile, peers') : s <= Revision'
  <2>1. Revision' = Max(Dates(rows, profile, peers'))
    BY <1>1 DEF Revision
  <2>2. QED BY <1>2, <1>3, <1>10, <2>1, NewestIs
<1>13. ASSUME ~back PROVE Revision <= Revision'
  <2>1. CASE Revision \in Dates(rows, profile, peers')
    BY <2>1, <1>12
  <2>2. CASE peers[p].status # "none" /\ Revision = peers[p].stamp
    <3>1. status # "none" /\ ~(stamp < peers[p].stamp)
      BY <1>13, <2>2 DEF back
    <3>2. stamp \in Dates(rows, profile, peers')
      BY <1>3, <3>1 DEF Dates
    <3>3. stamp <= Revision'
      BY <1>12, <3>2
    <3>4. QED BY <1>8, <1>12, <2>2, <3>1, <3>3
  <2>3. QED BY <1>3, <1>8, <2>1, <2>2 DEF Dates
<1>14. Forward'
  <2>1. SUFFICES ASSUME ~sunk' PROVE rev <= Revision'
    BY <1>1 DEF Forward
  <2>2. ~sunk /\ ~back
    BY <1>1, <2>1
  <2>3. rev <= Revision /\ Revision <= Revision'
    BY <1>13, <2>2 DEF RepoInv, Forward
  <2>4. QED BY <1>2, <1>8, <1>12, <2>3
<1>15. Telling'
  <2>1. Records(rows, profile)' = Records(rows, profile)
    BY <1>1 DEF Records
  <2>2. SUFFICES ASSUME stage # "idle", ~silent'
                 PROVE  \/ rev < Revision'
                        \/ /\ rev = Revision' /\ there = Records(rows, profile)
                           /\ ever = there /\ shrunk = {}
    BY <1>1, <2>1 DEF Telling
  <2>3. ~silent /\ ~back
    BY <1>1, <2>2
  <2>4. /\ Revision <= Revision'
        /\ \/ rev < Revision
           \/ rev = Revision /\ there = Records(rows, profile) /\ ever = there /\ shrunk = {}
    BY <1>13, <2>2, <2>3 DEF RepoInv, Telling
  <2>5. QED BY <1>2, <1>8, <1>12, <2>4
<1>16. QED BY <1>4, <1>5, <1>6, <1>11, <1>14, <1>15 DEF RepoInv

\* Each of the three is one.
LEMMA PeerIs ==
  ASSUME RepoInv, NEW p \in Peer, FollowPeer(p) \/ PeerAccepts(p) \/ EndPeer(p)
  PROVE  \E status \in {"none", "pending", "accepted"}, stamp \in Nat : SetPeer(p, status, stamp)
<1>1. now \in Nat
  BY DEF RepoInv, TypeOK
<1>2. Sqlite(now) \in Nat /\ Iso(now) \in Nat
  BY <1>1, SqliteForward
<1>3. QED BY <1>2 DEF FollowPeer, PeerAccepts, EndPeer

\* A stutter.
LEMMA StutterStep ==
  ASSUME RepoInv, UNCHANGED vars
  PROVE  RepoInv'
<1>1. /\ UNCHANGED <<now, rows, profile, peers, writes, stage, part, offset, rev, got>>
      /\ UNCHANGED <<there, ever, shrunk, grown, sunk, silent>>
  BY DEF vars, tables, reading, history
<1>2. TypeOK' /\ Dated'
  BY <1>1 DEF RepoInv, TypeOK, Dated
<1>3. Known' /\ InTurn'
  BY <1>1 DEF RepoInv, Known, InTurn, Past, Reads
<1>4. Kept' /\ Single'
  BY <1>1 DEF RepoInv, Kept, Single, Past, Reads
<1>5. Revision' = Revision
  BY <1>1 DEF Revision
<1>6. Forward' /\ Telling'
  BY <1>1, <1>5 DEF RepoInv, Forward, Telling
<1>7. QED BY <1>2, <1>3, <1>4, <1>6 DEF RepoInv

\* Next is a change of the tables, the clock, or a step of the reading.
LEMMA NextIs ==
  Next => \/ Write \/ Tick \/ TakeRevision \/ ReadProfile \/ ReadPage
          \/ \E p \in Peer : FollowPeer(p) \/ PeerAccepts(p) \/ EndPeer(p)
BY DEF Next, Write

\* The invariant holds: it says where the paging is in tables that change under it.
THEOREM RepoInvHolds == Spec => []RepoInv
<1>1. RepoInv /\ [Next]_vars => RepoInv'
  <2>1. ASSUME RepoInv, NEW p \in Peer, FollowPeer(p) \/ PeerAccepts(p) \/ EndPeer(p)
        PROVE  RepoInv'
    BY <2>1, PeerIs, PeerStep
  <2>2. QED BY <2>1, NextIs, WriteStep, TickStep, TakeRevisionStep, ReadProfileStep,
               ReadPageStep, StutterStep
<1>2. QED BY RepoInvInit, <1>1, PTL DEF Spec

\* The tables, the reading and its history have their types; what has been passed
\* is a whole number of pages.
THEOREM RepoTypeCorrect == Spec => []TypeOK
<1>1. RepoInv => TypeOK
  BY DEF RepoInv
<1>2. QED BY RepoInvHolds, <1>1, PTL

\* Two records with the same path have the same collection and key.
LEMMA SamePath ==
  ASSUME NEW s, NEW r, SubSeq(s, 1, 2) = SubSeq(r, 1, 2)
  PROVE  s[1] = r[1] /\ s[2] = r[2]
<1>1. \A t : SubSeq(t, 1, 2)[1] = t[1] /\ SubSeq(t, 1, 2)[2] = t[2]
  <2>1. ASSUME NEW t PROVE SubSeq(t, 1, 2)[1] = t[1] /\ SubSeq(t, 1, 2)[2] = t[2]
    <3>1. \A i \in 1 .. 2 : t[i] \in {t[1], t[2]}
      OBVIOUS
    <3>2. \A i \in 1 .. 2 - 1 + 1 : SubSeq(t, 1, 2)[i] = t[1 + i - 1]
      BY <3>1, SubSeqProperties
    <3>3. QED BY <3>2
  <2>2. QED BY <2>1
<1>2. QED BY <1>1

\* At the end of a reading, what was there all the time, in a collection that lost
\* nothing, is in the snapshot, and what is in it was there.
LEMMA DoneHas ==
  ASSUME RepoInv, Done
  PROVE  /\ \A r \in there : r[1] \notin shrunk => r \in ToSet(got)
         /\ ToSet(got) \subseteq ever
<1>1. ASSUME NEW r \in there, r[1] \notin shrunk PROVE r \in ToSet(got)
  <2>1. r \in Records(rows, profile)
    BY DEF RepoInv, Known, Done
  <2>2. CASE r[1] = "profile"
    BY <2>2, <1>1 DEF RepoInv, Kept, Done
  <2>3. CASE r[1] \in Collection
    <3>1. PICK q \in 1 .. Len(Order) : r[1] = Order[q]
      BY <2>3, OrderIs
    <3>2. Past(q)
      BY DEF Past, Done
    <3>3. QED BY <3>1, <3>2, <1>1 DEF RepoInv, Kept
  <2>4. r[1] = "profile" \/ r[1] \in Collection
    <3>1. CASE r = <<"profile", 0, profile.version>>
      BY <3>1
    <3>2. ASSUME NEW c \in Collection, NEW k \in Keys(rows[c]),
                 r = <<c, k, rows[c][k].version>>
          PROVE  r[1] \in Collection
      BY <3>2
    <3>3. QED BY <2>1, <3>1, <3>2, RecordsAre
  <2>5. QED BY <2>2, <2>3, <2>4
<1>2. ToSet(got) \subseteq ever
  BY DEF RepoInv, Single
<1>3. QED BY <1>1, <1>2

\* A snapshot has every record that was there all the time, unless its collection lost
\* a row meanwhile; a record twice only if its collection gained one; and nothing
\* that never was: for every size of a page, and every interleaving with changes.
THEOREM RecordsOnce == Spec => []EachOnce
<1>1. RepoInv => EachOnce
  <2> SUFFICES ASSUME RepoInv, Done
               PROVE  /\ \A r \in there : r[1] \notin shrunk => r \in ToSet(got)
                      /\ ToSet(got) \subseteq ever
                      /\ \A i, j \in 1 .. Len(got) :
                           i # j /\ SubSeq(got[i], 1, 2) = SubSeq(got[j], 1, 2)
                             => got[i][1] \in grown
    BY DEF EachOnce, NothingIsLost, NothingTwice
  <2>1. ASSUME NEW i \in 1 .. Len(got), NEW j \in 1 .. Len(got), i # j,
               SubSeq(got[i], 1, 2) = SubSeq(got[j], 1, 2)
        PROVE  got[i][1] \in grown
    <3>1. got[i][1] = got[j][1] /\ got[i][2] = got[j][2]
      BY <2>1, SamePath
    <3>2. QED BY <2>1, <3>1 DEF RepoInv, Single
  <2>2. QED BY <2>1, DoneHas
<1>2. QED BY RepoInvHolds, <1>1, PTL

\* While the revision is that of the snapshot, and only removals, replacements,
\* writes dated no later than the newest row, and what follows a date of an
\* ActivityPub follow that was taken back, are left out, the repository is what the
\* snapshot says.
THEOREM RevisionTells == Spec => []SameRevSameRepo
<1>1. RepoInv => SameRevSameRepo
  <2> SUFFICES ASSUME RepoInv, Done, ~silent, rev = Revision
               PROVE  ToSet(got) = Records(rows, profile)
    BY DEF SameRevSameRepo
  <2>1. stage # "idle" /\ Revision \in Nat
    BY RevisionIs DEF Done, RepoInv
  <2>2. there = Records(rows, profile) /\ ever = there /\ shrunk = {}
    BY <2>1 DEF RepoInv, Telling
  <2>3. QED BY <2>2, DoneHas
<1>2. QED BY RepoInvHolds, <1>1, PTL

\* The revision that getRepo and getLatestCommit sign does not go back, unless since
\* the last one a record was removed or replaced, or a follow of an ActivityPub
\* actor ended or was accepted on the day of its request.
THEOREM RevisionGoesForward == Spec => RevGoesForward
<1>1. RepoInv /\ [Next]_vars => [~sunk => rev' >= rev]_vars
  <2> SUFFICES ASSUME RepoInv, Next, ~sunk PROVE rev' >= rev
    OBVIOUS
  <2>1. rev \in Nat
    BY DEF RepoInv, TypeOK
  <2>2. CASE Write
    <3>1. PICK rs, pr, stamps : Change(rs, pr, stamps)
      BY <2>2, WriteIsSound DEF RepoInv
    <3>2. rev' = rev
      BY <3>1, NoteSays
    <3>3. QED BY <2>1, <3>2
  <2>3. CASE Tick \/ ReadProfile \/ ReadPage
    <3>1. rev' = rev
      BY <2>3 DEF Tick, ReadProfile, ReadPage, reading
    <3>2. QED BY <2>1, <3>1
  <2>4. CASE TakeRevision
    <3>1. rev' = Revision /\ rev <= Revision /\ Revision \in Nat
      BY <2>4, RevisionIs DEF TakeRevision, RepoInv, Forward
    <3>2. QED BY <2>1, <3>1
  <2>5. ASSUME NEW p \in Peer, FollowPeer(p) \/ PeerAccepts(p) \/ EndPeer(p)
        PROVE  rev' >= rev
    <3>1. rev' = rev
      BY <2>5, PeerIs DEF SetPeer, reading
    <3>2. QED BY <2>1, <3>1
  <2>6. QED BY <2>2, <2>3, <2>4, <2>5, NextIs
<1>2. QED BY RepoInvHolds, <1>1, PTL DEF Spec, RevGoesForward

=============================================================================
