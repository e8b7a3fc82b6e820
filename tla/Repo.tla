-------------------------------- MODULE Repo --------------------------------
(***************************************************************************)
(* The AT repository as the PDS serves it.  There is no stored commit: for *)
(* every getRepo, getLatestCommit, createRecord and deleteRecord the PDS   *)
(* takes the revision, the newest timestamp in its tables, then reads the  *)
(* profile and the records, collection by collection and page by page, and *)
(* signs a tree of what it has read.  The tables change meanwhile.         *)
(*                                                                         *)
(* One reading of the repository is enough, since readings change nothing. *)
(* A key names one row of a collection, texts are version numbers, and     *)
(* rows with the same date are paged in a fixed order.  A date is a tick   *)
(* of the clock; as text, a date SQLite wrote ("2026-07-04 12:00:00")      *)
(* sorts before every date of the same day in the clients' format          *)
(* ("2026-07-04T12:00:00Z").                                               *)
(***************************************************************************)
EXTENDS Integers, Sequences, FiniteSets, SequencesExt

CONSTANTS
  Key,        \* record keys
  Peer,       \* ActivityPub actors that the owner may follow
  PageLimit,  \* rows of a page, 100 in the code
  PerDay,     \* ticks of a day
  Start,      \* bound: collections that hold rows of all keys at first
  MaxTime,    \* bound: ticks
  MaxWrites   \* bound: changes of the tables

ASSUME RepoAssumption ==
  /\ Key \subseteq Nat \ {0} /\ IsFiniteSet(Key)
  /\ PageLimit \in Nat \ {0} /\ PerDay \in Nat \ {0}
  /\ Start \subseteq {"post", "like", "repost", "follow"}
  /\ MaxTime \in Nat /\ MaxWrites \in Nat

VARIABLES
  now,        \* the clock
  rows,       \* the tables: a row of each collection and key
  profile,    \* the actor's row: stamp and version
  peers,      \* follows of ActivityPub actors: dated as the others, but no records
  stage,      \* what the reading is at
  part,       \* the collection it is in
  offset,     \* rows of it that it has passed
  rev,        \* the revision it has taken
  got,        \* the records it has read, in order
  \* History, read by no code.
  there,      \* records that were there all the time since it began
  ever,       \* records that were there at some time since
  shrunk,     \* collections that lost a row, or had one dated anew, since
  grown,      \* collections that gained a row, or had one dated anew, since
  sunk,       \* a date was taken back since the revision was taken: a record removed
              \* or replaced, a follow of a peer ended, or accepted with an older date
  silent,     \* a change since that the newest timestamp does not tell
  writes      \* versions handed out

tables == <<rows, profile, peers, writes>>
reading == <<stage, part, offset, rev, got>>
history == <<there, ever, shrunk, grown, sunk, silent>>
vars == <<now, tables, reading, history>>

-----------------------------------------------------------------------------

Order == <<"post", "like", "repost", "follow">>
Collection == ToSet(Order)

\* `at` orders the pages (published_at, created_at); `stamp` is what
\* repo_revision takes of the row; version 0 is no row.
NoRow == [at |-> 0, stamp |-> 0, version |-> 0]
Row == [at : Nat, stamp : Nat, version : Nat]
NoPeer == [status |-> "none", stamp |-> 0]
PeerRow == [status : {"none", "pending", "accepted"}, stamp : Nat]

Here(table, k) == table[k].version # 0
Keys(table) == {k \in Key : Here(table, k)}

\* CURRENT_TIMESTAMP, and an ISO date, as their text sorts.
Sqlite(t) == 2 * PerDay * (t \div PerDay) + (t % PerDay)
Iso(t) == Sqlite(t) + PerDay

Records(rs, pr) ==
  {<<"profile", 0, pr.version>>} \cup
  UNION {{<<c, k, rs[c][k].version>> : k \in Keys(rs[c])} : c \in Collection}

\* repo_revision: the newest date of the records and of all follows, those of
\* ActivityPub actors too, which are in the same table.
Stamps(rs, pr) ==
  {pr.stamp} \cup UNION {{rs[c][k].stamp : k \in Keys(rs[c])} : c \in Collection}
Dates(rs, pr, ps) ==
  Stamps(rs, pr) \cup {ps[p].stamp : p \in {q \in Peer : ps[q].status # "none"}}
Revision == Max(Dates(rows, profile, peers))

\* ORDER BY published_at DESC, or created_at DESC: a row's place is the number of
\* rows before it.
Newer(table, i, j) == \/ table[i].at > table[j].at
                      \/ table[i].at = table[j].at /\ i < j
Place(table, k) == Cardinality({i \in Keys(table) : Newer(table, i, k)})
InOrder(table) ==
  [n \in 1 .. Cardinality(Keys(table)) |-> CHOOSE k \in Keys(table) : Place(table, k) = n - 1]

Profiles == [stamp : Nat, version : Nat]

TypeOK ==
  /\ now \in Nat /\ rows \in [Collection -> [Key -> Row]] /\ profile \in Profiles
  /\ peers \in [Peer -> PeerRow]
  /\ \A c \in Collection, k \in Key : Here(rows[c], k) \/ rows[c][k] = NoRow
  /\ stage \in {"idle", "profile", "pages", "done"}
  /\ part \in 1 .. Len(Order) /\ offset \in Nat /\ rev \in Nat
  /\ got \in Seq({"profile"} \X {0} \X Nat \cup Collection \X Key \X Nat)
  /\ stage = "pages" => offset % PageLimit = 0
  /\ sunk \in BOOLEAN /\ silent \in BOOLEAN /\ writes \in Nat

Init ==
  /\ now = 0 /\ profile = [stamp |-> 0, version |-> 1] /\ writes = 1
  /\ rows = [c \in Collection |-> [k \in Key |->
       IF c \in Start THEN [at |-> 0, stamp |-> 0, version |-> 1] ELSE NoRow]]
  /\ peers \in [Peer -> {NoPeer, [status |-> "pending", stamp |-> Iso(0)]}]
  /\ stage = "idle" /\ part = 1 /\ offset = 0 /\ rev = 0 /\ got = <<>>
  /\ there = {} /\ ever = {} /\ shrunk = {} /\ grown = {}
  /\ sunk = FALSE /\ silent = FALSE

-----------------------------------------------------------------------------
(* Changes of the tables.                                                  *)

\* What a change to `rs` and `pr`, writing dates of `stamps`, is to the reading.
Note(rs, pr, stamps) ==
  LET redated(c) == \E k \in Key : Here(rows[c], k) /\ Here(rs[c], k)
                                   /\ rs[c][k].at # rows[c][k].at
      removed(c) == \E k \in Key : Here(rows[c], k) /\ ~Here(rs[c], k)
      added(c) == \E k \in Key : ~Here(rows[c], k) /\ Here(rs[c], k)
      replaced == \E c \in {"like", "repost", "follow"}, k \in Key :
                    Here(rows[c], k) /\ rs[c][k] # rows[c][k]
      gone == \E c \in Collection : removed(c)
  IN /\ there' = there \cap Records(rs, pr)
     /\ ever' = ever \cup Records(rs, pr)
     /\ shrunk' = shrunk \cup {c \in Collection : removed(c) \/ redated(c)}
     /\ grown' = grown \cup {c \in Collection : added(c) \/ redated(c)}
     /\ sunk' = (sunk \/ gone \/ replaced)
     /\ silent' = (silent \/ gone \/ replaced \/ \E s \in stamps : s <= Revision)

Change(rs, pr, stamps) ==
  /\ writes <= MaxWrites /\ writes' = writes + 1
  /\ rows' = rs /\ profile' = pr
  /\ Note(rs, pr, stamps)
  /\ UNCHANGED <<now, peers, reading>>

Put(c, k, at, stamp) ==
  Change([rows EXCEPT ![c][k] = [at |-> at, stamp |-> stamp, version |-> writes + 1]],
         profile, {stamp})

\* handle_create_record and owner_create_post: published_at is the client's
\* createdAt or the current date.  A second post with the key is refused.
CreatePost(k, at) ==
  /\ at <= now /\ ~Here(rows["post"], k)
  /\ Put("post", k, at, Sqlite(now))

\* Mutant of EditPost: updated_at is reset to the date of publication.
EditPostBack(k) ==
  /\ Here(rows["post"], k)
  /\ Put("post", k, rows["post"][k].at, Sqlite(rows["post"][k].at))

\* The Mastodon API's edit of a post.
EditPost(k) ==
  /\ Here(rows["post"], k)
  /\ Put("post", k, rows["post"][k].at, Sqlite(now))

\* create_subject_record and owner_publish_interaction: INSERT OR REPLACE.
Mark(c, k, at) == at <= now /\ Put(c, k, at, Iso(at))

\* create_follow_record: the row of the account followed takes the new key.
\* A key that is taken by another account's row is refused.
Follow(k, old, at) ==
  /\ at <= now
  /\ IF old = 0 THEN ~Here(rows["follow"], k)
     ELSE Here(rows["follow"], old) /\ (old = k \/ ~Here(rows["follow"], k))
  /\ Change([rows EXCEPT !["follow"] =
               [i \in Key |-> IF i = k
                                THEN [at |-> at, stamp |-> Iso(at), version |-> writes + 1]
                              ELSE IF i = old THEN NoRow ELSE @[i]]],
            profile, {Iso(at)})

\* create_profile_record, and handle_delete_record of the profile.
SetProfile ==
  Change(rows, [stamp |-> Sqlite(now), version |-> writes + 1], {Sqlite(now)})

\* handle_delete_record; likes and reposts are rows of one table, and the key
\* is all that is looked at.
DeleteRecord(c, k) ==
  LET cs == IF c \in {"like", "repost"} THEN {"like", "repost"} ELSE {c}
  IN /\ \E d \in cs : Here(rows[d], k)
     /\ Change([d \in Collection |-> IF d \in cs THEN [rows[d] EXCEPT ![k] = NoRow]
                                     ELSE rows[d]], profile, {})

\* owner_publish_interaction's undo names the row.
Unmark(c, k) ==
  /\ Here(rows[c], k)
  /\ Change([rows EXCEPT ![c][k] = NoRow], profile, {})

\* A follow of an ActivityPub actor is written or ends: no record changes, but the
\* newest date may.
SetPeer(p, status, stamp) ==
  LET back == /\ peers[p].status # "none"
              /\ status = "none" \/ stamp < peers[p].stamp
  IN /\ writes <= MaxWrites /\ writes' = writes + 1
     /\ peers' = [peers EXCEPT ![p] = [status |-> status, stamp |-> stamp]]
     /\ sunk' = (sunk \/ back) /\ silent' = (silent \/ back)
     /\ UNCHANGED <<now, rows, profile, reading, there, ever, shrunk, grown>>

\* owner_follow_actor.
FollowPeer(p) == SetPeer(p, "pending", Iso(now))

\* The Accept, in either inbox: accepted_at is SQLite's, which on the same day sorts
\* before the date of the request.
PeerAccepts(p) == peers[p].status = "pending" /\ SetPeer(p, "accepted", Sqlite(now))

\* owner_unfollow_actor, a Reject, or a deleteRecord that has the Follow's key.
EndPeer(p) == peers[p].status # "none" /\ SetPeer(p, "none", 0)

Tick ==
  /\ now < MaxTime /\ now' = now + 1
  /\ UNCHANGED <<tables, reading, history>>

-----------------------------------------------------------------------------
(* repo_snapshot, one await at a time.                                     *)

\* repo_revision comes first.
TakeRevision ==
  /\ stage \in {"idle", "done"}
  /\ stage' = "profile" /\ rev' = Revision
  /\ got' = <<>> /\ part' = 1 /\ offset' = 0
  /\ there' = Records(rows, profile) /\ ever' = there'
  /\ shrunk' = {} /\ grown' = {} /\ sunk' = FALSE /\ silent' = FALSE
  /\ UNCHANGED <<now, tables>>

ReadProfile ==
  /\ stage = "profile" /\ stage' = "pages"
  /\ got' = <<<<"profile", 0, profile.version>>>>
  /\ UNCHANGED <<now, tables, part, offset, rev, history>>

\* One row more than the page holds is asked for, to see if there is another.
Slice(s, from, count) == SubSeq(s, from + 1, Min({from + count, Len(s)}))
Page == Slice(InOrder(rows[Order[part]]), offset, PageLimit + 1)
Taken(page) ==
  LET c == Order[part] IN
  [i \in 1 .. Len(page) |-> <<c, page[i], rows[c][page[i]].version>>]

Advance(last) ==
  /\ IF ~last THEN offset' = offset + PageLimit /\ UNCHANGED <<part, stage>>
     ELSE /\ offset' = 0
          /\ IF part = Len(Order) THEN stage' = "done" /\ UNCHANGED part
             ELSE part' = part + 1 /\ UNCHANGED stage

\* Mutant of ReadPage: a full page is taken for the last one.
ReadPageOnly ==
  /\ stage = "pages"
  /\ got' = got \o Taken(Slice(Page, 0, PageLimit))
  /\ Advance(Len(Page) <= PageLimit + 1)
  /\ UNCHANGED <<now, tables, rev, history>>

\* Mutant of ReadPage: the revision is taken when all is read.
ReadPageLate ==
  /\ stage = "pages"
  /\ got' = got \o Taken(Slice(Page, 0, PageLimit))
  /\ Advance(Len(Page) <= PageLimit)
  /\ rev' = IF stage' = "done" THEN Revision ELSE rev
  /\ UNCHANGED <<now, tables, history>>

ReadPage ==
  /\ stage = "pages"
  /\ got' = got \o Taken(Slice(Page, 0, PageLimit))
  /\ Advance(Len(Page) <= PageLimit)
  /\ UNCHANGED <<now, tables, rev, history>>

-----------------------------------------------------------------------------

Next ==
  \/ Tick \/ SetProfile \/ TakeRevision \/ ReadProfile \/ ReadPage
  \/ \E k \in Key :
       \/ EditPost(k)
       \/ \E at \in 0 .. MaxTime :
            \/ CreatePost(k, at)
            \/ \E c \in {"like", "repost"} : Mark(c, k, at)
            \/ \E old \in Key \cup {0} : Follow(k, old, at)
       \/ \E c \in {"like", "repost"} : Unmark(c, k)
       \/ \E c \in Collection : DeleteRecord(c, k)
  \/ \E p \in Peer : FollowPeer(p) \/ PeerAccepts(p) \/ EndPeer(p)

Spec == Init /\ [][Next]_vars

-----------------------------------------------------------------------------
(* Properties.                                                             *)

Done == stage = "done"

\* Whatever was in a collection all the time is in the snapshot: only a row that
\* is removed or dated anew meanwhile can make the paging pass over another.
\* (So the commit that answers a createRecord holds the record, unless another
\* request removes one of the same collection at that moment.)
NothingIsLost ==
  Done => \A r \in there : r[1] \notin shrunk => r \in ToSet(got)

\* A path is in the snapshot twice only if a row of its collection was inserted
\* or dated anew meanwhile, and what is in it was there at some time.
NothingTwice ==
  Done => /\ ToSet(got) \subseteq ever
          /\ \A i, j \in 1 .. Len(got) :
               i # j /\ SubSeq(got[i], 1, 2) = SubSeq(got[j], 1, 2) => got[i][1] \in grown

EachOnce == NothingIsLost /\ NothingTwice

\* The revision never goes back, unless since it was last taken a record was removed
\* or replaced, or a follow of an ActivityPub actor ended, or was accepted on the day
\* of the request, which dates it before the request (nothing keeps it up then).
RevGoesForward == [][~sunk => rev' >= rev]_vars

\* As long as the revision is that of a snapshot, the repository is what the
\* snapshot says, since the revision is taken before the records: a reader who
\* compares revisions misses only removals, replaced records, writes dated no
\* later than the newest (of the same second; dated by a client; or of the same
\* day as a like, whose date sorts after every update of a post), and what is
\* written after a follow of an ActivityPub actor took the newest date back.
SameRevSameRepo ==
  Done /\ ~silent /\ rev = Revision => ToSet(got) = Records(rows, profile)

=============================================================================
