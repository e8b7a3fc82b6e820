------------------------------- MODULE Sources -------------------------------
(***************************************************************************)
(* The owner's source subscriptions: feeds, and watches of Bluesky         *)
(* accounts that are kept in step with the owner's follows.  A cron job    *)
(* reconciles the watches and refreshes what is due, oldest first, at most *)
(* Limit of them (LIMIT 20 in the code); the owner adds, deletes and       *)
(* refreshes sources meanwhile.  A refresh works from a row read when its  *)
(* batch was picked, inserts the items one by one, and writes the row last.*)
(*                                                                         *)
(* Times are abstracted to the order they are used for: `due` lists the    *)
(* sources whose next_fetch_at has passed, in the order of the query.      *)
(* Last-Modified goes with the ETag, and items have no content.            *)
(***************************************************************************)
EXTENDS Naturals, Sequences, FiniteSets, SequencesExt

CONSTANTS
  Feed,        \* sources fetched by a conditional GET
  Watch,       \* Bluesky accounts that can be watched
  Limit,       \* how many sources one batch takes
  Window,      \* how many of its latest items a feed shows
  MaxVersion,  \* bound: changes of a feed
  MaxActs,     \* bound: requests of the owner
  MaxFollows,  \* bound: changes of the owner's follows
  MaxFaults    \* bound: runs cut short, failed synchronisations

ASSUME SourcesAssumption ==
  /\ Feed \cap Watch = {} /\ Feed \cup Watch # {}
  /\ IsFiniteSet(Feed \cup Watch)
  /\ Limit \in Nat \ {0} /\ Window \in Nat
  /\ MaxVersion \in Nat /\ MaxActs \in Nat /\ MaxFollows \in Nat /\ MaxFaults \in Nat

VARIABLES
  status,      \* `source_subscriptions`.status, or "none" for no row
  byFollow,    \* rows whose policy_json has origin follow_sync
  etag,        \* the stored ETag: a version of the feed, 0 for none
  stored,      \* `source_items` of each source
  due,         \* sources that are due, by next_fetch_at
  followed,    \* accounts with an accepted row in `following`
  current,     \* the version each feed is at
  at,          \* what the cron job and the owner's request are doing
  syncing,     \* follows they still have to ensure a watch for
  batch,       \* the rows they still have to refresh, as they read them
  doc,         \* the document of the row they are at
  \* History, read by no code.
  byHand,      \* sources the owner added since the row was created
  renewed,     \* sources deleted while a refresh was at them
  acts, follows, faults

rows == <<status, byFollow, etag, stored, due>>
jobs == <<at, syncing, batch, doc>>
bounds == <<acts, follows, faults>>
vars == <<rows, followed, current, jobs, byHand, renewed, bounds>>

-----------------------------------------------------------------------------

Source == Feed \cup Watch
Job == {"cron", "owner"}
Version == 0..MaxVersion + 1
Item == 1..MaxVersion + 1
Items(v) == {i \in Item : i <= v /\ i + Window > v}

\* What a refresh knows of the row it is at.
Row(s) == [id |-> s, etag |-> etag[s]]
Rows == [id : Source, etag : Version]
NoDoc == [etag |-> 0, todo |-> {}]

IsDue(s) == Contains(due, s)
\* The sources of S that are due, in the order of the query.
InOrder(S) ==
  {q \in SetToSeqs({s \in S : IsDue(s)}) :
     \A m, n \in DOMAIN q, i, j \in DOMAIN due :
       due[i] = q[m] /\ due[j] = q[n] /\ m < n => i < j}
Active(s) == status[s] = "active"
InBatch(s) == \E j \in Job : \E n \in DOMAIN batch[j] : batch[j][n].id = s

TypeOK ==
  /\ status \in [Source -> {"none", "active", "paused", "error"}]
  /\ byFollow \in [Source -> BOOLEAN] /\ etag \in [Source -> Version]
  /\ stored \in [Source -> SUBSET Item]
  /\ due \in Seq(Source) /\ IsInjective(due)
  /\ \A s \in Source : status[s] = "none" => ~IsDue(s) /\ stored[s] = {} /\ etag[s] = 0
  /\ followed \subseteq Watch /\ current \in [Feed -> Version]
  /\ at \in [Job -> {"idle", "sync", "pick", "fetch", "store", "error"}]
  /\ syncing \in [Job -> SUBSET Watch]
  /\ batch \in [Job -> Seq(Rows)]
  /\ \A j \in Job : at[j] \in {"fetch", "store", "error"} => batch[j] # <<>>
  /\ doc \in [Job -> [etag : Version, todo : SUBSET Item]]
  /\ byHand \subseteq Source /\ renewed \subseteq Source
  /\ acts \in Nat /\ follows \in Nat /\ faults \in Nat

\* Some sources were added by the owner and are not refreshed yet.
Init ==
  /\ status \in [Source -> {"none", "active"}]
  /\ byHand = {s \in Source : Active(s)}
  /\ due \in SetToSeqs(byHand)
  /\ byFollow = [s \in Source |-> FALSE] /\ etag = [s \in Source |-> 0]
  /\ stored = [s \in Source |-> {}]
  /\ followed = {} /\ current = [f \in Feed |-> 1]
  /\ at = [j \in Job |-> "idle"] /\ syncing = [j \in Job |-> {}]
  /\ batch = [j \in Job |-> <<>>] /\ doc = [j \in Job |-> NoDoc]
  /\ renewed = {} /\ acts = 0 /\ follows = 0 /\ faults = 0

-----------------------------------------------------------------------------
(* The world outside.                                                      *)

Publish(f) ==
  /\ current[f] <= MaxVersion
  /\ current' = [current EXCEPT ![f] = @ + 1]
  /\ UNCHANGED <<rows, followed, jobs, byHand, renewed, bounds>>

\* next_fetch_at passes; those that are due have passed before.
ComesDue(s) ==
  /\ status[s] # "none" /\ ~IsDue(s)
  /\ due' = Append(due, s)
  /\ UNCHANGED <<status, byFollow, etag, stored, followed, current, jobs, byHand,
                 renewed, bounds>>

ChangeFollow(w) ==
  /\ follows < MaxFollows
  /\ followed' = IF w \in followed THEN followed \ {w} ELSE followed \cup {w}
  /\ follows' = follows + 1
  /\ UNCHANGED <<rows, current, jobs, byHand, renewed, acts, faults>>

-----------------------------------------------------------------------------
(* Requests of the owner that are one statement.                           *)

Act == acts < MaxActs /\ acts' = acts + 1

\* owner_upsert_source.  A new row has no next_fetch_at and is ordered by
\* created_at, whose format sorts before an ISO date of the same day: it may
\* come in anywhere.  An old row keeps its next_fetch_at and its ETag.
OwnerAdds(s) ==
  /\ Act
  /\ status' = [status EXCEPT ![s] = "active"]
  /\ byFollow' = [byFollow EXCEPT ![s] = FALSE]
  /\ IF status[s] = "none"
     THEN \E n \in 1..Len(due) + 1 : due' = InsertAt(due, n, s)
     ELSE UNCHANGED due
  /\ byHand' = byHand \cup {s}
  /\ UNCHANGED <<etag, stored, followed, current, jobs, renewed, follows, faults>>

\* owner_delete_source, which takes the items with it (ON DELETE CASCADE).
OwnerDeletes(s) ==
  /\ Act
  /\ status[s] # "none"
  /\ status' = [status EXCEPT ![s] = "none"]
  /\ byFollow' = [byFollow EXCEPT ![s] = FALSE]
  /\ etag' = [etag EXCEPT ![s] = 0]
  /\ stored' = [stored EXCEPT ![s] = {}]
  /\ due' \in InOrder(Source \ {s})
  /\ byHand' = byHand \ {s}
  /\ renewed' = IF InBatch(s) THEN renewed \cup {s} ELSE renewed
  /\ UNCHANGED <<followed, current, jobs, follows, faults>>

-----------------------------------------------------------------------------
(* sync_bluesky_follow_watches, on its own or at the start of the cron job.*)

AfterSync(j) == IF j = "cron" THEN "pick" ELSE "idle"

\* The accepted follows are read.
StartSync(j) ==
  /\ at[j] = "idle"
  /\ IF j = "owner" THEN Act ELSE UNCHANGED acts
  /\ at' = [at EXCEPT ![j] = "sync"]
  /\ syncing' = [syncing EXCEPT ![j] = followed]
  /\ UNCHANGED <<rows, followed, current, batch, doc, byHand, renewed, follows,
                 faults>>

\* Mutant of EnsureWatch: an existing row is given the policy as well.
EnsurePolicy(j, w) ==
  /\ at[j] = "sync" /\ w \in syncing[j]
  /\ syncing' = [syncing EXCEPT ![j] = @ \ {w}]
  /\ byFollow' = [byFollow EXCEPT ![w] = TRUE]
  /\ status' = [status EXCEPT ![w] = IF @ \in {"none", "paused"} THEN "active" ELSE @]
  /\ due' \in {due, IF status[w] = "none" THEN Append(due, w) ELSE due}
  /\ UNCHANGED <<etag, stored, followed, current, at, batch, doc, byHand, renewed,
                 bounds>>

\* The upsert for one follow: a new row, whose next_fetch_at is now or later,
\* or a paused one reactivated.
EnsureWatch(j, w) ==
  /\ at[j] = "sync" /\ w \in syncing[j]
  /\ syncing' = [syncing EXCEPT ![j] = @ \ {w}]
  /\ byFollow' = [byFollow EXCEPT ![w] = @ \/ status[w] = "none"]
  /\ status' = [status EXCEPT ![w] = IF @ \in {"none", "paused"} THEN "active" ELSE @]
  /\ due' \in {due, IF status[w] = "none" THEN Append(due, w) ELSE due}
  /\ UNCHANGED <<etag, stored, followed, current, at, batch, doc, byHand, renewed,
                 bounds>>

\* Mutant of PauseWatches: watches of accounts no longer followed go on.
PauseNothing(j) ==
  /\ at[j] = "sync" /\ syncing[j] = {}
  /\ at' = [at EXCEPT ![j] = AfterSync(j)]
  /\ UNCHANGED <<rows, followed, current, syncing, batch, doc, byHand, renewed,
                 bounds>>

\* One UPDATE, which reads `following` again.
PauseWatches(j) ==
  /\ at[j] = "sync" /\ syncing[j] = {}
  /\ status' = [s \in Source |->
       IF Active(s) /\ byFollow[s] /\ s \notin followed THEN "paused" ELSE status[s]]
  /\ at' = [at EXCEPT ![j] = AfterSync(j)]
  /\ UNCHANGED <<byFollow, etag, stored, due, followed, current, syncing, batch,
                 doc, byHand, renewed, bounds>>

\* A statement fails; the cron job goes on regardless.
SyncFails(j) ==
  /\ at[j] = "sync" /\ faults < MaxFaults
  /\ at' = [at EXCEPT ![j] = AfterSync(j)]
  /\ syncing' = [syncing EXCEPT ![j] = {}]
  /\ faults' = faults + 1
  /\ UNCHANGED <<rows, followed, current, batch, doc, byHand, renewed, acts,
                 follows>>

-----------------------------------------------------------------------------
(* A batch of refreshes.                                                   *)

Begin(j, list) ==
  /\ batch' = [batch EXCEPT ![j] = list]
  /\ at' = [at EXCEPT ![j] = IF list = <<>> THEN "idle" ELSE "fetch"]

FirstOf(q) == [n \in 1..(IF Len(q) < Limit THEN Len(q) ELSE Limit) |-> Row(q[n])]

\* Mutant of PickDue: the latest come first.
PickLatest ==
  /\ at["cron"] = "pick"
  /\ \E q \in InOrder({s \in Source : Active(s)}) : Begin("cron", FirstOf(Reverse(q)))
  /\ UNCHANGED <<rows, followed, current, syncing, doc, byHand, renewed, bounds>>

\* due_active_sources.
PickDue ==
  /\ at["cron"] = "pick"
  /\ \E q \in InOrder({s \in Source : Active(s)}) : Begin("cron", FirstOf(q))
  /\ UNCHANGED <<rows, followed, current, syncing, doc, byHand, renewed, bounds>>

\* owner_refresh_sources and owner_refresh_watches: one source whatever its
\* status, or active ones due or not, those due first.
OwnerRefreshes ==
  /\ at["owner"] = "idle" /\ Act
  /\ \/ \E s \in Source : status[s] # "none" /\ Begin("owner", <<Row(s)>>)
     \/ \E kind \in {Source, Watch} :
          \E ready \in InOrder({s \in kind : Active(s)}),
             later \in SetToSeqs({s \in kind : Active(s) /\ ~IsDue(s)}) :
            Begin("owner", FirstOf(ready \o later))
  /\ UNCHANGED <<rows, followed, current, syncing, doc, byHand, renewed, follows,
                 faults>>

Here(j) == Head(batch[j])
Go(j, stage) == at' = [at EXCEPT ![j] = stage]
\* The row is done with: the next one, if any.
Advance(j) ==
  /\ batch' = [batch EXCEPT ![j] = Tail(@)]
  /\ doc' = [doc EXCEPT ![j] = NoDoc]
  /\ Go(j, IF Tail(batch[j]) = <<>> THEN "idle" ELSE "fetch")

\* The answer: not modified, or a document whose ETag may be missing.  A watch
\* has no ETag, and its items are of no further interest.
Fetch(j) ==
  /\ at[j] = "fetch" /\ Go(j, "store")
  /\ LET s == Here(j).id
         known == Here(j).etag
     IN \/ /\ s \in Feed /\ known = current[s]
           /\ doc' = [doc EXCEPT ![j] = [etag |-> known, todo |-> {}]]
        \/ /\ s \in Feed
           /\ \E e \in {current[s], known} :
                doc' = [doc EXCEPT ![j] = [etag |-> e, todo |-> Items(current[s])]]
        \/ s \in Watch /\ UNCHANGED doc
  /\ UNCHANGED <<rows, followed, current, syncing, batch, byHand, renewed, bounds>>

\* Mutant of Store: foreign keys are not enforced.
StoreOrphan(j, i) ==
  /\ at[j] = "store" /\ i \in doc[j].todo
  /\ stored' = [stored EXCEPT ![Here(j).id] = @ \cup {i}]
  /\ doc' = [doc EXCEPT ![j].todo = @ \ {i}]
  /\ UNCHANGED <<status, byFollow, etag, due, followed, current, at, syncing, batch,
                 byHand, renewed, bounds>>

\* insert_source_item; without the row the foreign key refuses it.
Store(j, i) ==
  /\ at[j] = "store" /\ i \in doc[j].todo /\ status[Here(j).id] # "none"
  /\ stored' = [stored EXCEPT ![Here(j).id] = @ \cup {i}]
  /\ doc' = [doc EXCEPT ![j].todo = @ \ {i}]
  /\ UNCHANGED <<status, byFollow, etag, due, followed, current, at, syncing, batch,
                 byHand, renewed, bounds>>

\* The fetch, a parser, an INSERT or the UPDATE at the end fails.
Fails(j) ==
  /\ at[j] \in {"fetch", "store"}
  /\ Go(j, "error")
  /\ UNCHANGED <<rows, followed, current, syncing, batch, doc, byHand, renewed,
                 bounds>>

\* Mutant of MarkRefreshed: the ETag is written before the items are in.
MarkEarly(j) ==
  /\ at[j] = "store"
  /\ LET s == Here(j).id
         e == doc[j].etag
     IN IF status[s] = "none"
        THEN UNCHANGED <<status, etag, due>>
        ELSE /\ status' = [status EXCEPT ![s] = "active"]
             /\ etag' = [etag EXCEPT ![s] = IF e = 0 THEN @ ELSE e]
             /\ due' \in InOrder(Source \ {s})
  /\ Advance(j)
  /\ UNCHANGED <<byFollow, stored, followed, current, syncing, byHand, renewed,
                 bounds>>

\* mark_source_refreshed: any row of that id becomes active and is due later.
MarkRefreshed(j) ==
  /\ at[j] = "store" /\ doc[j].todo = {}
  /\ LET s == Here(j).id
         e == doc[j].etag
     IN IF status[s] = "none"
        THEN UNCHANGED <<status, etag, due>>
        ELSE /\ status' = [status EXCEPT ![s] = "active"]
             /\ etag' = [etag EXCEPT ![s] = IF e = 0 THEN @ ELSE e]
             /\ due' \in InOrder(Source \ {s})
  /\ Advance(j)
  /\ UNCHANGED <<byFollow, stored, followed, current, syncing, byHand, renewed,
                 bounds>>

\* mark_source_error: the row keeps its next_fetch_at.
MarkError(j) ==
  /\ at[j] = "error"
  /\ LET s == Here(j).id
     IN status' = [status EXCEPT ![s] = IF @ = "none" THEN @ ELSE "error"]
  /\ Advance(j)
  /\ UNCHANGED <<byFollow, etag, stored, due, followed, current, syncing, byHand,
                 renewed, bounds>>

\* mark_source_error or the query of the batch fails, or the runtime ends the
\* run: the rest of the batch is dropped.
Abort(j) ==
  /\ at[j] # "idle" /\ faults < MaxFaults
  /\ at' = [at EXCEPT ![j] = "idle"]
  /\ syncing' = [syncing EXCEPT ![j] = {}]
  /\ batch' = [batch EXCEPT ![j] = <<>>]
  /\ doc' = [doc EXCEPT ![j] = NoDoc]
  /\ faults' = faults + 1
  /\ UNCHANGED <<rows, followed, current, byHand, renewed, acts, follows>>

-----------------------------------------------------------------------------

Work(j) ==
  \/ StartSync(j) \/ PauseWatches(j) \/ SyncFails(j)
  \/ \E w \in Watch : EnsureWatch(j, w)
  \/ Fetch(j) \/ Fails(j) \/ MarkRefreshed(j) \/ MarkError(j) \/ Abort(j)
  \/ \E i \in Item : Store(j, i)

CronJob == Work("cron") \/ PickDue

Next ==
  \/ CronJob
  \/ Work("owner") \/ OwnerRefreshes
  \/ \E s \in Source : OwnerAdds(s) \/ OwnerDeletes(s) \/ ComesDue(s)
  \/ \E f \in Feed : Publish(f)
  \/ \E w \in Watch : ChangeFollow(w)

\* The cron trigger fires every thirty minutes, and a run that the runtime does
\* not end comes to its end.  Nothing is assumed of the owner and the feeds.
Spec == Init /\ [][Next]_vars /\ WF_vars(CronJob)

-----------------------------------------------------------------------------
(* Properties.                                                             *)

\* A stored ETag means that the items it stands for are stored, so that a 304
\* never hides an item: batches overlap, and any insert may be the last.  The
\* exception is a source deleted while a refresh was at it: added again, its new
\* row is given the ETag of items that went with the old one.
EtagMeansStored ==
  \A f \in Feed : f \notin renewed => Items(etag[f]) \subseteq stored[f]

\* "never a watch the owner added by hand" (sources.rs:981) is paused by the
\* synchronisation, whichever of the two came first and whatever is in flight.
HandWatchStays == \A w \in byHand : status[w] # "paused"

\* An account no longer followed is no longer watched in the end, although a
\* refresh or a synchronisation in flight may reactivate a paused watch.
UnfollowedIsPaused ==
  \A w \in Watch : <>[](w \notin followed) => <>[](byFollow[w] => ~Active(w))

\* Whatever is active and due gets its turn, or stops being so, although a batch
\* is limited, new sources may come in before older ones and runs end early.
DueIsRefreshed == \A s \in Source : []<>~(Active(s) /\ IsDue(s))

=============================================================================
