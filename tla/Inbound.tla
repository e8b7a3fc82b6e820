------------------------------- MODULE Inbound -------------------------------
(***************************************************************************)
(* What becomes of a remote author's note, or of a like or boost ("mark"), *)
(* that reaches the inbox: a row of `timeline_posts`, of `replies` under   *)
(* the owner's post or of `interactions`, and a notification; and of the   *)
(* Update, Delete or Undo that follows.                                    *)
(*                                                                         *)
(* `inbox` says which of the two implementations serves (see FollowGraph); *)
(* the router's knows no Update and no marks.  A server sends its          *)
(* activities in any order and any number of times, and requests overlap:  *)
(* each is cut at its awaits and may end at any of them.  One author and   *)
(* one post of the owner are enough; texts are left out.                   *)
(***************************************************************************)
EXTENDS Naturals

CONSTANTS
  Note,       \* notes and marks of the author
  Handler,    \* inbox requests that can be in progress at once
  MaxTaken,   \* bound: activities taken in
  MaxChanges  \* bound: follows, blocks and lifted blocks of the owner

ASSUME InboundAssumption == Note # {} /\ MaxTaken \in Nat /\ MaxChanges \in Nat

VARIABLES
  inbox,           \* the implementation that serves
  kind,            \* what each note is
  post,            \* whether the owner's post has its row in `posts`
  followed,        \* whether the author has an accepted row in `following`
  barred,          \* whether the author is blocked or outside the closed network
  timeline,        \* rows of `timeline_posts`
  replies,         \* rows of `replies`: their moderation_status
  checked,         \* replies with a moderation_checked_at
  marks,           \* rows of `interactions`
  notices,         \* how many rows of `notifications` each note has
  stage, at, hides,  \* the requests: next statement, note, moderator's verdict
  \* History, read by no code.
  copies,          \* how often each note itself was taken in
  had,             \* notes that have had a row in `replies` or `interactions`
  concealed,       \* replies whose row was stored hidden
  wavering,        \* replies with copies the moderator let pass
  withdrawn,       \* notes whose Delete or Undo has been carried out
  crossed,         \* notes that were in hand then, or came again after it
  taken, changes

tables == <<timeline, replies, checked, marks, notices>>
requests == <<stage, at, hides>>
world == <<post, followed, barred, changes>>
history == <<copies, had, concealed, wavering, withdrawn, crossed, taken>>
vars == <<inbox, kind, tables, requests, world, history>>

-----------------------------------------------------------------------------

Row == {"none", "shown", "gone"}
Status == {"approved", "pending", "hidden", "rejected"}
Stage == {"idle", "fetch", "check", "post", "judge", "reply", "notify", "mark",
          "follows", "store", "update", "delete", "undo"}

\* Statements that bring a row back to light, or are on the way to one.
Bringing == {"fetch", "check", "follows", "store", "update", "mark"}

AnyNote == CHOOSE n \in Note : TRUE

TypeOK ==
  /\ inbox \in {"router", "core"}
  /\ kind \in [Note -> {"plain", "reply", "mark"}]
  /\ post \in BOOLEAN /\ followed \in BOOLEAN /\ barred \in BOOLEAN
  /\ timeline \in [Note -> Row] /\ marks \subseteq Note
  /\ replies \in [Note -> {"none"} \cup Status] /\ checked \subseteq Note
  /\ \A n \in Note : replies[n] # "none" => post /\ kind[n] = "reply"
  /\ \A n \in Note : timeline[n] # "none" => kind[n] # "mark"
  /\ notices \in [Note -> Nat]
  /\ stage \in [Handler -> Stage] /\ at \in [Handler -> Note]
  /\ hides \in [Handler -> BOOLEAN]
  /\ copies \in [Note -> Nat] /\ had \subseteq Note
  /\ concealed \subseteq Note /\ wavering \subseteq Note
  /\ withdrawn \subseteq Note /\ crossed \subseteq Note
  /\ taken \in Nat /\ changes \in Nat

Init ==
  /\ inbox \in {"router", "core"}
  /\ kind \in [Note -> {"plain", "reply", "mark"}]
  /\ post = TRUE /\ followed \in BOOLEAN /\ barred = FALSE
  /\ timeline = [n \in Note |-> "none"] /\ marks = {}
  /\ replies = [n \in Note |-> "none"] /\ checked = {}
  /\ notices = [n \in Note |-> 0]
  /\ stage = [h \in Handler |-> "idle"] /\ at = [h \in Handler |-> AnyNote]
  /\ hides = [h \in Handler |-> FALSE]
  /\ copies = [n \in Note |-> 0] /\ had = {} /\ concealed = {} /\ wavering = {}
  /\ withdrawn = {} /\ crossed = {}
  /\ taken = 0 /\ changes = 0

-----------------------------------------------------------------------------
(* The owner.                                                              *)

\* owner_delete_post; the replies go with it (ON DELETE CASCADE).
DeletePost ==
  /\ post
  /\ post' = FALSE
  /\ replies' = [n \in Note |-> "none"] /\ checked' = {}
  /\ UNCHANGED <<inbox, kind, timeline, marks, notices, requests, followed, barred,
                 changes, history>>

ChangeFollow ==
  /\ changes < MaxChanges
  /\ followed' = ~followed /\ changes' = changes + 1
  /\ UNCHANGED <<inbox, kind, tables, requests, post, barred, history>>

ChangeBar ==
  /\ changes < MaxChanges
  /\ barred' = ~barred /\ changes' = changes + 1
  /\ UNCHANGED <<inbox, kind, tables, requests, post, followed, history>>

-----------------------------------------------------------------------------
(* An activity is taken in.                                                *)

Take(h, n, s) ==
  /\ stage[h] = "idle" /\ taken < MaxTaken
  /\ stage' = [stage EXCEPT ![h] = s]
  /\ at' = [at EXCEPT ![h] = n]
  /\ hides' = [hides EXCEPT ![h] = FALSE]
  /\ taken' = taken + 1
  /\ UNCHANGED <<inbox, kind, tables, world, had, concealed, wavering, withdrawn>>

\* process_inbox_activity lets nobody in who is blocked or not allowed; the
\* router asks for a signature only.
LetIn == inbox = "core" => ~barred

\* A Create, a Like or an Announce.
TakeNote(h, n) ==
  /\ LetIn /\ (inbox = "core" \/ kind[n] # "mark")
  /\ Take(h, n, IF inbox = "router" THEN "fetch"
                ELSE IF kind[n] = "mark" THEN "mark" ELSE "check")
  /\ copies' = [copies EXCEPT ![n] = @ + 1]
  /\ crossed' = IF n \in withdrawn THEN crossed \cup {n} ELSE crossed

TakeUpdate(h, n) ==
  /\ LetIn /\ inbox = "core" /\ kind[n] # "mark" /\ followed
  /\ Take(h, n, "update")
  /\ crossed' = IF n \in withdrawn THEN crossed \cup {n} ELSE crossed
  /\ UNCHANGED copies

\* handle_delete looks only at authors the owner follows; an Undo needs nothing.
TakeWithdrawal(h, n) ==
  /\ LetIn /\ copies[n] > 0
  /\ IF kind[n] = "mark" THEN Take(h, n, "undo")
     ELSE (inbox = "core" => followed) /\ Take(h, n, "delete")
  /\ UNCHANGED <<copies, crossed>>

-----------------------------------------------------------------------------
(* The statements that follow, one await each.                             *)

Step(h, s, t) == stage[h] = s /\ stage' = [stage EXCEPT ![h] = t]
Same == UNCHANGED <<inbox, kind, world, at, copies, taken>>

\* activitypub_store_create: the author is fetched, the row is upserted with
\* deleted_at = NULL, and a reply to a post of ours goes on.
StoreTimeline(h) ==
  /\ Step(h, "fetch", IF kind[at[h]] = "reply" THEN "post" ELSE "idle")
  /\ timeline' = [timeline EXCEPT ![at[h]] = "shown"]
  /\ UNCHANGED <<replies, checked, marks, notices, hides, had, concealed, wavering,
                 withdrawn, crossed>>
  /\ Same

\* activitypub_store_local_reply: the SELECT.
FindPost(h) ==
  /\ Step(h, "post", IF post THEN "reply" ELSE "idle")
  /\ UNCHANGED <<tables, hides, had, concealed, wavering, withdrawn, crossed>> /\ Same

\* handle_create: is_reply_to_our_post.
CheckReply(h) ==
  /\ Step(h, "check", IF kind[at[h]] = "reply" /\ post THEN "judge" ELSE "follows")
  /\ UNCHANGED <<tables, hides, had, concealed, wavering, withdrawn, crossed>> /\ Same

\* handle_reply: the moderator's verdict.  If it fails, the copy passes.
Judge(h, verdict) ==
  /\ Step(h, "judge", "reply")
  /\ hides' = [hides EXCEPT ![h] = verdict]
  /\ wavering' = IF verdict THEN wavering ELSE wavering \cup {at[h]}
  /\ UNCHANGED <<tables, had, concealed, withdrawn, crossed>> /\ Same

\* INSERT OR IGNORE, or an upsert that leaves the columns of moderation alone.
\* The core stores the moderator's verdict, the router none.
Insert(h) ==
  LET n == at[h] IN
  IF replies[n] # "none" THEN UNCHANGED <<replies, checked, concealed>>
  ELSE /\ replies' = [replies EXCEPT ![n] = IF hides[h] THEN "hidden" ELSE "approved"]
       /\ checked' = IF inbox = "core" THEN checked \cup {n} ELSE checked \ {n}
       /\ concealed' = IF hides[h] THEN concealed \cup {n} ELSE concealed \ {n}

\* Mutant of StoreReply: the owner is told of hidden replies too.
StoreAnnounced(h) ==
  /\ post
  /\ Step(h, "reply", "notify") /\ Insert(h)
  /\ had' = had \cup {at[h]}
  /\ UNCHANGED <<timeline, marks, notices, hides, wavering, withdrawn, crossed>>
  /\ Same

\* Without the post the foreign key refuses the row.
StoreReply(h) ==
  /\ post
  /\ Step(h, "reply", IF hides[h] THEN "idle" ELSE "notify") /\ Insert(h)
  /\ had' = had \cup {at[h]}
  /\ UNCHANGED <<timeline, marks, notices, hides, wavering, withdrawn, crossed>>
  /\ Same

\* handle_like and handle_announce; INSERT OR IGNORE.
StoreMark(h) ==
  /\ Step(h, "mark", "notify")
  /\ marks' = marks \cup {at[h]}
  /\ had' = had \cup {at[h]}
  /\ UNCHANGED <<timeline, replies, checked, notices, hides, concealed, wavering,
                 withdrawn, crossed>>
  /\ Same

\* Mutant of Notify: every notification of the router has an id of its own.
NotifyAgain(h) ==
  /\ Step(h, "notify", "idle")
  /\ notices' = [notices EXCEPT ![at[h]] = @ + 1]
  /\ UNCHANGED <<timeline, replies, checked, marks, hides, had, concealed, wavering,
                 withdrawn, crossed>>
  /\ Same

\* The router derives the id from the reply's; create_notification makes one up.
Notify(h) ==
  /\ Step(h, "notify", "idle")
  /\ notices' = [notices EXCEPT ![at[h]] = IF inbox = "router" THEN 1 ELSE @ + 1]
  /\ UNCHANGED <<timeline, replies, checked, marks, hides, had, concealed, wavering,
                 withdrawn, crossed>>
  /\ Same

\* is_accepted_following; then ingest_timeline_post fetches the author.
CheckFollow(h) ==
  /\ Step(h, "follows", IF followed THEN "store" ELSE "idle")
  /\ UNCHANGED <<tables, hides, had, concealed, wavering, withdrawn, crossed>> /\ Same

Ingest(h) ==
  /\ Step(h, "store", "idle")
  /\ timeline' = [timeline EXCEPT ![at[h]] = "shown"]
  /\ UNCHANGED <<replies, checked, marks, notices, hides, had, concealed, wavering,
                 withdrawn, crossed>>
  /\ Same

\* handle_update brings a deleted row back.
Update(h) ==
  /\ Step(h, "update", "idle")
  /\ timeline' = [timeline EXCEPT ![at[h]] = IF @ = "none" THEN @ ELSE "shown"]
  /\ UNCHANGED <<replies, checked, marks, notices, hides, had, concealed, wavering,
                 withdrawn, crossed>>
  /\ Same

\* What is in hand for a note while it is withdrawn may undo the withdrawal.
Withdraw(h) ==
  /\ withdrawn' = withdrawn \cup {at[h]}
  /\ crossed' = IF \E g \in Handler : at[g] = at[h] /\ stage[g] \in Bringing
                THEN crossed \cup {at[h]} ELSE crossed

\* Mutant of Delete: replies to our post, whose rows are elsewhere, are skipped.
DeletePlain(h) ==
  /\ Step(h, "delete", "idle") /\ Withdraw(h)
  /\ timeline' = [timeline EXCEPT ![at[h]] =
       IF @ = "none" \/ kind[at[h]] = "reply" THEN @ ELSE "gone"]
  /\ UNCHANGED <<replies, checked, marks, notices, hides, had, concealed, wavering>> /\ Same

\* handle_delete and activitypub_store_delete: `replies` is not looked at.
Delete(h) ==
  /\ Step(h, "delete", "idle") /\ Withdraw(h)
  /\ timeline' = [timeline EXCEPT ![at[h]] = IF @ = "none" THEN @ ELSE "gone"]
  /\ UNCHANGED <<replies, checked, marks, notices, hides, had, concealed, wavering>> /\ Same

\* The core's handle_undo deletes the row; the router does nothing.
Undo(h) ==
  /\ Step(h, "undo", "idle") /\ Withdraw(h)
  /\ marks' = IF inbox = "core" THEN marks \ {at[h]} ELSE marks
  /\ UNCHANGED <<timeline, replies, checked, notices, hides, had, concealed, wavering>> /\ Same

\* A statement or a fetch fails, or the runtime ends the request.
Fail(h) ==
  /\ stage[h] # "idle"
  /\ stage' = [stage EXCEPT ![h] = "idle"]
  /\ UNCHANGED <<tables, hides, had, concealed, wavering, withdrawn, crossed>> /\ Same

-----------------------------------------------------------------------------

Next ==
  \/ DeletePost \/ ChangeFollow \/ ChangeBar
  \/ \E h \in Handler, n \in Note :
       TakeNote(h, n) \/ TakeUpdate(h, n) \/ TakeWithdrawal(h, n)
  \/ \E h \in Handler :
       \/ StoreTimeline(h) \/ FindPost(h) \/ CheckReply(h) \/ StoreReply(h)
       \/ \E verdict \in BOOLEAN : Judge(h, verdict)
       \/ StoreMark(h) \/ Notify(h) \/ CheckFollow(h) \/ Ingest(h) \/ Update(h)
       \/ Delete(h) \/ Undo(h) \/ Fail(h)

Spec == Init /\ [][Next]_vars

-----------------------------------------------------------------------------
(* Properties.                                                             *)

\* However often a server repeats a note and however the copies overlap, the
\* router shows the owner one notification of a reply, and the core no more
\* than there were copies.
NoNoticeTooMany ==
  \A n \in Note : notices[n] <= IF inbox = "router" THEN 1 ELSE copies[n]

\* There is no notification of something that was never there: a reply to a
\* post deleted since the SELECT is refused before the notification.
NoticeMeansRow == \A n \in Note : notices[n] > 0 => n \in had

\* Notifications tell of what was stored, and of no copy twice: the insertions of
\* the reply and of the notification are two statements, and any request may come
\* between them.
NoticesAreDue == NoNoticeTooMany /\ NoticeMeansRow

\* A reply the core's moderator hides is not announced either, unless it let
\* another copy pass, or failed on one (inbox.rs:831 then takes the copy for
\* approved, while the row keeps its first verdict).
HiddenIsQuiet ==
  \A n \in concealed : notices[n] > 0 => n \in wavering

\* A note that its author withdrew stays out of the timeline and the counts,
\* if the server had waited for the answers to what it had sent before and
\* repeats nothing later.  (Both upserts and the Update set deleted_at to NULL,
\* so nothing holds it back otherwise; and the reply under the owner's post
\* stays in any case.)
WithdrawnStaysAway ==
  \A n \in withdrawn \ crossed : timeline[n] # "shown" /\ n \notin marks

=============================================================================
