-------------------------------- MODULE Posts --------------------------------
(***************************************************************************)
(* The owner's posts on their way out: creation, fan-out into rows of      *)
(* `deliveries`, deletion, and the audience list a direct post can be      *)
(* addressed to.  What becomes of a row is Delivery's subject; here a row  *)
(* may be sent any number of times, and what matters is who holds a copy   *)
(* of the post and who is told that it was deleted.                        *)
(*                                                                         *)
(* Requests overlap and are cut at their awaits: recipients are looked up  *)
(* one by one, inboxes are let through the closed network one by one, rows *)
(* are inserted one by one, and any of these may be the last.  The command *)
(* line has code of its own for all this and writes the tables directly.   *)
(* Texts, media, dates and edits are left out; "unlisted" posts are        *)
(* treated like public ones here, and a post for both protocols like one   *)
(* for ActivityPub.                                                        *)
(***************************************************************************)
EXTENDS Naturals

CONSTANTS
  Post,        \* posts the owner may create
  Peer,        \* remote actors; a peer also names its personal inbox
  Hub,         \* peers of one server, which has a shared inbox
  HubInbox,    \* that shared inbox
  Deletion,    \* deletion requests that can be in progress at once
  Save,        \* saves of the audience list that can be in progress at once
  NoOne,       \* a post that replies to nobody
  MaxChanges,  \* bound: approvals, rejections, edits and misreadings of the allowlist
  MaxSaves,    \* bound: saves of the audience list
  MaxTimes     \* bound: how often the command line's --to names one peer

ASSUME PostsAssumption ==
  /\ Hub \subseteq Peer /\ HubInbox \notin Peer
  /\ NoOne \notin Peer \cup {HubInbox}
  /\ Post # {} /\ MaxChanges \in Nat /\ MaxSaves \in Nat
  /\ MaxTimes \in Nat

VARIABLES
  visibility, federated, replyTo,  \* what the owner asked of each post
  cli,                     \* posts asked for on the command line
  times,                   \* how often its --to names a peer
  posts,                   \* rows of `posts`
  creates, deletes,        \* `deliveries`: Create rows, inboxes with a Delete
  approved,                \* peers with an approved row in `followers`
  admitted,                \* hosts closed_network and the allowlist let through
  members,                 \* rows of `audience_list_members`
  make, todo, kept,        \* the requests that create the posts
  again,                   \* how often a peer in `todo` is still to come up
  drop, victim, dtodo, dkept,  \* the deletion requests
  save, stodo,             \* the requests that save the list
  sending,                 \* Creates a worker has built from a row of `posts`
  \* History, read by no code.
  held,                    \* inboxes that have taken the Create of a post
  gone,                    \* posts that were deleted
  pulled,                  \* the PDS deleted them, which tells nobody
  moved,                   \* inboxes whose followers or admission changed, or was misread
  meant,                   \* peers the owner meant a post for
  wanted, swanted,         \* members of the list's saves that are in force
  changes, saves

ask == <<visibility, federated, replyTo, cli, times>>
rows == <<creates, deletes>>
making == <<make, todo, kept, again>>
dropping == <<drop, victim, dtodo, dkept>>
saving == <<members, save, stodo, wanted, swanted, saves>>
world == <<approved, admitted, moved, changes>>
copies == <<sending, held>>
ended == <<gone, pulled>>
vars == <<ask, posts, rows, making, dropping, saving, world, copies, ended, meant>>

-----------------------------------------------------------------------------

Inbox == Peer \cup {HubInbox}

\* COALESCE(NULLIF(follower_shared_inbox, ''), follower_inbox)
SharedInbox(q) == IF q \in Hub THEN HubInbox ELSE q
Host(i) == IF i \in Hub THEN HubInbox ELSE i
FollowerInboxes == {SharedInbox(q) : q \in approved}

Visibility == {"public", "followers", "direct"}
Stage == {"none", "list", "check", "insert", "approved", "fan", "extra",
          "cli", "clifan", "done", "failed"}
DropStage == {"idle", "approved", "fan", "shell", "delete"}
SaveStage == {"idle", "clear", "add"}

AnyPost == CHOOSE p \in Post : TRUE

TypeOK ==
  /\ visibility \in [Post -> Visibility] /\ federated \in [Post -> BOOLEAN]
  /\ replyTo \in [Post -> Inbox \cup {NoOne}]
  /\ cli \subseteq Post /\ times \in [Post -> [Peer -> Nat]]
  /\ posts \subseteq Post /\ gone \subseteq Post /\ pulled \subseteq gone
  /\ creates \in [Post -> [Inbox -> Nat]]
  /\ deletes \in [Post -> SUBSET Inbox]
  /\ approved \subseteq Peer /\ admitted \subseteq Inbox /\ moved \subseteq Inbox
  /\ members \subseteq Peer /\ wanted \subseteq Peer
  /\ make \in [Post -> Stage]
  /\ todo \in [Post -> SUBSET Inbox] /\ kept \in [Post -> SUBSET Inbox]
  /\ again \in [Post -> [Peer -> Nat]]
  /\ drop \in [Deletion -> DropStage] /\ victim \in [Deletion -> Post]
  /\ dtodo \in [Deletion -> SUBSET Inbox] /\ dkept \in [Deletion -> SUBSET Inbox]
  /\ save \in [Save -> SaveStage]
  /\ stodo \in [Save -> SUBSET Peer] /\ swanted \in [Save -> SUBSET Peer]
  /\ sending \subseteq Post \X Inbox
  /\ held \in [Post -> SUBSET Inbox] /\ meant \in [Post -> SUBSET Peer]
  /\ changes \in Nat /\ saves \in Nat

Init ==
  /\ visibility = [p \in Post |-> "public"]
  /\ federated = [p \in Post |-> FALSE]
  /\ replyTo = [p \in Post |-> NoOne]
  /\ cli = {} /\ posts = {} /\ gone = {} /\ pulled = {}
  /\ times = [p \in Post |-> [q \in Peer |-> 0]] /\ again = times
  /\ creates = [p \in Post |-> [i \in Inbox |-> 0]]
  /\ deletes = [p \in Post |-> {}]
  /\ approved \in SUBSET Peer /\ admitted \in SUBSET {Host(i) : i \in Inbox}
  /\ moved = {} /\ changes = 0
  /\ members = {} /\ wanted = {} /\ saves = 0
  /\ make = [p \in Post |-> "none"]
  /\ todo = [p \in Post |-> {}] /\ kept = [p \in Post |-> {}]
  /\ drop = [r \in Deletion |-> "idle"] /\ victim = [r \in Deletion |-> AnyPost]
  /\ dtodo = [r \in Deletion |-> {}] /\ dkept = [r \in Deletion |-> {}]
  /\ save = [s \in Save |-> "idle"]
  /\ stodo = [s \in Save |-> {}] /\ swanted = [s \in Save |-> {}]
  /\ sending = {} /\ held = [p \in Post |-> {}] /\ meant = [p \in Post |-> {}]

-----------------------------------------------------------------------------
(* What others do meanwhile.                                               *)

\* A follower is approved, rejected or leaves (see FollowGraph).
ChangeFollower(q) ==
  /\ changes < MaxChanges
  /\ approved' = IF q \in approved THEN approved \ {q} ELSE approved \cup {q}
  /\ moved' = moved \cup {q, SharedInbox(q)}
  /\ changes' = changes + 1
  /\ UNCHANGED <<ask, posts, rows, making, dropping, saving, admitted, copies,
                 ended, meant>>

\* The owner edits closed_network or the allowlist.
ChangeHost(h) ==
  /\ changes < MaxChanges
  /\ h \in {Host(i) : i \in Inbox}
  /\ admitted' = IF h \in admitted THEN admitted \ {h} ELSE admitted \cup {h}
  /\ moved' = moved \cup {i \in Inbox : Host(i) = h}
  /\ changes' = changes + 1
  /\ UNCHANGED <<ask, posts, rows, making, dropping, saving, approved, copies,
                 ended, meant>>

-----------------------------------------------------------------------------
(* owner_upsert_audience_list replaces the members row by row, without a   *)
(* transaction; owner_delete_audience_list deletes them.                   *)

Busy == {s \in Save : save[s] # "idle"}

SaveList(s, new) ==
  /\ save[s] = "idle" /\ saves < MaxSaves
  /\ save' = [save EXCEPT ![s] = "clear"]
  /\ stodo' = [stodo EXCEPT ![s] = new]
  /\ swanted' = [swanted EXCEPT ![s] = new]
  /\ wanted' = wanted \cup new
  /\ saves' = saves + 1
  /\ UNCHANGED <<ask, posts, rows, making, dropping, members, world, copies,
                 ended, meant>>

\* DELETE FROM audience_list_members.
ClearMembers(s) ==
  /\ save[s] = "clear"
  /\ members' = {}
  /\ save' = [save EXCEPT ![s] = "add"]
  /\ wanted' = UNION {swanted[t] : t \in Busy}
  /\ UNCHANGED <<ask, posts, rows, making, dropping, stodo, swanted, saves,
                 world, copies, ended, meant>>

\* One INSERT; the primary key refuses a member another save put there.
AddMember(s, q) ==
  /\ save[s] = "add" /\ q \in stodo[s] /\ q \notin members
  /\ members' = members \cup {q}
  /\ stodo' = [stodo EXCEPT ![s] = @ \ {q}]
  /\ UNCHANGED <<ask, posts, rows, making, dropping, save, wanted, swanted,
                 saves, world, copies, ended, meant>>

\* The save has inserted all, or an error or the runtime ends it.
EndSave(s) ==
  /\ save[s] # "idle"
  /\ save' = [save EXCEPT ![s] = "idle"]
  /\ stodo' = [stodo EXCEPT ![s] = {}]
  /\ swanted' = [swanted EXCEPT ![s] = {}]
  /\ UNCHANGED <<ask, posts, rows, making, dropping, members, wanted, saves,
                 world, copies, ended, meant>>

DeleteList ==
  /\ members # {}
  /\ members' = {}
  /\ UNCHANGED <<ask, posts, rows, making, dropping, save, stodo, wanted,
                 swanted, saves, world, copies, ended, meant>>

-----------------------------------------------------------------------------
(* owner_create_post.                                                      *)

\* Up to the first await.  An audience list needs direct visibility, a direct
\* post needs recipients, and private posts cannot route only to atproto.
StartPost(p, v, f, r, named, listed) ==
  /\ make[p] = "none"
  /\ f \/ v = "public"
  /\ listed => v = "direct"
  /\ (v = "direct") <=> (named # {} \/ listed)
  /\ visibility' = [visibility EXCEPT ![p] = v]
  /\ federated' = [federated EXCEPT ![p] = f]
  /\ replyTo' = [replyTo EXCEPT ![p] = r]
  /\ make' = [make EXCEPT ![p] = IF listed THEN "list"
                                 ELSE IF v = "direct" THEN "check" ELSE "insert"]
  /\ todo' = [todo EXCEPT ![p] = named]
  /\ meant' = [meant EXCEPT ![p] = named]
  /\ UNCHANGED <<cli, times, posts, rows, kept, again, dropping, saving, world,
                 copies, ended>>

\* owner_audience_list_recipient_actors; an empty list is refused.
ReadList(p) ==
  /\ make[p] = "list" /\ members # {}
  /\ make' = [make EXCEPT ![p] = "check"]
  /\ todo' = [todo EXCEPT ![p] = @ \cup members]
  /\ meant' = [meant EXCEPT ![p] = @ \cup wanted]
  /\ UNCHANGED <<ask, posts, rows, kept, again, dropping, saving, world,
                 copies, ended>>

\* Mutant of CheckRecipient: recipients that are not approved are let through.
CheckNobody(p, q) ==
  /\ make[p] = "check" /\ q \in todo[p]
  /\ todo' = [todo EXCEPT ![p] = @ \ {q}]
  /\ kept' = [kept EXCEPT ![p] = @ \cup {q}]
  /\ UNCHANGED <<ask, posts, rows, make, again, dropping, saving, world,
                 copies, ended, meant>>

\* owner_direct_delivery_targets: every recipient must be approved.
CheckRecipient(p, q) ==
  /\ make[p] = "check" /\ q \in todo[p] /\ q \in approved
  /\ todo' = [todo EXCEPT ![p] = @ \ {q}]
  /\ kept' = [kept EXCEPT ![p] = @ \cup {q}]
  /\ UNCHANGED <<ask, posts, rows, make, again, dropping, saving, world,
                 copies, ended, meant>>

ReplyTarget(p) == {replyTo[p]} \ {NoOne}

\* The INSERT.  Deliveries follow if the protocol asks for them.
InsertPost(p) ==
  /\ \/ make[p] = "insert"
     \/ make[p] = "check" /\ todo[p] = {}
  /\ posts' = posts \cup {p}
  /\ \/ ~federated[p] /\ make' = [make EXCEPT ![p] = "done"] /\ UNCHANGED todo
     \/ /\ federated[p] /\ visibility[p] = "direct"
        /\ make' = [make EXCEPT ![p] = "fan"]
        /\ todo' = [todo EXCEPT ![p] = kept[p] \cup ReplyTarget(p)]
     \/ /\ federated[p] /\ visibility[p] # "direct"
        /\ make' = [make EXCEPT ![p] = "approved"]
        /\ UNCHANGED todo
  /\ kept' = [kept EXCEPT ![p] = {}]
  /\ UNCHANGED <<ask, rows, again, dropping, saving, world, copies, ended,
                 meant>>

\* Mutant of ReadFollowers: the personal inboxes are taken.
ReadPersonal(p) ==
  /\ make[p] = "approved"
  /\ make' = [make EXCEPT ![p] = "fan"]
  /\ todo' = [todo EXCEPT ![p] = approved]
  /\ UNCHANGED <<ask, posts, rows, kept, again, dropping, saving, world,
                 copies, ended, meant>>

\* owner_approved_follower_inboxes.
ReadFollowers(p) ==
  /\ make[p] = "approved"
  /\ make' = [make EXCEPT ![p] = "fan"]
  /\ todo' = [todo EXCEPT ![p] = FollowerInboxes]
  /\ UNCHANGED <<ask, posts, rows, kept, again, dropping, saving, world,
                 copies, ended, meant>>

Fanning(p) == make[p] \in {"fan", "extra"}

\* insert_delivery_rows, first loop: owner_federation_target_allowed ...
Filter(p, i) ==
  /\ Fanning(p) /\ i \in todo[p]
  /\ todo' = [todo EXCEPT ![p] = @ \ {i}]
  /\ kept' = [kept EXCEPT ![p] = IF Host(i) \in admitted THEN @ \cup {i} ELSE @]
  /\ UNCHANGED <<ask, posts, rows, make, again, dropping, saving, world,
                 copies, ended, meant>>

\* ... and second loop: one INSERT for each inbox.
InsertRow(p, i) ==
  /\ Fanning(p) /\ todo[p] = {} /\ i \in kept[p]
  /\ kept' = [kept EXCEPT ![p] = @ \ {i}]
  /\ creates' = [creates EXCEPT ![p][i] = @ + 1]
  /\ UNCHANGED <<ask, posts, deletes, make, todo, again, dropping, saving,
                 world, copies, ended, meant>>

\* Mutant of EndBatch: a direct post's reply target has a second batch too.
EndBatchAgain(p) ==
  /\ Fanning(p) /\ todo[p] = {} /\ kept[p] = {}
  /\ \/ /\ make[p] = "fan" /\ ReplyTarget(p) # {}
        /\ make' = [make EXCEPT ![p] = "extra"]
        /\ todo' = [todo EXCEPT ![p] = ReplyTarget(p)]
     \/ /\ make[p] = "extra" \/ ReplyTarget(p) = {}
        /\ make' = [make EXCEPT ![p] = "done"]
        /\ UNCHANGED todo
  /\ UNCHANGED <<ask, posts, rows, kept, again, dropping, saving, world,
                 copies, ended, meant>>

\* A batch is in.  Except for direct posts, which have it among their targets
\* already, the reply's target is a second batch.
EndBatch(p) ==
  /\ Fanning(p) /\ todo[p] = {} /\ kept[p] = {}
  /\ \/ /\ make[p] = "fan" /\ visibility[p] # "direct" /\ ReplyTarget(p) # {}
        /\ make' = [make EXCEPT ![p] = "extra"]
        /\ todo' = [todo EXCEPT ![p] = ReplyTarget(p)]
     \/ /\ make[p] = "extra" \/ visibility[p] = "direct" \/ ReplyTarget(p) = {}
        /\ make' = [make EXCEPT ![p] = "done"]
        /\ UNCHANGED todo
  /\ UNCHANGED <<ask, posts, rows, kept, again, dropping, saving, world,
                 copies, ended, meant>>

\* An error returns early, or the runtime ends the request: an empty list, a
\* recipient who is not approved, a failed statement, a row whose id (post,
\* inbox and millisecond) is taken.  What was written stays.
FailPost(p) ==
  /\ make[p] \notin {"none", "done", "failed"}
  /\ make' = [make EXCEPT ![p] = "failed"]
  /\ todo' = [todo EXCEPT ![p] = {}]
  /\ kept' = [kept EXCEPT ![p] = {}]
  /\ again' = [again EXCEPT ![p] = [q \in Peer |-> 0]]
  /\ UNCHANGED <<ask, posts, rows, dropping, saving, world, copies, ended,
                 meant>>

-----------------------------------------------------------------------------
(* The command line's publish_post: the post goes in first, and then one   *)
(* row for each follower, whether or not followers share an inbox.  It     *)
(* sends nothing to the target of a reply and reads no audience list.  Its *)
(* --to is a list, in which a peer may come up several times.  Its rows    *)
(* wait for somebody to process them.                                      *)

Named(to) == {q \in Peer : to[q] > 0}
Repeats(to) == [q \in Peer |-> IF to[q] > 0 THEN to[q] - 1 ELSE 0]

CliPosts(p, v, to) ==
  /\ make[p] = "none"
  /\ (v = "direct") <=> (Named(to) # {})
  /\ times' = [times EXCEPT ![p] = to]
  /\ again' = [again EXCEPT ![p] = Repeats(to)]
  /\ cli' = cli \cup {p}
  /\ visibility' = [visibility EXCEPT ![p] = v]
  /\ federated' = [federated EXCEPT ![p] = TRUE]
  /\ posts' = posts \cup {p}
  /\ make' = [make EXCEPT ![p] = "cli"]
  /\ todo' = [todo EXCEPT ![p] = Named(to)]
  /\ meant' = [meant EXCEPT ![p] = Named(to)]
  /\ UNCHANGED <<replyTo, rows, kept, dropping, saving, world, copies, ended>>

\* list_followers, which stops at 200 rows (d1.rs:1468 cuts the 500 it is asked
\* for): here the table has no more than that.  A direct recipient who is not
\* approved ends it, with the post in.
CliReadsFollowers(p) ==
  /\ make[p] = "cli" /\ todo[p] \subseteq approved
  /\ make' = [make EXCEPT ![p] = "clifan"]
  /\ todo' = IF visibility[p] = "direct" THEN todo ELSE [todo EXCEPT ![p] = approved]
  /\ UNCHANGED <<ask, posts, rows, kept, again, dropping, saving, world,
                 copies, ended, meant>>

CliTarget(p, q) == IF visibility[p] = "direct" THEN q ELSE SharedInbox(q)

\* For each follower, or entry of --to, is_federation_target_allowed ...
CliFilter(p, q) ==
  /\ make[p] = "clifan" /\ kept[p] = {} /\ q \in todo[p]
  /\ \/ again[p][q] = 0 /\ todo' = [todo EXCEPT ![p] = @ \ {q}] /\ again' = again
     \/ again[p][q] > 0 /\ again' = [again EXCEPT ![p][q] = @ - 1] /\ todo' = todo
  /\ kept' = [kept EXCEPT ![p] = {i \in {CliTarget(p, q)} : Host(i) \in admitted}]
  /\ UNCHANGED <<ask, posts, rows, make, dropping, saving, world, copies,
                 ended, meant>>

\* ... and the INSERT.
CliInsertsRow(p, i) ==
  /\ make[p] = "clifan" /\ i \in kept[p]
  /\ kept' = [kept EXCEPT ![p] = @ \ {i}]
  /\ creates' = [creates EXCEPT ![p][i] = @ + 1]
  /\ UNCHANGED <<ask, posts, deletes, make, todo, again, dropping, saving,
                 world, copies, ended, meant>>

CliEnds(p) ==
  /\ make[p] = "clifan" /\ todo[p] = {} /\ kept[p] = {}
  /\ make' = [make EXCEPT ![p] = "done"]
  /\ UNCHANGED <<ask, posts, rows, todo, kept, again, dropping, saving, world,
                 copies, ended, meant>>

-----------------------------------------------------------------------------
(* owner_delete_post.                                                      *)

\* The SELECT.  Nobody is told of the end of a direct post.
StartDelete(r, p) ==
  /\ drop[r] = "idle" /\ p \in posts
  /\ victim' = [victim EXCEPT ![r] = p]
  /\ drop' = [drop EXCEPT ![r] =
       IF federated[p] /\ visibility[p] # "direct" THEN "approved" ELSE "delete"]
  /\ UNCHANGED <<ask, posts, rows, making, dtodo, dkept, saving, world, copies,
                 ended, meant>>

DeleteReadsFollowers(r) ==
  /\ drop[r] = "approved"
  /\ drop' = [drop EXCEPT ![r] = "fan"]
  /\ dtodo' = [dtodo EXCEPT ![r] = FollowerInboxes]
  /\ UNCHANGED <<ask, posts, rows, making, victim, dkept, saving, world,
                 copies, ended, meant>>

\* delete_activitypub_post of the command line takes any id the owner has seen,
\* of a direct post too, and begins with the followers.
CliDeletes(r, p) ==
  /\ drop[r] = "idle" /\ p \in posts \cup gone
  /\ victim' = [victim EXCEPT ![r] = p]
  /\ drop' = [drop EXCEPT ![r] = "shell"]
  /\ dtodo' = [dtodo EXCEPT ![r] = FollowerInboxes]
  /\ UNCHANGED <<ask, posts, rows, making, dkept, saving, world, copies, ended,
                 meant>>

\* There an allowlist that cannot be read lets nobody through.
CliSkips(r, i) ==
  /\ drop[r] = "shell" /\ i \in dtodo[r] /\ changes < MaxChanges
  /\ dtodo' = [dtodo EXCEPT ![r] = @ \ {i}]
  /\ moved' = moved \cup {i}
  /\ changes' = changes + 1
  /\ UNCHANGED <<ask, posts, rows, making, drop, victim, dkept, saving,
                 approved, admitted, copies, ended, meant>>

\* From here on both do the same: let the inboxes through, insert their rows,
\* delete the post.
DropFans(r) == drop[r] \in {"fan", "shell"}

DeleteFilter(r, i) ==
  /\ DropFans(r) /\ i \in dtodo[r]
  /\ dtodo' = [dtodo EXCEPT ![r] = @ \ {i}]
  /\ dkept' = [dkept EXCEPT ![r] = IF Host(i) \in admitted THEN @ \cup {i} ELSE @]
  /\ UNCHANGED <<ask, posts, rows, making, drop, victim, saving, world, copies,
                 ended, meant>>

DeleteInsertsRow(r, i) ==
  /\ DropFans(r) /\ dtodo[r] = {} /\ i \in dkept[r]
  /\ dkept' = [dkept EXCEPT ![r] = @ \ {i}]
  /\ deletes' = [deletes EXCEPT ![victim[r]] = @ \cup {i}]
  /\ UNCHANGED <<ask, posts, creates, making, drop, victim, dtodo, saving,
                 world, copies, ended, meant>>

\* Mutant of DeletePost: the row goes before the Deletes are in.
DeletePostEarly(r) ==
  /\ DropFans(r) \/ drop[r] = "delete"
  /\ posts' = posts \ {victim[r]}
  /\ gone' = gone \cup (posts \cap {victim[r]})
  /\ drop' = [drop EXCEPT ![r] = "idle"]
  /\ dtodo' = [dtodo EXCEPT ![r] = {}] /\ dkept' = [dkept EXCEPT ![r] = {}]
  /\ UNCHANGED <<ask, rows, making, victim, saving, world, copies, pulled,
                 meant>>

\* DELETE FROM posts, once every row is in.
DeletePost(r) ==
  /\ \/ drop[r] = "delete"
     \/ DropFans(r) /\ dtodo[r] = {} /\ dkept[r] = {}
  /\ posts' = posts \ {victim[r]}
  /\ gone' = gone \cup (posts \cap {victim[r]})
  /\ drop' = [drop EXCEPT ![r] = "idle"]
  /\ UNCHANGED <<ask, rows, making, victim, dtodo, dkept, saving, world,
                 copies, pulled, meant>>

FailDelete(r) ==
  /\ drop[r] # "idle"
  /\ drop' = [drop EXCEPT ![r] = "idle"]
  /\ dtodo' = [dtodo EXCEPT ![r] = {}] /\ dkept' = [dkept EXCEPT ![r] = {}]
  /\ UNCHANGED <<ask, posts, rows, making, victim, saving, world, copies,
                 ended, meant>>

\* deleteRecord of the PDS is one statement, for any public post, delivered over
\* ActivityPub or not, and tells nobody.
PdsDeletes(p) ==
  /\ p \in posts /\ visibility[p] = "public"
  /\ posts' = posts \ {p}
  /\ gone' = gone \cup {p} /\ pulled' = pulled \cup {p}
  /\ UNCHANGED <<ask, rows, making, dropping, saving, world, copies, meant>>

-----------------------------------------------------------------------------
(* The delivery worker, as far as it touches posts.  A Create row holds no *)
(* activity: process_delivery builds it from the post's row when it sends, *)
(* and of a post that is gone it has no author and no text to send.        *)

\* Mutant of Build: the activity would have been stored in the row.
BuildStored(p, i) ==
  /\ creates[p][i] > 0 /\ Host(i) \in admitted
  /\ sending' = sending \cup {<<p, i>>}
  /\ UNCHANGED <<ask, posts, rows, making, dropping, saving, world, held,
                 ended, meant>>

Build(p, i) ==
  /\ creates[p][i] > 0 /\ p \in posts /\ Host(i) \in admitted
  /\ sending' = sending \cup {<<p, i>>}
  /\ UNCHANGED <<ask, posts, rows, making, dropping, saving, world, held,
                 ended, meant>>

\* The inbox takes the Create, or it does not.
Arrive(p, i) ==
  /\ <<p, i>> \in sending
  /\ sending' = sending \ {<<p, i>>}
  /\ held' \in {held, [held EXCEPT ![p] = @ \cup {i}]}
  /\ UNCHANGED <<ask, posts, rows, making, dropping, saving, world, ended,
                 meant>>

-----------------------------------------------------------------------------

\* Bounds: the list is edited only while a post may still read it, before a post
\* only if it does, and a post that does is no reply and names nobody besides;
\* once read it is a direct post like others, of which the deletions are shown.
\* A post for the followers does nothing a public one does not.  The command line
\* names one peer, or two between them, at most MaxTimes and deletes what it posted
\* and is still there.
Asked == Visibility \ {"followers"}
ListMatters == \A p \in Post : make[p] \in {"none", "list"}

Create(p) ==
  \/ \E v \in Asked, f, listed \in BOOLEAN, named \in SUBSET Peer,
        r \in {SharedInbox(q) : q \in Peer} \cup {NoOne} :
       /\ IF listed THEN r = NoOne /\ named = {} ELSE saves = 0
       /\ StartPost(p, v, f, r, named, listed)
  \/ ReadList(p) \/ InsertPost(p) \/ ReadFollowers(p) \/ EndBatch(p) \/ FailPost(p)
  \/ \E q \in Peer : CheckRecipient(p, q)
  \/ \E i \in Inbox : Filter(p, i) \/ InsertRow(p, i)
  \/ \E v \in Asked, to \in [Peer -> 0 .. MaxTimes] :
       /\ saves = 0 /\ \A q, k \in Peer : q # k => to[q] + to[k] <= MaxTimes
       /\ CliPosts(p, v, to)
  \/ CliReadsFollowers(p) \/ CliEnds(p)
  \/ \E q \in Peer : CliFilter(p, q)
  \/ \E i \in Inbox : CliInsertsRow(p, i)

Delete(r) ==
  \/ \E p \in Post : saves = 0 /\ StartDelete(r, p)
  \/ \E p \in posts \cap cli : CliDeletes(r, p)
  \/ DeleteReadsFollowers(r) \/ DeletePost(r) \/ FailDelete(r)
  \/ \E i \in Inbox : DeleteFilter(r, i) \/ DeleteInsertsRow(r, i) \/ CliSkips(r, i)

EditList ==
  /\ ListMatters
  /\ \/ DeleteList
     \/ \E s \in Save :
          \/ \E new \in SUBSET Peer : SaveList(s, new)
          \/ ClearMembers(s) \/ EndSave(s)
          \/ \E q \in Peer : AddMember(s, q)

Next ==
  \/ \E p \in Post : Create(p)
  \/ \E p \in Post, i \in Inbox : Build(p, i) \/ Arrive(p, i)
  \/ \E r \in Deletion : Delete(r)
  \/ \E p \in Post : PdsDeletes(p)
  \/ EditList
  \/ \E q \in Peer : ChangeFollower(q)
  \/ \E h \in Inbox : ChangeHost(h)

Spec == Init /\ [][Next]_vars

-----------------------------------------------------------------------------
(* Properties.                                                             *)

\* Whoever took the Create of a post and is still a follower has a Delete
\* queued once the post is gone, however creation, deletions, sending and
\* failures interleave: owner_delete_post inserts every row before it deletes
\* the post.  Out of it are direct posts and the targets of replies who do not
\* follow, who are told nothing, inboxes whose followers or admission changed on
\* the way (`moved`), and public posts that deleteRecord of the PDS took away
\* (pds/src/lib.rs:642-654), of which nobody is told.
HoldersAreTold ==
  \A p \in gone \ pulled : visibility[p] # "direct" =>
    held[p] \cap FollowerInboxes \subseteq deletes[p] \cup moved

\* A direct post has rows only for the personal inboxes of peers the owner
\* meant: named in the request, or members by a save of the list that was in
\* force when it was read, though members are replaced row by row and saves
\* overlap.  They are approved, or were until something changed.
DirectIsMeant ==
  \A p \in Post, i \in Inbox :
    visibility[p] = "direct" /\ creates[p][i] > 0 /\ i # replyTo[p] =>
      /\ i \in meant[p]
      /\ i \in approved \cup moved

\* When owner_create_post has gone through, every follower's inbox the closed
\* network lets through has the Create queued, unless something changed about
\* it meanwhile.
FollowersAreQueued ==
  \A p \in Post :
    make[p] = "done" /\ federated[p] /\ visibility[p] # "direct" =>
      \A i \in FollowerInboxes \ moved :
        Host(i) \in admitted => creates[p][i] > 0

\* No inbox gets a Create twice, though followers share one, except the one
\* that a post replies to (posts.rs:587 adds it after the followers), and from
\* the command line the shared one (client/d1.rs:472 inserts a row per follower)
\* and a peer's that --to names more than once (cli.rs:295 and d1.rs:515-563 drop
\* no repetition), which has no more rows than it is named.
NoTwins ==
  \A p \in Post, i \in Inbox :
    creates[p][i] > 1 =>
      \/ visibility[p] # "direct" /\ i = IF p \in cli THEN HubInbox ELSE replyTo[p]
      \/ p \in cli /\ i \in Peer /\ creates[p][i] <= times[p][i]

\* Once a post is gone no copy starts on its way any more, although its Create
\* rows stay queued, and creation may still be inserting some: what arrives
\* had been built before.
GoneStaysGone ==
  [][\A p \in gone, i \in Inbox :
       i \notin held[p] /\ <<p, i>> \notin sending
         => i \notin held'[p] /\ <<p, i>> \notin sending']_vars

=============================================================================
