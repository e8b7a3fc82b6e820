# dais in TLA+

dais is a single-user social server: an ActivityPub actor and an AT Protocol
PDS on Cloudflare Workers, D1 (SQLite), Queues, R2 and one Durable Object, with a
command line, a terminal and a desktop client for its owner. This directory
models the parts of it whose correctness depends on the order in which requests,
queue messages, alarms and failures happen.

## The system

What runs: three Workers are deployed (`router`, `pds`, `landing`); six older
ones (`actor`, `auth`, `delivery-queue`, `inbox`, `outbox`, `webfinger`) are kept
for split deployments. Every HTTP request, queue batch and alarm is an invocation
of its own; invocations share nothing in memory and meet in D1. D1 runs each
statement atomically, and the code uses no transactions: between two statements of
one handler any other invocation may run, and the handler may stop there. The
clients are processes of their own on one machine, and meet in its files.

| Component | State | Operations | What is hard | What makes it correct |
|---|---|---|---|---|
| Delivery pipeline: `workers/delivery-queue`, `core/activitypub/delivery.rs`, `router/deliveries.rs` | table `deliveries`, the queue and its dead-letter queue | insert rows, enqueue, consume, POST, record, owner retry and cancel, expunge | reads used after awaits, UPDATEs by id alone, redelivery, lost UPDATEs | a row says only what happened; no row is dropped or given up early; the owner's word holds |
| Follow graph: `router/activitypub_routes.rs`, `router/social.rs`, `core/activitypub/inbox.rs` | tables `followers`, `following`, `blocks`, `federation_allowlist` | Follow, Undo, Accept, Reject; the owner follows, approves, rejects, blocks, from the API or from the command line | repeated, late and reordered activities; two implementations of one inbox | approval is the owner's alone; friends agreed; the peer is told |
| Posts: `router/{posts,audience,deliveries}.rs`, `client/{posting,d1}.rs` | tables `posts`, `audience_list_members`, rows of `deliveries` | create, fan out, delete, save a list | recipients read before and used after awaits, rows inserted one by one, deletion while Creates are in flight | who holds a copy is told of its end; direct posts go to whom they were meant for |
| Inbound notes and moderation: `router/{activitypub_routes,moderation}.rs`, `core/activitypub/inbox.rs` | tables `timeline_posts`, `replies`, `interactions`, `notifications`, `moderation_settings` | Create, Update, Delete, Like, Announce, Undo; settings, decisions, reclassification | repeated and late activities, settings and decisions that change while a reply is in hand | notices tell of what was stored; withdrawals hold; decisions and settings are in force |
| Firehose consumer: `router/firehose.rs` | Durable Object `FirehoseSubscription` (socket), table `atproto_firehose_checkpoint`, the index | fetch, alarm, watchdog, read loop, flush | awaits inside the object interleave its handlers; restarts | the index goes forward and shows what the cursor has passed; a stopped consumer comes back; no second counts twice |
| AT repository: `core/atproto/{mst,repo,car}.rs`, `workers/pds`, `router/mastodon_api.rs` | tables `posts`, `following` (they are the records), the revision, the tree of a snapshot | create, edit and delete records; read a snapshot page by page; export; look a record up | pages read while rows come and go; a revision made from a count; the shape of the tree | each record once, the same revision the same repository, lookups right |
| End-to-end messages: `router/e2ee.rs`, `core/e2ee_wire.rs` | tables `e2ee_devices`, `e2ee_peer_devices`, `e2ee_conversations`, `e2ee_messages`, `e2ee_mls_message_metadata`, rows of `deliveries` | register and revoke a device; discover, trust and revoke the peer's; send, receive, delete | trust read before an await and written after it; deletions that meet sends; half-done deletions | trust is the owner's word for that material; a deletion takes its message and no other |
| Clients' MLS state: `core/e2ee_mls.rs`, `client/{config,main,tui}.rs`, `apps/dais-desk` | files: device keys, groups with their ratchets, plaintexts already opened | publish a key package, encrypt, decrypt, join by a welcome | whole files read, changed in memory and written back by overlapping clients; crashes between a POST and a save; messages in any order | no key seals two messages; what has arrived can be read |
| Sources: `router/sources.rs`, `client/{sources,d1}.rs` | tables `source_subscriptions`, `source_items` | add, delete, refresh, synchronise watches with the follows | batches overlap; a row is read at the start of a batch and written at its end | the ETag never hides an item; a watch made by hand is left alone; what is due gets its turn |
| Public search, media: `router/{public_search,media}.rs` | none; objects in R2 under fresh keys | search, upload, serve | | |
| Read policies: `core/activitypub/security.rs`, `router/activitypub.rs` | none of their own | serve an actor, an outbox, a post | two implementations | |
| Owner API and sessions: `router/{owner,owner_auth}.rs`, `workers/auth` | tokens | authenticate, dispatch | | only the owner acts |
| Mastodon API: `router/{mastodon,mastodon_api}.rs` | translates to the tables above | | | |
| Signatures, WebFinger, actor documents, serialisation, HTML | none | | | pure functions and I/O |
| Screens and commands: `client`, `client-core`, `apps/*`, `conformance` | what is on the screen | one request each | a terminal's screen lags behind the server | |

## Modules

| Module | What it is |
|---|---|
| `Delivery` | rows of `deliveries`, the queue, the invocations, the owner; its properties |
| `Outbox` | what the pipeline promises of one activity: who took it up before it was settled may still send it, nobody else |
| `DeliveryProofs` | theorems about `Delivery`, among them that it implements `Outbox` |
| `FollowGraph`, `FollowGraphProofs` | `followers`, `following`, both inboxes, the owner's requests; theorems |
| `Posts`, `PostsProofs` | the owner's posts from creation to deletion, fan-out, the audience list; theorems |
| `Inbound` | notes, replies and marks of remote authors behind both inboxes, the notifications |
| `Moderation`, `ModerationProofs` | `Inbound` together with the owner's moderation of replies, the properties of the two; theorems about both |
| `Firehose` | the Durable Object, its checkpoint, Jetstream, the index |
| `Index` | what the consumer promises of the index: later changes replace earlier ones, and what is covered is shown |
| `FirehoseProofs` | theorems about `Firehose`, among them that it implements `Index` |
| `Mst` | the algorithms of `core/atproto/mst.rs` on small keys: how a tree is laid out, how a key is looked up |
| `RepoTree` | `Mst` checked against what a map of keys to records means |
| `Repo`, `RepoProofs` | record writes, the revision, the paged reading of a snapshot; theorems |
| `Sources`, `SourcesProofs` | feeds and watches, the cron job, the owner's requests; theorems |
| `E2ee` | trust in a peer's devices, the rows of one encrypted conversation |
| `Mls` | the files the owner's clients share, and what becomes of each message; names it would share with `E2ee` begin with `Mls` |
| `E2eeProofs` | theorems about `E2ee` and `Mls` |
| `MC...` | the symmetries of each model's small instances |

Definitions called "Mutant of ..." are wrong versions of the definition after
them. No specification uses them; put in the definition's place, each breaks a
property, which shows that the property says something about that definition.
Variables under "History" are read by properties only.

How the modules meet: `Posts`, `FollowGraph` and `E2ee` hand rows of `deliveries`
on, and `Delivery` says what becomes of one; `Outbox` is the promise the former
may rely on. `Moderation` extends `Inbound` with actions on the same rows.
`FollowGraph` decides who is an approved follower, which `Posts` takes as given and
changing. `E2ee` stores what `Mls` encrypts and decrypts.

### Delivery

| Code | Model |
|---|---|
| a row of `deliveries` | `status`, `retry_count`, `error_message`, `delivered_at`; `none` before the INSERT, `gone` after a DELETE |
| the queue of `wrangler.toml` and its dead letters | `mstate`, `mfor`, `attempts`; a batch is so many invocations |
| one call of `process_delivery` | a `Worker`: `pc` is the await it stands at, `job` and `snapshot` (the `retry_count` of its SELECT) what it has read |
| SELECT, `is_federation_host_allowed`, POST, UPDATE, `ack` or `retry` | `Select`, `CheckHost`, `Post`, `MarkDelivered` / `MarkRefused` / `MarkBlocked`, `Ack` / `Again` |
| `/deliveries/enqueue`, `/deliveries/process` | `EnqueueCheck` then `EnqueueSend` or `EnqueueFail`; `AdminProcess` |
| `owner_update_delivery_status` | `OwnerCheck`, then `OwnerRetry` or `OwnerCancel`, by id alone |
| a failed UPDATE (logged only), a failed read, a dying invocation | `LoseUpdate`, `Fail`, `Crash`, all bounded by `MaxFaults` |

A POST that the inbox processed but whose answer got lost counts as refused: the
sender cannot tell. That is why an activity can arrive twice, and nothing here
claims it does not.

`Outbox` says it from the outside, for each row: it is open, settled or withdrawn,
and only invocations that took it up while it was open may send it. The mapping of
`Delivery` hides the queue, the counts and where each invocation stands.

### FollowGraph

`inbox` picks the router's inbox (the deployed one) or the core's (the split
`inbox` worker); where they differ, the action has a disjunct or a condition for
each: a repeated Follow, a Reject, blocks. Remote activities stay in `net` for
ever, so they may arrive late, repeatedly, out of order or never. An owner
request is cut between its statements: `ReadFollower`, `DecideFollower`,
`SendAccept` are `owner_set_follower_status`; `OwnerFollows`, `SendFollow` are
`owner_follow_actor`; `ReadFollowing`, `Unfollow`, `SendUndo` are
`owner_unfollow_actor`; `ReadApproved`, `PostAccept` are the delivery worker's
`handle_follower_accept`. `CliApproves`, `CliRejects` are the command line, which
writes `followers` itself. `sent` is what was handed to the delivery
pipeline, whose fate `Delivery` is about.

### Posts

| Code | Model |
|---|---|
| `owner_create_post`, from its checks on | `StartPost`, `ReadList`, `CheckRecipient`, `InsertPost`, `ReadFollowers`, then for each batch `Filter`, `InsertRow`, `EndBatch` (the two loops of `insert_delivery_rows`) |
| `owner_delete_post` | `StartDelete`, `DeleteReadsFollowers`, `DeleteFilter`, `DeleteInsertsRow`, `DeletePost` |
| `owner_upsert_audience_list`, `owner_delete_audience_list` | `SaveList`, `ClearMembers`, `AddMember`, `EndSave`; `DeleteList` |
| `process_delivery`, which builds a Create from the row of `posts` when it sends | `Build`, and `Arrive` or not |
| the command line's `publish_post` and `delete_activitypub_post`, which write the tables directly | `CliPosts`, `CliReadsFollowers`, then per follower `CliFilter`, `CliInsertsRow`, and `CliEnds`; `CliDeletes`, `CliSkips` |
| `deleteRecord` of the PDS: one statement, for any public post | `PdsDeletes` |
| an early return, a failed statement, an invocation that ends | `FailPost`, `FailDelete`, `EndSave` |

The command line differs: the post goes in before its recipients are looked at, a
shared inbox gets a row per follower, its `--to` is a list (`times`) in which a peer that
comes up twice gets two rows, a reply's target gets none, a direct post's
deletion goes to every follower, an allowlist that cannot be read counts as a no, and nobody
puts its rows on the queue. It reads 200 rows of followers where it asks for 500
(`client/d1.rs:1468`); the model takes the table to be no longer than that.

`held` is who has a copy, `moved` the inboxes whose followers or admission changed or was misread,
`pulled` the posts that the PDS deleted,
`meant` whom the owner had in mind: the list as some save wanted it, although the
rows of `audience_list_members` go through every mixture of two saves.

### Inbound and Moderation

Both inboxes again. An activity is taken in by `Take...` actions up to its first
await and goes on by one action per statement; `stage` is the statement that is
next. `Moderation` adds what the owner does to `replies`: loading the queue and
saving settings start a job whose list of replies is read at once and classified one
by one (`TakeList`, then `ReadPolicy`, `Write`), a decision is one UPDATE. A list is cut
after 120 replies, those of authors who are not modelled among them, so `TakeList` leaves
any part of what it could take; saving settings takes one list of all replies and then,
as `saver` says, loads the queue. `copies`, `concealed`,
`wavering`, `withdrawn`, `crossed`, `word`, `missed` are history: they say what the
properties except, and why.

### Firehose

The followed accounts' repositories are one log; change *i* is the Jetstream event
with `time_us` *i*, and the index shows a record *as of* a change. A handler
(`fetch`, the cron's, and `alarm`, the watchdog's) is cut at each await of
`watchdog_tick` and `ensure_running`; the borrowed `socket` cell is read and
written in between, in one turn of the object. A read loop stands at one of
`LoopAt`: waiting for a frame, proving a record, storing it, flushing (`beat` is
the flush after the very first message), refreshing its follows. `Restart` is an
eviction: memory goes, the alarm stays.

`Index` says from the outside what all this is for, with no cursors, connections or
failures: repositories change, the index shows a record as some change left it and only
moves on to later ones, and a change may be covered, so that nobody need look at it again,
only if it is shown. `Firehose` implements it (`Promise`): covered is what lies behind the
stored cursor, of the events a loop was given and did not fail on, of accounts followed
throughout; covered changes may be given up again, as when a replay of one fails. The
promise is broken off when two loops run at once (`firehose_two_loops` is why), which the
run's single connection rules out and the theorem does not.

### Repo, Mst, RepoTree

The PDS keeps no commits: each `getRepo`, `getLatestCommit`, `createRecord` and
`deleteRecord` takes the revision (the newest timestamp of five tables), reads the
records page by page, and builds the tree anew. `Repo` has the writers of those
tables (PDS, owner's API, Mastodon API) as single statements and the reading as
`TakeRevision`, `ReadProfile`, `ReadPage`, with `OFFSET` paging over tables that
change. Dates keep what decides: SQLite's format sorts before an ISO date of the
same day. A row of `following` for an ActivityPub actor is no record, but `repo_revision` counts
it: `FollowPeer`, `PeerAccepts`, `EndPeer` move the revision or take it back and change no
record. `Mst` is `mst_subtree`, `mst_get` and `apply_prefix`, with links as the
set of the node they lead to; `RepoTree` checks in every finished reading, for every
assignment of depths to its keys and every node left out, that a lookup answers
rightly or says that a node is missing. The code numbers levels from the least depth
of a key, which it puts at the root; `Mst` does likewise.

### Sources

| Code | Model |
|---|---|
| rows of `source_subscriptions`, `source_items` | `status`, `byFollow` (the policy's origin), `etag`, `due` (the order of `next_fetch_at`), `stored` |
| `sync_bluesky_follow_watches` | `StartSync`, `EnsureWatch` per follow, `PauseWatches` |
| the cron job's batch, the owner's refreshes | `PickDue`, `OwnerRefreshes`, then for each row `Fetch`, `Store` per item, `MarkRefreshed` or `Fails` and `MarkError` |
| `owner_upsert_source`, `owner_delete_source` | `OwnerAdds`, `OwnerDeletes` |

A feed is a version number and shows its latest `Window` items; an answer's ETag may
be missing. Foreign keys hold: an item without its source is refused.

### E2ee

One peer, so one conversation. Its rows are sets of message ids; a row of
`e2ee_peer_devices` is `trust[d]` and `material[d]`, whose fingerprint the code
compares. A request runs one of:

| Code | Model |
|---|---|
| `owner_discover_e2ee_peer_devices`, `owner_trust_e2ee_peer_device` | `Discover`, `OwnerTrusts`, then `ReadPeer` and `WritePeer` (`owner_upsert_peer_device_with_trust`); a discovery of several devices is as many requests |
| `peer_trust_state_after_material_update` | `TrustAfterUpdate` |
| `owner_revoke_e2ee_peer_device`; `owner_upsert_e2ee_device`, `owner_revoke_e2ee_device` | `RevokePeer`; `RegisterSender`, `RevokeSender`: one statement each |
| `owner_send_e2ee_message` | `BeginSend`, `CheckPeer`, `OpenConversation`, `InsertMessage`, `InsertMetadata`, `InsertDelivery` |
| `activitypub_store_e2ee_direct_message` | `Receive`, then the same three insertions |
| `owner_delete_e2ee_message` | `BeginDelete`, `DropMetadata`, `DropMessage`, `DropDeliveries`, `LookRemaining`, `Sweep` |

The foreign keys of migration 033 are enforced, as D1 does by default: an insertion
without the conversation fails and a deleted conversation takes its rows along, but
not `deliveries`, which reference nothing. `disturbed` collects the messages for
which the code promises nothing: stored while they were being deleted, stored into
the window between the last SELECT of a deletion and its DELETE of the conversation,
or left by a deletion that died half-way. `withdrawn` leaves out what a discovery had
read as trusted when the owner revoked it, because the code does write it back.

### Mls

The clients share files and nothing else. A send is `Seal` (read the group, encrypt,
export), `SaveSent`, `Post`; a reading is `Open` (join if need be, decrypt),
`SaveJoined`, `Cache`; `e2ee-mls-device-init` is `Publish`, `SaveDevice`. `FailSend`,
`FailRead`, `FailDevice` end a client between two of them or leave a file cut short.
OpenMLS is external: an incarnation of a group, a key per message, each key used once
by a reader and kept for `Window` messages. The three clients differ in what they try
(`Open`) and in what they save: the desktop client keeps no group it has joined.


## What is checked

| Run | Instance | States | What it shows |
|---|---|---|---|
| `delivery_overlap` | 1 row, 2 messages, 2 invocations, limits of 1, 1 owner retry, 1 fault | 1.2 M | only who took a row up while it was open sends it; nothing is given up early or dropped; a cancel holds |
| `delivery_single` | 1 row, 1 message, 1 invocation, the limits of the code (3 and 3), 1 administrator's request, 1 fault; fairness | 0.4 M | the queue's redeliveries and the code's limit agree; a carried row settles |
| `follow_graph` | 1 peer, 2 owner requests and the command line, 1 inbox request, 2 Follows in all, both inboxes | 1.6 M | approvals are the owner's, friends agreed, the peer is told, a block holds |
| `posts` | 1 post, 2 peers, one of them behind a shared inbox, 2 deletions, 2 saves of a list, 1 change of followers or allowlist, a `--to` of 2 | 2.8 M | who holds a copy is told of its end, but for the PDS's, a direct post goes to whom it was meant for, every follower is queued, once, and nothing starts out after the deletion |
| `inbound` | 1 note, 2 inbox requests, 3 activities, 1 follow, block or lifted block; 2 moderation jobs, 2 decisions or saved settings | 4.4 M | notices tell of stored rows, what is hidden is quiet, withdrawals, decisions and settings hold for what a save took up |
| `firehose_index` | 1 connection, 1 post and 1 like, 3 changes, 2 faults | 3.2 M | the cursor never passes what was not stored; the index does not go back; `Index` is implemented |
| `firehose_watchdog` | 1 connection, 2 days, a budget of 1 second, 1 follow or unfollow, 2 faults; fairness | 1.0 M | the alarm alone brings the consumer back; no second counts twice |
| `firehose_two_loops` | 2 connections, 2 changes, 1 fault | | *violated*: replays are not harmless to the index |
| `repo` | 2 keys, 1 ActivityPub follow, pages of 1 row, 2 ticks to a day, 2 ticks and 2 writes; every tree of depths 0 and 1 | 131 k | each record once, the same revision the same repository, lookups right, the revision goes forward |
| `sources` | 1 feed, 1 watch, batches of 1, windows of 2 items, 1 change of the feed, 2 owner requests, 2 changes of the follows, 1 fault; fairness | 1.5 M | the ETag hides nothing, a watch made by hand stays, an unfollowed one ends, what is due has its turn |
| `e2ee` | 1 device, 2 materials, 1 message each way, 2 requests | 4.0 M | trust is the owner's word for that material; what leaves was let through by it; a deletion leaves nothing of its message and takes no other |
| `mls` | 3 messages, 2 senders, 2 readers, a window of 1, 1 more key package, 1 fault | 2.5 M | no key seals two messages; what has arrived stays readable |

**Why these bounds.** No step of `Delivery`, `FollowGraph`, `Posts`, `Inbound` or
`Moderation` relates two rows, peers, posts or notes (the recipients of one post aside), so one is enough; the
races are between invocations on one row, and two of each actor is where they begin.

- The limits of retries are 1 in `delivery_overlap`, which makes every boundary of the
  counting appear with two invocations, and the real ones in `delivery_single`.
- In `FollowGraph` two Follows are what it takes for a late activity to meet a newer row;
  one inbox request at a time is enough because each runs a single statement, so two of
  them run one after the other (what they may straddle, a block or an owner request,
  they still straddle).
- In `Posts` a peer with an inbox of its own and one behind a shared inbox are the two
  kinds there are (a shared inbox with two followers behind it is in the proofs only).
  Two saves mix their members, and a
  third would only repeat one of them. The list is edited only while a post may still
  read it, a post addressed to it is no reply and names nobody besides, and the command line deletes what it
  posted: `ListMatters`, `Create` and `Delete` say so. Deletions are shown for posts that read no list
  (once read it is a direct post like others), and a post for the followers does nothing a
  public one does not (`Asked`). `MaxTimes` of 2 lets `--to` name one peer twice or both once.
- In `Inbound` three activities are a note, its withdrawal and a copy of it; two handlers
  put the copies side by side. Two policies, one that shows and one that hides, stand
  for the rest. A list cut after 120 replies appears as `TakeList` leaving out the one there is.
- In `Firehose` three changes give a record that changes again after having been read,
  `FlushEvery` is 2 and 1 so that a flush falls between and after events, two days show
  the daily reset.
- In `Repo` pages of one row put a change of the tables between any two rows. One
  follow of an ActivityPub actor is enough: its date is either the newest or does not count.
  In `RepoTree` two keys and two depths give a subtree on each side of a node.
- In `Sources` a batch of one makes the order of due sources matter; a window of two lets
  an item slip out of it.
- In `E2ee` no step relates two devices except through a send's check, which one
  satisfies; two materials are a change and a change back; two requests are a deletion and
  what meets it.
- In `Mls` three messages are what it takes to lose one behind a window of 1; two
  senders race for one file.

Faults are bounded at 1 or 2: one to break a handler and, for the firehose, one more to
break the recovery. `CHECK_DEADLOCK FALSE` for `FollowGraph`, `Posts`, `Inbound` and
`Mls`: peers, the owner and the clients may simply stop.

**Fairness.** `Delivery!FairSpec`: weak fairness of each invocation's own steps,
because each await ends by an answer, an error or the runtime's limit, and strong
fairness of leasing each message, because Cloudflare Queues goes on delivering what
it holds although a message comes and goes between `waiting` and `leased`. Nothing
is assumed of owners, administrators or the enqueue endpoint. `Firehose!FairSpec`:
weak fairness of the alarm when it is set (the runtime promises at-least-once
alarms) and of the handlers and loops that have started. The cron's `fetch` is not
fair, so the liveness shown is the watchdog's alone. `Sources!Spec`: weak fairness of
the cron job, which fires every thirty minutes and, unless the runtime ends it, comes to
its end; nothing of the owner, the feeds or the refreshes the owner asks for.

## What is proved

Proved for every number of rows, messages, invocations, peers, posts, notes, events,
connections, sources, records and requests, every size of a page and every value of the bounds, from the assumptions each
module names (`DeliveryAssumption`, `FollowAssumption`, `PostsAssumption`,
`InboundAssumption`, `ModerationAssumption`, `FirehoseAssumption`, `SourcesAssumption`,
`E2eeAssumption`, `MlsAssumption`, `RepoAssumption`): sets are not empty, the sources and the keys of
records are finitely many, bounds
are natural numbers, `NoMessage` is no message, and the like. TLC evaluates them in the runs.
One theorem, `DeadLettersAreFaults`, assumes more, and says so in its statement.

| Theorem | Property | Argument |
|---|---|---|
| `TypeCorrect` | `Delivery`'s `TypeOK` | inductive |
| `DeliveredIsAccepted` | `DeliveredMeansAccepted` | `AcceptedInv`: an invocation about to write `delivered` has seen a 2xx for its row |
| `GivesUpLate` | `NoEarlyGiveUp` | `CountInv`: whatever count a row holds or an invocation has read is *paid for* by failed POSTs and owner retries. Overlaps only lose counts, so stale writes err towards more attempts |
| `RowsAreCarried` | `OpenRowIsCarried` | `CarryInv`: a leased message belongs to exactly one invocation, with its row, and some message of an open carried row is not on its way to an ack |
| `DeadLettersAreFaults` | `DeadLetterNeedsFault`, if invocations do not overlap (`OneAtATime`) and `RetryLimit <= MaxRetries` (`LimitsMatch`; both are 3 in the code and its queue) | `BudgetInv`: without a fault the attempts a message has used up are counted in its row, or in what the invocation will write to it; a count that was read covers every message of the row |
| `CancelHolds` | `CancelHoldsWhenIdle` | a step property: without an invocation past its SELECT, only `OwnerRetry` and `ExpungeRow` touch the row |
| `KeepsPromise` | `PromiseKept` | `Delivery` implements `Outbox`: initial states map to initial states, and each step of each row's part is a step of its outbox or leaves it alone; an invocation past its SELECT has the row it read among those it took up |
| `GraphTypeCorrect` | `FollowGraph`'s `TypeOK` | inductive; the two status columns keep to their own words |
| `ApprovalIsTheOwners` | `OwnerDecides` | inductive as it stands |
| `FriendsAreMutual` | `FriendsConsent` | `ConsentInv`: what is wished, answered and in the inbox's hands traces back to the peer's Accept of a Follow of ours |
| `PeersAreTold` | `PeerIsTold` | `ToldInv` adds `Window`: an unfollow between SELECT and UPDATE holds the id of the row it will give up, or a follow crossed it |
| `BlockHolds` | `BlockedIsHeldOff` | a step property of the core's inbox |
| `PostsTypeCorrect` | `Posts`'s `TypeOK` | inductive |
| `NoTwinRows` | `NoTwins` | `StageInv`, `FanInv`: what is still to be fanned out has no row yet; `ListedInv`: the rows a peer of `--to` has and those still to come are no more than it was named |
| `DirectGoesToTheMeant` | `DirectIsMeant` | `ListInv`, `MeantInv`: whichever mixture of saves the rows of a list show, its members come from saves in force |
| `FollowersAreReached` | `FollowersAreQueued` | `QueueInv`: an inbox about which nothing changed is in one of the loops or has its row |
| `DeletesReachHolders` | `HoldersAreTold` | `ToldInv`, `SentInv`: likewise for the rows of each deletion, and a copy can only be where a Create row was |
| `GoneForGood` | `GoneStaysGone` | `GoneInv`: a post goes in once, so a deleted one has no row to be built from |
| `InboundTypeCorrect` | `Inbound`'s `TypeOK` | `InboundInv`: besides types, at which statement each kind of activity can stand and what is then in the tables |
| `ModTypeCorrect` | `Moderation`'s `TypeOK` | inductive, with `InboundInv` |
| `NotifiedOfRows` | `NoticesAreDue` | `NoticeInv`, `CountInv`: each notice is owed by a row that was stored when it was decided to tell |
| `HiddenAreQuiet` | `HiddenIsQuiet` | `PassInv`: a handler past the verdict knows what it was |
| `WithdrawnStayAway` | `WithdrawnStaysAway` | `AwayInv`: nothing in hand is of a withdrawn note, but what crossed it |
| `DecisionsStand`, `PolicyRules` | `DecisionStands`, `PolicyIsInForce` | `ModInv`: a job can write only to what is on its list, the list was read in the state it claims, and what a save left off its list is in `missed` |
| `FirehoseTypeCorrect` | `Firehose`'s `TypeOK` | inductive, with facts about what its CHOOSEs pick: the last change of a record, the next event due |
| `FirehoseSecondsCountedOnce` | `SecondsCountedOnce` | `Seconds`: what the checkpoint has, what the loop has not flushed and what it has set aside to flush add up to seconds that were. It takes `Structure`: a connection a handler holds is its own and has no loop yet, and until `overlapped` says otherwise there is one loop |
| `FirehoseIndexNeverRegresses` | `IndexNeverRegresses` | `Ahead`: what one loop has fetched is no older than what the index shows |
| `FirehoseCursorMeansStored` | `CursorMeansStored` | `Frontier`: everything behind the checkpoint, behind the cursor a handler has read and behind the place a connection has come to is settled, but for the event in a loop's hands; `Watched` and `Bounds` say what a connection is given and that nobody is ahead of the log |
| `FirehoseKeepsIndex` | `IndexIsKept` | `Firehose` implements `Index`: a loop's write shows what it fetched, no older than what is shown (`Ahead`) or covered (`Frontier`), or changes nothing; every other step of the object covers changes that the invariant says are shown, gives some up, breaks the promise off, or is invisible |
| `SourcesTypeCorrect` | `Sources`'s `TypeOK` | inductive; a batch at work has a row in hand (`AtWork`), and the queue of due sources is a sequence without repetitions |
| `HandWatchesStay` | `HandWatchStays` | `ByHandKept`: the row of a watch made by hand is there, unpaused and not of the synchronisation's origin |
| `EtagsHideNothing` | `EtagMeansStored` | `Carried`: also the ETags in a batch's rows, and that of the document at hand, are of items stored or about to be |
| `E2eeTypeCorrect` | `E2ee`'s `TypeOK` | inductive |
| `TrustIsTheOwners`, `SentToWhomTheOwnerKnows` | `TrustIsExplicit`, `SentToVouched` | `TrustInv` adds `CarriedIsVouched`: what a discovery is about to write back as trusted was vouched for |
| `DeletionIsComplete`, `OthersAreKept`, `DeliveredIsStored` | `DeletedIsGone`, `DeletionTakesNoOther`, `DeliveriesHaveMessages` | `RowsInv`: an undisturbed message is not stored and deleted at once, each deletion has done what it has passed, and whatever is stored since a deletion found the conversation empty is disturbed |
| `RepoTypeCorrect` | `Repo`'s `TypeOK` | inductive, with what a page holds (`PageHas`) |
| `RecordsOnce` | `EachOnce` | `Kept`: a record that was there all the time, in a collection that lost nothing, has been read or has its *place* (the number of rows before it) ahead of the offset. `Single`: in a collection that gained nothing, what has been read is gone or has its place behind the offset. A row that stays among rows that stay does not come nearer to the first (`PlaceGrows`); `Known` and `InTurn` say which records and collections these are |
| `RevisionGoesForward` | `RevGoesForward` | a step property, from `Forward` (no date taken back: the revision taken is no later than the newest date) and `Dated` (what the server dates is not in the future, so an edit does not take a date back) |
| `RevisionTells` | `SameRevSameRepo` | `Telling`: while the newest date tells of every change, it has moved since the revision was taken or nothing has changed; then what `EachOnce` leaves out cannot be |
| `MlsTypeCorrect` | `MlsTypeOK` | inductive |
| `KeysStayFresh` | `KeysAreFresh` | `KeyInv`: in an incarnation nobody raced for, the group in the file is ahead of every message that left the machine, and so is the copy a sender holds, who is alone |
| `NothingGetsStranded` | `NothingIsStranded` | `StrandInv`: a key used up, in the file or in a copy that may still be written, is that of a message opened (`UsedInv`), which incarnation each message is of (`SealedInv`), and once a message of a direct conversation is open the file has its group (`JoinedInv`) |

`DeliveredMeansAccepted`, `DeliveriesHaveMessages` and the type invariants (but those of
`Sources`) are proved, or part of what is, and no run repeats them.

**Exceptions.** `OpenRowIsCarried`, `PeerIsTold`, `HoldersAreTold`, `NoTwins`, `NothingIsStranded`,
`RevGoesForward`, `SameRevSameRepo`, the properties of `E2ee`, `Moderation` and `Sources` name
theirs (`carried`, `lapsed`, `unanswered`, `moved`, `pulled`, `sunk`, `silent`, `missed`,
`disturbed`, `withdrawn`, `renewed`, `raced`, `harmed`, ...). These are the ways
in which the code does drop things: a lost UPDATE, a dead letter, an administrator's
failed attempt, an owner retry, a request that dies half way, a host the closed network
leaves out, a deletion that meets a send or comes through the PDS. Somebody has to notice those; no code does.

**Only model-checked.** The liveness properties `CarriedRowSettles`, `Reconnects`,
`UnfollowedIsPaused` and `DueIsRefreshed` (the prover does not do fairness), and
`LookupsAreRight`: `Mst` and `RepoTree` are recursive over trees, and what they compute for
every tree needs an induction the prover cannot be given.

## Where code and words disagree

One run ends in a counterexample to a comment: `firehose_two_loops`
(`router/firehose.rs:329`). Two read loops store one record in the wrong order, though
replays are called "harmless".

The rest is in the exceptions of properties that hold:

- `router/deliveries.rs:97`: a delivery delivered between the owner's status check and
  UPDATE is sent again, though "delivered deliveries cannot be retried".
- `router/firehose.rs:170`: a failing `mark_running` leaves the stale `Some` that the
  comment at 180 excludes; nothing reconnects until the object is evicted.
- `core/activitypub/inbox.rs:1020`: "The object should be our Follow activity" is never
  compared, so an Accept of an undone Follow accepts the newer one.
- `router/social.rs:158`: a block leaves followers, though
  `docs/guides/FEDERATION_GUIDE.md:589` says they are removed.
- `router/sources.rs:1005`: a watch that is taken up again "is already in the past", if it
  had come due before: one refreshed or added shortly before it was paused waits for its time.
- `router/sources.rs:1591`: a refresh that succeeds activates a source that was paused or
  deleted and added meanwhile. One in status `error` is never refreshed by the cron job again.
- `client/d1.rs:1468`: 500 rows of followers are asked for and 200 are read, so the
  command line's posts and deletions miss the oldest followers of a longer table. Its
  Create rows are twins on a shared inbox (472). Its `update` sends the new text of any post,
  direct ones included, to every follower (`client/posting.rs:78`); edits are not modelled.
- `client/main.rs:912`: the command line approves a follower before it asks for the Accept.
- `router/mastodon_api.rs` edits posts without telling anybody; Delete and Update
  activities never touch `replies`.
- `workers/pds/src/lib.rs:642`: `deleteRecord` deletes any public post, one delivered over
  ActivityPub too, and inserts no Deletes: whoever has a copy keeps it.
- `client/cli.rs:295`: `--to` may name a recipient twice, and nothing up to the rows
  (`client/d1.rs:515-563`) removes the repetition: two Creates go to one inbox.
- `router/moderation.rs:230`: saving settings reclassifies the newest 120 replies only; older
  ones keep the status the old settings gave them.
- `workers/pds/src/lib.rs:2493`: the revision goes back when the newest row goes. ActivityPub
  follows count in it: an unfollow (`router/social.rs:430`) or a Reject takes it back, and so
  does an Accept on the day of the request, whose `CURRENT_TIMESTAMP`
  (`router/activitypub_routes.rs:536`) sorts before the request's ISO date
  (`router/social.rs:253`). A write after that may bring a revision that was already given
  out for another repository.
- `workers/pds/src/lib.rs`: pages by `OFFSET` skip or repeat rows that come and go meanwhile.
  `EachOnce` and `SameRevSameRepo` say under which conditions neither shows.
- `apps/dais-desk/src/lib.rs:7985`: the desktop client does not save a group it joined, so
  later messages cannot be read there. A first send whose POST fails loses the welcome;
  `e2ee-mls-device-init` publishes a key package before it refuses to overwrite the device;
  two sending clients use one key twice; the clients name groups differently.

## Not modelled, and why

The components table of `PROJECT.json` says it for each part.

- *Pure functions* over bytes and text (signatures, CBOR, CARs, HTML, feeds, MIME types,
  envelopes): nothing to interleave. They appear as a call that answers or fails.
- *Read policies, sessions, the Mastodon API, public search, media*: one statement or
  none; they keep no state between two requests that another component does not have.
- *The router's JSON for its clients*, and the migrations' runner.
- *Screens.* The terminal's are the interesting ones: its event loop draws, applies what
  has arrived and then handles the key, so that a key can act on a row that was not on
  the screen (`client/tui.rs:447`); loads of one tab can finish out of order (1612), and a
  search's result replaces the query being typed (1642). The desktop client does one thing
  at a time.
- *The command line's other statements*: profile, allowlist, blocks and notifications are
  one statement each; `sources refresh` does what the owner's refresh does, one source
  after the other; likes and boosts are rows like the router's.
- *subscribeRepos* sends one event of JSON and closes; blobs are objects under their hash.

## Plan

Done: `Delivery` with `Outbox`, `FollowGraph`, `Posts`, `Inbound` with `Moderation`,
`Firehose` with `Index`, `Sources`, `E2ee`, `Mls`, `Repo`, with proofs; `Mst`, model-checked.

Left: what a lookup in the tree answers (`LookupsAreRight`) for every tree, which is an
induction over data.
