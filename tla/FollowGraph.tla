----------------------------- MODULE FollowGraph -----------------------------
(***************************************************************************)
(* Who follows whom: the D1 tables `followers` and `following`, the inbox  *)
(* that remote servers post Follow, Undo, Accept and Reject to, and the    *)
(* owner who approves followers, follows, unfollows and blocks.            *)
(*                                                                         *)
(* The repository has two implementations of the inbox, the router's       *)
(* (deployed) and the core's (used by the split `inbox` worker); `inbox`   *)
(* says which one serves.  Activities arrive in any order and any number   *)
(* of times.  Owner requests overlap: each is cut at its awaits, and what  *)
(* it read before one (the id in `seen`) is what it uses after it.         *)
(***************************************************************************)
EXTENDS Naturals

CONSTANTS
  Peer,       \* remote actors
  Request,    \* owner requests that can be in progress at once
  Handler,    \* inbox requests that can be in progress at once
  MaxFollows  \* bound: Follows made between the owner and a peer, both ways

ASSUME FollowAssumption == Peer # {} /\ MaxFollows \in Nat

VARIABLES
  inbox,                   \* the implementation that serves the inbox
  follower, followerId,    \* rows of `followers`: status, id of the Follow
  following, followingId,  \* rows of `following`: status, id of the Follow
  blocked,                 \* peers with a row in `blocks`
  closed,                  \* peers whose host the closed network leaves out
  stage, target, seen,     \* the owner's requests
  handled,                 \* the activity each inbox request was let in with
  net,                     \* activities the peers have sent
  sent,                    \* activities handed to the delivery pipeline
  theirs, ours,            \* Follows made so far by a peer, of a peer
  \* History, read by no code.
  verdict,                 \* the owner's last decision on a follower's row
  verdictId,               \* the Follow the owner had read when deciding
  wish,                    \* the owner's last word on following a peer
  unanswered, lapsed       \* peers whose Accept, Follow or Undo got lost here

followers == <<follower, followerId>>
followings == <<following, followingId>>
requests == <<stage, target, seen>>
decisions == <<verdict, verdictId, unanswered>>
wishes == <<wish, lapsed>>
vars == <<inbox, followers, followings, blocked, closed, requests, handled,
          net, sent, theirs, ours, decisions, wishes>>

-----------------------------------------------------------------------------

Decision == {"approved", "pending", "rejected"}
FollowerStatus == Decision \cup {"absent"}
FollowingStatus == {"absent", "pending", "accepted", "rejected"}

\* The statement an owner request runs next: the UPDATE of a decision, the
\* insertion of an Accept row or its direct POST, the insertion of a Follow
\* row, the UPDATE of an unfollow, the insertion of an Undo row.
Stage == Decision \cup {"idle", "accept", "post", "follow", "unfollow", "undo"}

Activity == [type : {"Follow", "Undo", "Accept", "Reject"}, peer : Peer, id : Nat]
Act(type, p, n) == [type |-> type, peer |-> p, id |-> n]
AnyPeer == CHOOSE p \in Peer : TRUE
Nothing == Act("Follow", AnyPeer, 0)   \* an inbox request that is not running

TypeOK ==
  /\ inbox \in {"router", "core"}
  /\ follower \in [Peer -> FollowerStatus] /\ followerId \in [Peer -> Nat]
  /\ following \in [Peer -> FollowingStatus] /\ followingId \in [Peer -> Nat]
  /\ blocked \subseteq Peer /\ closed \subseteq Peer
  /\ stage \in [Request -> Stage] /\ target \in [Request -> Peer]
  /\ seen \in [Request -> Nat]
  /\ handled \in [Handler -> Activity]
  /\ net \subseteq Activity /\ sent \subseteq Activity
  /\ theirs \in [Peer -> Nat] /\ ours \in [Peer -> Nat]
  /\ verdict \in [Peer -> Decision \cup {"none"}]
  /\ verdictId \in [Peer -> Nat]
  /\ wish \in [Peer -> {"none", "follow", "unfollow"}]
  /\ unanswered \subseteq Peer /\ lapsed \subseteq Peer

Init ==
  /\ inbox \in {"router", "core"}
  /\ follower = [p \in Peer |-> "absent"] /\ followerId = [p \in Peer |-> 0]
  /\ following = [p \in Peer |-> "absent"] /\ followingId = [p \in Peer |-> 0]
  /\ blocked = {} /\ closed = {}
  /\ stage = [r \in Request |-> "idle"]
  /\ target = [r \in Request |-> AnyPeer]
  /\ seen = [r \in Request |-> 0]
  /\ handled = [h \in Handler |-> Nothing]
  /\ net = {} /\ sent = {}
  /\ theirs = [p \in Peer |-> 0] /\ ours = [p \in Peer |-> 0]
  /\ verdict = [p \in Peer |-> "none"] /\ verdictId = [p \in Peer |-> 0]
  /\ wish = [p \in Peer |-> "none"]
  /\ unanswered = {} /\ lapsed = {}

-----------------------------------------------------------------------------
(* The peers: they follow and change their minds, and answer our Follows.  *)
(* `net` keeps what they sent, so it can arrive late, twice or never.      *)

PeerFollows(p) ==
  /\ theirs[p] + ours[p] < MaxFollows
  /\ theirs' = [theirs EXCEPT ![p] = @ + 1]
  /\ net' = net \cup {Act("Follow", p, theirs[p] + 1)}
  /\ UNCHANGED <<inbox, followers, followings, blocked, closed, requests,
                 handled, sent, ours, decisions, wishes>>

PeerUndoes(p) ==
  /\ Act("Follow", p, theirs[p]) \in net
  /\ net' = net \cup {Act("Undo", p, theirs[p])}
  /\ UNCHANGED <<inbox, followers, followings, blocked, closed, requests,
                 handled, sent, theirs, ours, decisions, wishes>>

PeerAnswers(p, n, type) ==
  /\ Act("Follow", p, n) \in sent
  /\ net' = net \cup {Act(type, p, n)}
  /\ UNCHANGED <<inbox, followers, followings, blocked, closed, requests,
                 handled, sent, theirs, ours, decisions, wishes>>

-----------------------------------------------------------------------------
(* The inbox.  A request is let in, resolves the remote actor (an await),  *)
(* and then runs one statement.                                            *)

\* Mutant of Admit: blocks are not looked up.
AdmitAll(h, a) ==
  /\ handled[h] = Nothing
  /\ a \in net
  /\ handled' = [handled EXCEPT ![h] = a]
  /\ UNCHANGED <<inbox, followers, followings, blocked, closed, requests, net,
                 sent, theirs, ours, decisions, wishes>>

\* process_inbox_activity refuses blocked actors; activitypub_inbox_post asks
\* only for a Signature header.  The closed network keeps nobody out for sure:
\* the core takes a failed read of the setting for an open network.
Admit(h, a) ==
  /\ handled[h] = Nothing
  /\ a \in net
  /\ inbox = "core" => a.peer \notin blocked
  /\ handled' = [handled EXCEPT ![h] = a]
  /\ UNCHANGED <<inbox, followers, followings, blocked, closed, requests, net,
                 sent, theirs, ours, decisions, wishes>>

\* The actor cannot be resolved, the statement fails, or the request dies.
Abort(h) ==
  /\ handled[h] # Nothing
  /\ handled' = [handled EXCEPT ![h] = Nothing]
  /\ UNCHANGED <<inbox, followers, followings, blocked, closed, requests, net,
                 sent, theirs, ours, decisions, wishes>>

Finish(h, type) ==
  /\ handled[h] # Nothing
  /\ handled[h].type = type
  /\ handled' = [handled EXCEPT ![h] = Nothing]
  /\ UNCHANGED <<inbox, blocked, closed, requests, net, sent, theirs, ours>>

\* Mutant of RepeatedFollow: a repeated Follow starts the row over.
RepeatedFollowResets(p) == "pending"

\* What a repeated Follow makes of the status: the router keeps an approval
\* only, the core keeps everything.
RepeatedFollow(p) ==
  IF inbox = "router" /\ follower[p] # "approved" THEN "pending" ELSE follower[p]

\* activitypub_store_follow and handle_follow.  The core leaves the id alone.
StoreFollow(h) ==
  LET p == handled[h].peer IN
  /\ Finish(h, "Follow")
  /\ \/ /\ follower[p] = "absent"
        /\ follower' = [follower EXCEPT ![p] = "pending"]
        /\ followerId' = [followerId EXCEPT ![p] = handled[h].id]
     \/ /\ follower[p] # "absent"
        /\ follower' = [follower EXCEPT ![p] = RepeatedFollow(p)]
        /\ \/ inbox = "core" /\ UNCHANGED followerId
           \/ /\ inbox = "router"
              /\ followerId' = [followerId EXCEPT ![p] = handled[h].id]
  /\ UNCHANGED <<followings, decisions, wishes>>

\* activitypub_store_undo and handle_undo: the row of the actor goes, whatever
\* Follow the Undo names.
StoreUndo(h) ==
  LET p == handled[h].peer IN
  /\ Finish(h, "Undo")
  /\ follower' = [follower EXCEPT ![p] = "absent"]
  /\ followerId' = [followerId EXCEPT ![p] = 0]
  /\ verdict' = [verdict EXCEPT ![p] = "none"]
  /\ verdictId' = [verdictId EXCEPT ![p] = 0]
  /\ unanswered' = unanswered \ {p}
  /\ UNCHANGED <<followings, wishes>>

\* Mutant of StoreAccept: the UPDATE without its status filter.
StoreAcceptAny(h) ==
  LET p == handled[h].peer IN
  /\ Finish(h, "Accept")
  /\ following' = [following EXCEPT ![p] = IF @ = "absent" THEN @ ELSE "accepted"]
  /\ UNCHANGED <<followers, followingId, decisions, wishes>>

\* activitypub_store_accept and handle_accept: whatever is pending is accepted.
StoreAccept(h) ==
  LET p == handled[h].peer IN
  /\ Finish(h, "Accept")
  /\ following' = [following EXCEPT ![p] = IF @ = "pending" THEN "accepted" ELSE @]
  /\ UNCHANGED <<followers, followingId, decisions, wishes>>

\* handle_reject: whatever is pending goes.  The router has no such case.
StoreReject(h) ==
  LET p == handled[h].peer IN
  /\ Finish(h, "Reject")
  /\ \/ /\ inbox = "core" /\ following[p] = "pending"
        /\ following' = [following EXCEPT ![p] = "absent"]
        /\ followingId' = [followingId EXCEPT ![p] = 0]
     \/ /\ ~(inbox = "core" /\ following[p] = "pending")
        /\ UNCHANGED followings
  /\ UNCHANGED <<followers, decisions, wishes>>

Inbox(h) == \/ \E a \in net : Admit(h, a)
            \/ Abort(h) \/ StoreFollow(h) \/ StoreUndo(h)
            \/ StoreAccept(h) \/ StoreReject(h)

-----------------------------------------------------------------------------
(* The owner's requests, statement by statement.                           *)

Goto(r, st, p, n) ==
  /\ stage' = [stage EXCEPT ![r] = st]
  /\ target' = [target EXCEPT ![r] = p]
  /\ seen' = [seen EXCEPT ![r] = n]

Done(r) == Goto(r, "idle", AnyPeer, 0)

\* insert_delivery_rows leaves out hosts the closed network leaves out.
SendUnlessClosed(a) == sent' = IF a.peer \in closed THEN sent ELSE sent \cup {a}

\* owner_set_follower_status: the SELECT ...
ReadFollower(r, p, status) ==
  /\ stage[r] = "idle"
  /\ follower[p] # "absent"
  /\ Goto(r, status, p, followerId[p])
  /\ UNCHANGED <<inbox, followers, followings, blocked, closed, handled, net,
                 sent, theirs, ours, decisions, wishes>>

\* Mutant of DecideFollower: an approval that nobody tells the peer.
DecideFollowerSilently(r) ==
  LET p == target[r] IN
  /\ stage[r] \in Decision
  /\ \/ /\ follower[p] = "absent"
        /\ UNCHANGED <<follower, decisions>>
     \/ /\ follower[p] # "absent"
        /\ follower' = [follower EXCEPT ![p] = stage[r]]
        /\ verdict' = [verdict EXCEPT ![p] = stage[r]]
        /\ verdictId' = [verdictId EXCEPT ![p] = seen[r]]
        /\ unanswered' = unanswered \ {p}
  /\ Done(r)
  /\ UNCHANGED <<inbox, followerId, followings, blocked, closed, handled, net,
                 sent, theirs, ours, wishes>>

\* ... the UPDATE, of whatever row the actor has by now ...
DecideFollower(r) ==
  LET p == target[r] IN
  /\ stage[r] \in Decision
  /\ \/ /\ follower[p] = "absent"
        /\ UNCHANGED <<follower, decisions>>
     \/ /\ follower[p] # "absent"
        /\ follower' = [follower EXCEPT ![p] = stage[r]]
        /\ verdict' = [verdict EXCEPT ![p] = stage[r]]
        /\ verdictId' = [verdictId EXCEPT ![p] = seen[r]]
        /\ unanswered' = unanswered \ {p}
  /\ \/ stage[r] = "approved" /\ Goto(r, "accept", p, seen[r])
     \/ stage[r] # "approved" /\ Done(r)
  /\ UNCHANGED <<inbox, followerId, followings, blocked, closed, handled, net,
                 sent, theirs, ours, wishes>>

\* ... and, for an approval, the Accept of the Follow the SELECT had found.
SendAccept(r) ==
  LET p == target[r] IN
  /\ stage[r] = "accept"
  /\ SendUnlessClosed(Act("Accept", p, seen[r]))
  /\ unanswered' = IF p \in closed THEN unanswered \cup {p} ELSE unanswered
  /\ Done(r)
  /\ UNCHANGED <<inbox, followers, followings, blocked, closed, handled, net,
                 theirs, ours, verdict, verdictId, wishes>>

\* handle_follower_accept of the delivery worker: check, then POST.
ReadApproved(r, p) ==
  /\ stage[r] = "idle"
  /\ follower[p] = "approved"
  /\ Goto(r, "post", p, followerId[p])
  /\ UNCHANGED <<inbox, followers, followings, blocked, closed, handled, net,
                 sent, theirs, ours, decisions, wishes>>

PostAccept(r) ==
  LET p == target[r] IN
  /\ stage[r] = "post"
  /\ sent' = sent \cup {Act("Accept", p, seen[r])}
  /\ unanswered' = IF seen[r] = verdictId[p] THEN unanswered \ {p} ELSE unanswered
  /\ Done(r)
  /\ UNCHANGED <<inbox, followers, followings, blocked, closed, handled, net,
                 theirs, ours, verdict, verdictId, wishes>>

\* The command line writes the tables itself.  `followers approve` is an UPDATE,
\* and only then the delivery worker is asked for the Accept, if it is reached.
CliApproves(p) ==
  /\ follower[p] # "absent"
  /\ follower' = [follower EXCEPT ![p] = "approved"]
  /\ verdict' = [verdict EXCEPT ![p] = "approved"]
  /\ verdictId' = [verdictId EXCEPT ![p] = followerId[p]]
  /\ unanswered' = unanswered \cup {p}
  /\ UNCHANGED <<inbox, followerId, followings, blocked, closed, requests, handled,
                 net, sent, theirs, ours, wishes>>

\* `followers reject` deletes the row; a Follow that arrives later starts anew.
CliRejects(p) ==
  /\ follower[p] # "absent"
  /\ follower' = [follower EXCEPT ![p] = "absent"]
  /\ followerId' = [followerId EXCEPT ![p] = 0]
  /\ verdict' = [verdict EXCEPT ![p] = "none"]
  /\ verdictId' = [verdictId EXCEPT ![p] = 0]
  /\ unanswered' = unanswered \ {p}
  /\ UNCHANGED <<inbox, followings, blocked, closed, requests, handled, net, sent,
                 theirs, ours, wishes>>

\* owner_follow_actor: the upsert, under a fresh id ...  A follow that lands
\* between an unfollow's SELECT and its UPDATE leaves the unfollow to undo an
\* id that is no longer the row's.
OwnerFollows(r, p) ==
  /\ stage[r] = "idle"
  /\ theirs[p] + ours[p] < MaxFollows
  /\ ours' = [ours EXCEPT ![p] = @ + 1]
  /\ following' = [following EXCEPT ![p] = "pending"]
  /\ followingId' = [followingId EXCEPT ![p] = ours[p] + 1]
  /\ Goto(r, "follow", p, ours[p] + 1)
  /\ wish' = [wish EXCEPT ![p] = "follow"]
  /\ lapsed' = IF \E q \in Request : stage[q] = "unfollow" /\ target[q] = p
               THEN lapsed \cup {p} ELSE lapsed \ {p}
  /\ UNCHANGED <<inbox, followers, blocked, closed, handled, net, sent, theirs,
                 decisions>>

\* ... and the delivery row.
SendFollow(r) ==
  LET p == target[r] IN
  /\ stage[r] = "follow"
  /\ SendUnlessClosed(Act("Follow", p, seen[r]))
  /\ lapsed' = IF p \in closed /\ seen[r] = followingId[p]
               THEN lapsed \cup {p} ELSE lapsed
  /\ Done(r)
  /\ UNCHANGED <<inbox, followers, followings, blocked, closed, handled, net,
                 theirs, ours, decisions, wish>>

\* owner_unfollow_actor: the SELECT ...
ReadFollowing(r, p) ==
  /\ stage[r] = "idle"
  /\ following[p] # "absent"
  /\ Goto(r, "unfollow", p, followingId[p])
  /\ UNCHANGED <<inbox, followers, followings, blocked, closed, handled, net,
                 sent, theirs, ours, decisions, wishes>>

\* ... the UPDATE, of whatever row there is by now ...
Unfollow(r) ==
  LET p == target[r] IN
  /\ stage[r] = "unfollow"
  /\ following' = [following EXCEPT ![p] = IF @ = "absent" THEN @ ELSE "rejected"]
  /\ wish' = [wish EXCEPT ![p] = "unfollow"]
  /\ Goto(r, "undo", p, seen[r])
  /\ UNCHANGED <<inbox, followers, followingId, blocked, closed, handled, net,
                 sent, theirs, ours, decisions, lapsed>>

\* ... and the Undo of the Follow the SELECT had found.
SendUndo(r) ==
  LET p == target[r] IN
  /\ stage[r] = "undo"
  /\ SendUnlessClosed(Act("Undo", p, seen[r]))
  /\ lapsed' = IF p \in closed /\ seen[r] = followingId[p]
               THEN lapsed \cup {p} ELSE lapsed
  /\ Done(r)
  /\ UNCHANGED <<inbox, followers, followings, blocked, closed, handled, net,
                 theirs, ours, decisions, wish>>

\* A request dies between two statements, or its next one fails.
Crash(r) ==
  LET p == target[r] IN
  /\ stage[r] # "idle"
  /\ unanswered' = IF stage[r] = "accept" THEN unanswered \cup {p} ELSE unanswered
  /\ lapsed' = IF stage[r] \in {"follow", "undo"} /\ seen[r] = followingId[p]
               THEN lapsed \cup {p} ELSE lapsed
  /\ Done(r)
  /\ UNCHANGED <<inbox, followers, followings, blocked, closed, handled, net,
                 sent, theirs, ours, verdict, verdictId, wish>>

\* owner_block and owner_unblock: one statement, which leaves the follow graph
\* as it is.
Block(p) ==
  /\ blocked' = IF p \in blocked THEN blocked \ {p} ELSE blocked \cup {p}
  /\ UNCHANGED <<inbox, followers, followings, closed, requests, handled, net,
                 sent, theirs, ours, decisions, wishes>>

\* The owner edits closed_network or the allowlist.
SetClosed(p) ==
  /\ closed' = IF p \in closed THEN closed \ {p} ELSE closed \cup {p}
  /\ UNCHANGED <<inbox, followers, followings, blocked, requests, handled, net,
                 sent, theirs, ours, decisions, wishes>>

-----------------------------------------------------------------------------

Begin(r, p) == \/ \E status \in Decision : ReadFollower(r, p, status)
               \/ ReadApproved(r, p) \/ OwnerFollows(r, p) \/ ReadFollowing(r, p)

Continue(r) == \/ DecideFollower(r) \/ SendAccept(r) \/ PostAccept(r)
               \/ SendFollow(r) \/ Unfollow(r) \/ SendUndo(r) \/ Crash(r)

Remote(p) == \/ PeerFollows(p) \/ PeerUndoes(p)
             \/ \E n \in 1..MaxFollows : \/ PeerAnswers(p, n, "Accept")
                                      \/ PeerAnswers(p, n, "Reject")

Next == \/ \E p \in Peer : \/ Remote(p) \/ Block(p) \/ SetClosed(p)
                          \/ CliApproves(p) \/ CliRejects(p)
        \/ \E r \in Request : Continue(r) \/ \E p \in Peer : Begin(r, p)
        \/ \E h \in Handler : Inbox(h)

Spec == Init /\ [][Next]_vars

-----------------------------------------------------------------------------
(* Properties.                                                             *)

\* A follower is approved exactly when the owner's last decision on the row
\* says so: no order of late and repeated Follows and Undos, and no other
\* owner request, gives or takes an approval.  A rejected row was rejected by
\* the owner; only the core's inbox keeps it rejected.
OwnerDecides ==
  \A p \in Peer :
    /\ follower[p] = "approved" <=> verdict[p] = "approved"
    /\ follower[p] = "rejected" => verdict[p] = "rejected"
    /\ inbox = "core" /\ verdict[p] = "rejected" => follower[p] = "rejected"

\* The view `friends`: approved followers we follow and who accepted.
Friend(p) == follower[p] = "approved" /\ following[p] = "accepted"

\* A friend is someone the owner approved, whom the owner's last word was to
\* follow, and who answered some Follow of ours with an Accept: whatever
\* arrives late, and however requests overlap.  (Some Follow, since neither inbox
\* compares ids: inbox.rs:1029, activitypub_routes.rs:536.)
FriendsConsent ==
  \A p \in Peer : Friend(p) =>
    /\ verdict[p] = "approved" /\ wish[p] = "follow"
    /\ \E n \in 1..MaxFollows : /\ Act("Accept", p, n) \in net
                                /\ Act("Follow", p, n) \in sent

InProgress(st, p, n) ==
  \E r \in Request : stage[r] = st /\ target[r] = p /\ seen[r] = n

FollowIsTold(p) ==
  following[p] \in {"pending", "accepted"} =>
    \/ Act("Follow", p, followingId[p]) \in sent
    \/ InProgress("follow", p, followingId[p])
UndoIsTold(p) ==
  following[p] = "rejected" =>
    \/ Act("Undo", p, followingId[p]) \in sent
    \/ InProgress("undo", p, followingId[p])
AcceptIsTold(p) ==
  follower[p] = "approved" =>
    \/ Act("Accept", p, verdictId[p]) \in sent
    \/ InProgress("accept", p, verdictId[p])

\* What the rows say of a peer, the peer has been told or is about to be: a
\* follow we hold was asked for under its own id, one we gave up was undone
\* under its own id, and an approval was answered under the id the owner saw.
\* The exceptions are requests that died in between, hosts the closed network
\* leaves out, a follow that crossed an unfollow, and approvals by the command
\* line until the delivery worker has answered for it.
PeerIsTold ==
  \A p \in Peer : /\ p \notin lapsed => FollowIsTold(p) /\ UndoIsTold(p)
                  /\ p \notin unanswered => AcceptIsTold(p)

\* Behind the core's inbox a blocked peer gets nothing done but by requests
\* let in before the block: it does not become a follower, and no follow of
\* ours becomes accepted.  (One who is a follower already remains one: insert_block
\* leaves `followers` alone.)
LetIn(p) == \E h \in Handler : handled[h] # Nothing /\ handled[h].peer = p
HeldOff(p) == /\ ~LetIn(p)'
              /\ follower[p] = "absent" => follower'[p] = "absent"
              /\ following'[p] = "accepted" => following[p] = "accepted"
BlockedIsHeldOff ==
  [][\A p \in Peer : inbox = "core" /\ p \in blocked /\ ~LetIn(p) => HeldOff(p)]_vars

=============================================================================
