--------------------------- MODULE FollowGraphProofs ---------------------------
(***************************************************************************)
(* What is proved of the follow graph, for any number of peers, inbox      *)
(* requests and overlapping owner requests, and either inbox.              *)
(***************************************************************************)
EXTENDS FollowGraph, TLAPS

\* Activities are well formed, and the default peer is one.
LEMMA Activities ==
  /\ AnyPeer \in Peer /\ Nothing \in Activity
  /\ \A type \in {"Follow", "Undo", "Accept", "Reject"}, p \in Peer, n \in Nat :
       Act(type, p, n) \in Activity
<1>1. AnyPeer \in Peer
  BY FollowAssumption DEF AnyPeer
<1>2. QED BY <1>1 DEF Nothing, Act, Activity

\* An inbox request holds an activity of a peer, under some id.
LEMMA Handled ==
  ASSUME TypeOK, NEW h \in Handler
  PROVE  handled[h] \in Activity /\ handled[h].peer \in Peer /\ handled[h].id \in Nat
BY DEF TypeOK, Activity

\* The state of the follow graph is typed after every action: the statuses are
\* those the CHECKs of the two tables allow.
THEOREM GraphTypeCorrect == Spec => []TypeOK
<1> USE FollowAssumption, Activities
    DEF TypeOK, Decision, FollowerStatus, FollowingStatus, Stage,
        followers, followings, requests, decisions, wishes
<1>1. Init => TypeOK
  BY DEF Init
<1>2. TypeOK /\ [Next]_vars => TypeOK'
  <2> SUFFICES ASSUME TypeOK, [Next]_vars PROVE TypeOK'
    OBVIOUS
  <2>1. ASSUME NEW p \in Peer, Remote(p) PROVE TypeOK'
    <3>1. CASE PeerFollows(p) BY <3>1 DEF PeerFollows
    <3>2. CASE PeerUndoes(p) BY <3>2 DEF PeerUndoes
    <3>3. ASSUME NEW n \in 1..MaxFollows, NEW type \in {"Accept", "Reject"},
                 PeerAnswers(p, n, type) PROVE TypeOK'
      BY <3>3 DEF PeerAnswers
    <3>4. QED BY <2>1, <3>1, <3>2, <3>3 DEF Remote
  <2>2. ASSUME NEW p \in Peer, Block(p) \/ SetClosed(p) \/ CliApproves(p) \/ CliRejects(p)
        PROVE  TypeOK'
    <3>1. CASE Block(p) \/ SetClosed(p) BY <3>1 DEF Block, SetClosed
    <3>2. CASE CliApproves(p) BY <3>2 DEF CliApproves
    <3>3. CASE CliRejects(p) BY <3>3 DEF CliRejects
    <3>4. QED BY <2>2, <3>1, <3>2, <3>3
  <2>3. ASSUME NEW r \in Request, NEW p \in Peer, Begin(r, p) PROVE TypeOK'
    <3>1. ASSUME NEW status \in Decision, ReadFollower(r, p, status) PROVE TypeOK'
      BY <3>1 DEF ReadFollower, Goto
    <3>2. CASE ReadApproved(r, p) BY <3>2 DEF ReadApproved, Goto
    <3>3. CASE OwnerFollows(r, p) BY <3>3 DEF OwnerFollows, Goto
    <3>4. CASE ReadFollowing(r, p) BY <3>4 DEF ReadFollowing, Goto
    <3>5. QED BY <2>3, <3>1, <3>2, <3>3, <3>4 DEF Begin
  <2>4. ASSUME NEW r \in Request, Continue(r) PROVE TypeOK'
    <3>1. CASE DecideFollower(r)
      <4>1. target[r] \in Peer /\ seen[r] \in Nat /\ stage[r] \in Decision
        BY <3>1 DEF DecideFollower
      <4>2. follower' \in [Peer -> FollowerStatus] /\ verdict' \in [Peer -> Decision \cup {"none"}]
        BY <3>1, <4>1 DEF DecideFollower
      <4>3. verdictId' \in [Peer -> Nat] /\ unanswered' \subseteq Peer
        BY <3>1, <4>1 DEF DecideFollower
      <4>4. /\ stage' \in [Request -> Stage] /\ target' \in [Request -> Peer]
            /\ seen' \in [Request -> Nat]
        <5>1. CASE stage[r] = "approved"
          <6>1. Goto(r, "accept", target[r], seen[r])
            BY <3>1, <5>1 DEF DecideFollower
          <6>2. QED BY <6>1, <4>1 DEF Goto
        <5>2. CASE stage[r] # "approved"
          <6>1. Done(r)
            BY <3>1, <5>2 DEF DecideFollower
          <6>2. QED BY <6>1 DEF Goto, Done
        <5>3. QED BY <5>1, <5>2
      <4>5. QED BY <3>1, <4>2, <4>3, <4>4 DEF DecideFollower
    <3>2. CASE SendAccept(r) BY <3>2 DEF SendAccept, Goto, Done, SendUnlessClosed
    <3>3. CASE PostAccept(r) BY <3>3 DEF PostAccept, Goto, Done
    <3>4. CASE SendFollow(r) BY <3>4 DEF SendFollow, Goto, Done, SendUnlessClosed
    <3>5. CASE Unfollow(r) BY <3>5 DEF Unfollow, Goto
    <3>6. CASE SendUndo(r) BY <3>6 DEF SendUndo, Goto, Done, SendUnlessClosed
    <3>7. CASE Crash(r) BY <3>7 DEF Crash, Goto, Done
    <3>8. QED BY <2>4, <3>1, <3>2, <3>3, <3>4, <3>5, <3>6, <3>7 DEF Continue
  <2>5. ASSUME NEW h \in Handler, Inbox(h) PROVE TypeOK'
    <3>1. ASSUME NEW a \in net, Admit(h, a) PROVE TypeOK'
      BY <3>1 DEF Admit
    <3>2. CASE Abort(h) BY <3>2 DEF Abort
    <3>3. CASE StoreFollow(h)
      BY <3>3, Handled, ZenonT(60) DEF StoreFollow, Finish, RepeatedFollow
    <3>4. CASE StoreUndo(h)
      BY <3>4, Handled DEF StoreUndo, Finish
    <3>5. CASE StoreAccept(h)
      BY <3>5, Handled DEF StoreAccept, Finish
    <3>6. CASE StoreReject(h)
      <4>1. handled' \in [Handler -> Activity]
        BY <3>6 DEF StoreReject, Finish
      <4>2. following' \in [Peer -> FollowingStatus] /\ followingId' \in [Peer -> Nat]
        <5>1. CASE inbox = "core" /\ following[handled[h].peer] = "pending"
          BY <3>6, <5>1, Handled DEF StoreReject
        <5>2. CASE ~(inbox = "core" /\ following[handled[h].peer] = "pending")
          BY <3>6, <5>2 DEF StoreReject
        <5>3. QED BY <5>1, <5>2
      <4>3. QED BY <3>6, <4>1, <4>2 DEF StoreReject, Finish
    <3>7. QED BY <2>5, <3>1, <3>2, <3>3, <3>4, <3>5, <3>6 DEF Inbox
  <2>6. CASE UNCHANGED vars BY <2>6 DEF vars
  <2>7. QED BY <2>1, <2>2, <2>3, <2>4, <2>5, <2>6 DEF Next
<1>3. QED BY <1>1, <1>2, PTL DEF Spec

-----------------------------------------------------------------------------
\* A follower is approved exactly when the owner's last decision on the row
\* says so, whatever arrives late, twice or out of order; OwnerDecides is
\* inductive by itself.
THEOREM ApprovalIsTheOwners == Spec => []OwnerDecides
<1> USE FollowAssumption
    DEF TypeOK, OwnerDecides, Decision, FollowerStatus,
        followers, followings, requests, decisions, wishes
<1>1. Init => OwnerDecides
  BY DEF Init
<1>2. TypeOK /\ OwnerDecides /\ [Next]_vars => OwnerDecides'
  <2> SUFFICES ASSUME TypeOK, OwnerDecides, [Next]_vars PROVE OwnerDecides'
    OBVIOUS
  <2>1. ASSUME NEW p \in Peer, Remote(p) PROVE OwnerDecides'
    <3>1. CASE PeerFollows(p) BY <3>1 DEF PeerFollows
    <3>2. CASE PeerUndoes(p) BY <3>2 DEF PeerUndoes
    <3>3. ASSUME NEW n \in 1..MaxFollows, NEW type \in {"Accept", "Reject"},
                 PeerAnswers(p, n, type) PROVE OwnerDecides'
      BY <3>3 DEF PeerAnswers
    <3>4. QED BY <2>1, <3>1, <3>2, <3>3 DEF Remote
  <2>2. ASSUME NEW p \in Peer, Block(p) \/ SetClosed(p) \/ CliApproves(p) \/ CliRejects(p)
        PROVE  OwnerDecides'
    <3>1. CASE Block(p) \/ SetClosed(p) BY <3>1 DEF Block, SetClosed
    <3>2. CASE CliApproves(p) BY <3>2 DEF CliApproves
    <3>3. CASE CliRejects(p) BY <3>3 DEF CliRejects
    <3>4. QED BY <2>2, <3>1, <3>2, <3>3
  <2>3. ASSUME NEW r \in Request, NEW p \in Peer, Begin(r, p) PROVE OwnerDecides'
    <3>1. ASSUME NEW status \in Decision, ReadFollower(r, p, status) PROVE OwnerDecides'
      BY <3>1 DEF ReadFollower, Goto
    <3>2. CASE ReadApproved(r, p) BY <3>2 DEF ReadApproved, Goto
    <3>3. CASE OwnerFollows(r, p) BY <3>3 DEF OwnerFollows, Goto
    <3>4. CASE ReadFollowing(r, p) BY <3>4 DEF ReadFollowing, Goto
    <3>5. QED BY <2>3, <3>1, <3>2, <3>3, <3>4 DEF Begin
  <2>4. ASSUME NEW r \in Request, Continue(r) PROVE OwnerDecides'
    <3>1. CASE DecideFollower(r)
      <4>1. target[r] \in Peer
        BY DEF TypeOK
      <4>2. QED BY <3>1, <4>1 DEF DecideFollower
    <3>2. CASE SendAccept(r) BY <3>2 DEF SendAccept, Goto, Done, SendUnlessClosed
    <3>3. CASE PostAccept(r) BY <3>3 DEF PostAccept, Goto, Done
    <3>4. CASE SendFollow(r) BY <3>4 DEF SendFollow, Goto, Done, SendUnlessClosed
    <3>5. CASE Unfollow(r) BY <3>5 DEF Unfollow, Goto
    <3>6. CASE SendUndo(r) BY <3>6 DEF SendUndo, Goto, Done, SendUnlessClosed
    <3>7. CASE Crash(r) BY <3>7 DEF Crash, Goto, Done
    <3>8. QED BY <2>4, <3>1, <3>2, <3>3, <3>4, <3>5, <3>6, <3>7 DEF Continue
  <2>5. ASSUME NEW h \in Handler, Inbox(h) PROVE OwnerDecides'
    <3>1. ASSUME NEW a \in net, Admit(h, a) PROVE OwnerDecides'
      BY <3>1 DEF Admit
    <3>2. CASE Abort(h) BY <3>2 DEF Abort
    <3>3. CASE StoreFollow(h)
      BY <3>3, Handled DEF StoreFollow, Finish, RepeatedFollow
    <3>4. CASE StoreUndo(h)
      BY <3>4, Handled DEF StoreUndo, Finish
    <3>5. CASE StoreAccept(h)
      BY <3>5, Handled DEF StoreAccept, Finish
    <3>6. CASE StoreReject(h)
      BY <3>6, Handled DEF StoreReject, Finish
    <3>7. QED BY <2>5, <3>1, <3>2, <3>3, <3>4, <3>5, <3>6 DEF Inbox
  <2>6. CASE UNCHANGED vars BY <2>6 DEF vars
  <2>7. QED BY <2>1, <2>2, <2>3, <2>4, <2>5, <2>6 DEF Next
<1>3. QED BY <1>1, <1>2, GraphTypeCorrect, PTL DEF Spec

-----------------------------------------------------------------------------
(* Where a friend's consent comes from: the owner's word on following the  *)
(* peer, and an Accept the peer sent, which answers a Follow of ours.      *)

Wished ==
  \A p \in Peer : following[p] \in {"pending", "accepted"} => wish[p] = "follow"
Answers ==
  \A a \in net : a.type = "Accept" =>
    a.id \in 1..MaxFollows /\ Act("Follow", a.peer, a.id) \in sent
FromNet == \A h \in Handler : handled[h] # Nothing => handled[h] \in net
Answered ==
  \A p \in Peer : following[p] = "accepted" =>
    \E n \in 1..MaxFollows : Act("Accept", p, n) \in net /\ Act("Follow", p, n) \in sent

ConsentInv == Wished /\ Answers /\ FromNet /\ Answered

\* Whatever the friends are friends by was asked for and answered.
LEMMA ConsentHolds == Spec => []ConsentInv
<1> USE FollowAssumption, Activities
    DEF TypeOK, ConsentInv, Wished, Answers, FromNet, Answered, Decision,
        FollowerStatus, FollowingStatus,
        followers, followings, requests, decisions, wishes
<1>1. Init => ConsentInv
  BY DEF Init
<1>2. TypeOK /\ ConsentInv /\ [Next]_vars => ConsentInv'
  <2> SUFFICES ASSUME TypeOK, ConsentInv, [Next]_vars PROVE ConsentInv'
    OBVIOUS
  <2>1. ASSUME NEW p \in Peer, Remote(p) PROVE ConsentInv'
    <3>1. CASE PeerFollows(p)
      <4>1. \A a \in net' : a.type = "Accept" => a \in net
        BY <3>1 DEF PeerFollows, Act
      <4>2. QED BY <3>1, <4>1 DEF PeerFollows
    <3>2. CASE PeerUndoes(p)
      <4>1. \A a \in net' : a.type = "Accept" => a \in net
        BY <3>2 DEF PeerUndoes, Act
      <4>2. QED BY <3>2, <4>1 DEF PeerUndoes
    <3>3. ASSUME NEW n \in 1..MaxFollows, NEW type \in {"Accept", "Reject"},
                 PeerAnswers(p, n, type) PROVE ConsentInv'
      <4>1. n \in Nat
        OBVIOUS
      <4>2. \A a \in net' : a \in net \/ (a.id = n /\ a.peer = p)
        BY <3>3 DEF PeerAnswers, Act
      <4>3. ASSUME NEW a \in net', a.type = "Accept"
            PROVE  a.id \in 1..MaxFollows /\ Act("Follow", a.peer, a.id) \in sent'
        <5>0. sent' = sent /\ Act("Follow", p, n) \in sent
          BY <3>3 DEF PeerAnswers
        <5>1. CASE a \in net BY <5>0, <5>1, <4>3
        <5>2. CASE a.id = n /\ a.peer = p BY <5>0, <5>2
        <5>3. QED BY <4>2, <5>1, <5>2
      <4>4. Wished' /\ FromNet' /\ Answered'
        BY <3>3 DEF PeerAnswers
      <4>5. QED BY <4>3, <4>4
    <3>4. QED BY <2>1, <3>1, <3>2, <3>3 DEF Remote
  <2>2. ASSUME NEW p \in Peer, Block(p) \/ SetClosed(p) \/ CliApproves(p) \/ CliRejects(p)
        PROVE  ConsentInv'
    <3>1. CASE Block(p) \/ SetClosed(p) BY <3>1 DEF Block, SetClosed
    <3>2. CASE CliApproves(p) BY <3>2 DEF CliApproves
    <3>3. CASE CliRejects(p) BY <3>3 DEF CliRejects
    <3>4. QED BY <2>2, <3>1, <3>2, <3>3
  <2>3. ASSUME NEW r \in Request, NEW p \in Peer, Begin(r, p) PROVE ConsentInv'
    <3>1. ASSUME NEW status \in Decision, ReadFollower(r, p, status) PROVE ConsentInv'
      BY <3>1 DEF ReadFollower, Goto
    <3>2. CASE ReadApproved(r, p) BY <3>2 DEF ReadApproved, Goto
    <3>3. CASE OwnerFollows(r, p) BY <3>3 DEF OwnerFollows, Goto
    <3>4. CASE ReadFollowing(r, p) BY <3>4 DEF ReadFollowing, Goto
    <3>5. QED BY <2>3, <3>1, <3>2, <3>3, <3>4 DEF Begin
  <2>4. ASSUME NEW r \in Request, Continue(r) PROVE ConsentInv'
    <3>1. CASE DecideFollower(r) BY <3>1 DEF DecideFollower, Goto, Done
    <3>2. CASE SendAccept(r) BY <3>2 DEF SendAccept, Goto, Done, SendUnlessClosed
    <3>3. CASE PostAccept(r) BY <3>3 DEF PostAccept, Goto, Done
    <3>4. CASE SendFollow(r) BY <3>4 DEF SendFollow, Goto, Done, SendUnlessClosed
    <3>5. CASE Unfollow(r) BY <3>5 DEF Unfollow, Goto
    <3>6. CASE SendUndo(r) BY <3>6 DEF SendUndo, Goto, Done, SendUnlessClosed
    <3>7. CASE Crash(r) BY <3>7 DEF Crash, Goto, Done
    <3>8. QED BY <2>4, <3>1, <3>2, <3>3, <3>4, <3>5, <3>6, <3>7 DEF Continue
  <2>5. ASSUME NEW h \in Handler, Inbox(h) PROVE ConsentInv'
    <3>1. ASSUME NEW a \in net, Admit(h, a) PROVE ConsentInv'
      BY <3>1 DEF Admit
    <3>2. CASE Abort(h) BY <3>2 DEF Abort
    <3>3. CASE StoreFollow(h)
      BY <3>3, Handled DEF StoreFollow, Finish, RepeatedFollow
    <3>4. CASE StoreUndo(h)
      BY <3>4, Handled DEF StoreUndo, Finish
    <3>5. CASE StoreAccept(h)
      <4> DEFINE q == handled[h].peer
      <4>1. handled[h] = Act("Accept", q, handled[h].id) /\ q \in Peer
        BY <3>5, Handled DEF StoreAccept, Finish, Act, Activity
      <4>2. handled[h] \in net
        BY <3>5 DEF StoreAccept, Finish
      <4>3. /\ Act("Accept", q, handled[h].id) \in net
            /\ handled[h].id \in 1..MaxFollows /\ Act("Follow", q, handled[h].id) \in sent
        BY <4>1, <4>2, <3>5 DEF StoreAccept, Finish
      <4>4. Wished' /\ Answers' /\ FromNet'
        BY <3>5, <4>1 DEF StoreAccept, Finish
      <4>5. Answered'
        BY <3>5, <4>1, <4>3 DEF StoreAccept, Finish
      <4>6. QED BY <4>4, <4>5
    <3>6. CASE StoreReject(h)
      BY <3>6, Handled DEF StoreReject, Finish
    <3>7. QED BY <2>5, <3>1, <3>2, <3>3, <3>4, <3>5, <3>6 DEF Inbox
  <2>6. CASE UNCHANGED vars BY <2>6 DEF vars
  <2>7. QED BY <2>1, <2>2, <2>3, <2>4, <2>5, <2>6 DEF Next
<1>3. QED BY <1>1, <1>2, GraphTypeCorrect, PTL DEF Spec

\* A friend was approved by the owner, is followed by the owner's last word,
\* and did accept a Follow of ours.
THEOREM FriendsAreMutual == Spec => []FriendsConsent
<1>1. OwnerDecides /\ ConsentInv => FriendsConsent
  BY DEF FriendsConsent, Friend, OwnerDecides, ConsentInv, Wished, Answered
<1>2. QED BY <1>1, ApprovalIsTheOwners, ConsentHolds, PTL

-----------------------------------------------------------------------------
(* What the peer is told.  An unfollow between its SELECT and its UPDATE   *)
(* holds the id of the row it will give up, unless a follow crossed it.    *)

Window ==
  \A r \in Request : stage[r] = "unfollow" =>
    \/ target[r] \in lapsed \/ following[target[r]] = "absent"
    \/ seen[r] = followingId[target[r]]

ToldInv == PeerIsTold /\ Window

\* What the rows say of a peer, it has been told or is about to be, unless a
\* request died, the closed network left the peer out, or a follow crossed an
\* unfollow: for any number of overlapping owner requests.
THEOREM PeersAreTold == Spec => []PeerIsTold
<1> USE FollowAssumption, Activities
    DEF TypeOK, ToldInv, PeerIsTold, FollowIsTold, UndoIsTold, AcceptIsTold,
        InProgress, Window, Decision, FollowerStatus, FollowingStatus, Stage,
        followers, followings, requests, decisions, wishes
<1>1. Init => ToldInv
  BY DEF Init
<1>2. TypeOK /\ ToldInv /\ [Next]_vars => ToldInv'
  <2> SUFFICES ASSUME TypeOK, ToldInv, [Next]_vars PROVE ToldInv'
    OBVIOUS
  <2>1. ASSUME NEW p \in Peer, Remote(p) PROVE ToldInv'
    <3>1. CASE PeerFollows(p) BY <3>1 DEF PeerFollows
    <3>2. CASE PeerUndoes(p) BY <3>2 DEF PeerUndoes
    <3>3. ASSUME NEW n \in 1..MaxFollows, NEW type \in {"Accept", "Reject"},
                 PeerAnswers(p, n, type) PROVE ToldInv'
      BY <3>3 DEF PeerAnswers
    <3>4. QED BY <2>1, <3>1, <3>2, <3>3 DEF Remote
  <2>2. ASSUME NEW p \in Peer, Block(p) \/ SetClosed(p) \/ CliApproves(p) \/ CliRejects(p)
        PROVE  ToldInv'
    <3>1. CASE Block(p) \/ SetClosed(p) BY <3>1 DEF Block, SetClosed
    <3>2. CASE CliApproves(p) BY <3>2 DEF CliApproves
    <3>3. CASE CliRejects(p) BY <3>3 DEF CliRejects
    <3>4. QED BY <2>2, <3>1, <3>2, <3>3
  <2>3. ASSUME NEW r \in Request, NEW p \in Peer, Begin(r, p) PROVE ToldInv'
    <3>1. ASSUME NEW status \in Decision, ReadFollower(r, p, status) PROVE ToldInv'
      BY <3>1 DEF ReadFollower, Goto
    <3>2. CASE ReadApproved(r, p) BY <3>2 DEF ReadApproved, Goto
    <3>3. CASE OwnerFollows(r, p) BY <3>3 DEF OwnerFollows, Goto
    <3>4. CASE ReadFollowing(r, p) BY <3>4 DEF ReadFollowing, Goto
    <3>5. QED BY <2>3, <3>1, <3>2, <3>3, <3>4 DEF Begin
  <2>4. ASSUME NEW r \in Request, Continue(r) PROVE ToldInv'
    <3>1. CASE DecideFollower(r)
      <4>1. Window'
        BY <3>1 DEF DecideFollower, Goto, Done
      <4>2. ASSUME NEW p \in Peer, p \notin lapsed' PROVE FollowIsTold(p)'
        BY <3>1, <4>2 DEF DecideFollower, Goto, Done
      <4>3. ASSUME NEW p \in Peer, p \notin lapsed' PROVE UndoIsTold(p)'
        BY <3>1, <4>3, SMTT(30) DEF DecideFollower, Goto, Done
      <4>4. ASSUME NEW p \in Peer, p \notin unanswered' PROVE AcceptIsTold(p)'
        <5>1. CASE target[r] = p /\ follower[p] # "absent"
          <6>1. CASE stage[r] = "approved"
            <7>1. Goto(r, "accept", p, seen[r])
              BY <3>1, <5>1, <6>1 DEF DecideFollower
            <7>2. verdictId' = [verdictId EXCEPT ![p] = seen[r]]
              BY <3>1, <5>1 DEF DecideFollower
            <7>3. QED BY <7>1, <7>2 DEF Goto
          <6>2. CASE stage[r] # "approved"
            BY <3>1, <5>1, <6>2 DEF DecideFollower
          <6>3. QED BY <6>1, <6>2
        <5>2. CASE ~(target[r] = p /\ follower[p] # "absent")
          <6>1. /\ follower'[p] = follower[p] /\ verdictId'[p] = verdictId[p]
                /\ sent' = sent /\ p \notin unanswered
            BY <3>1, <4>4, <5>2 DEF DecideFollower
          <6>2. InProgress("accept", p, verdictId[p]) => InProgress("accept", p, verdictId[p])'
            BY <3>1, <6>1 DEF DecideFollower, Goto, Done
          <6>3. AcceptIsTold(p)
            BY <6>1
          <6>4. QED BY <6>1, <6>2, <6>3
        <5>3. QED BY <5>1, <5>2
      <4>5. QED BY <4>1, <4>2, <4>3, <4>4
    <3>2. CASE SendAccept(r)
      <4>1. Window'
        BY <3>2 DEF SendAccept, Goto, Done, SendUnlessClosed
      <4>2. ASSUME NEW p \in Peer, p \notin lapsed' PROVE FollowIsTold(p)'
        BY <3>2, <4>2 DEF SendAccept, Goto, Done, SendUnlessClosed
      <4>3. ASSUME NEW p \in Peer, p \notin lapsed' PROVE UndoIsTold(p)'
        BY <3>2, <4>3 DEF SendAccept, Goto, Done, SendUnlessClosed
      <4>4. ASSUME NEW p \in Peer, p \notin unanswered' PROVE AcceptIsTold(p)'
        <5>1. CASE target[r] = p /\ seen[r] = verdictId[p]
          <6>1. p \notin closed /\ verdictId' = verdictId
            BY <3>2, <4>4, <5>1 DEF SendAccept
          <6>2. Act("Accept", p, verdictId[p]).peer = p
            BY DEF Act
          <6>3. Act("Accept", p, verdictId[p]) \in sent'
            BY <3>2, <5>1, <6>1, <6>2 DEF SendAccept, SendUnlessClosed
          <6>4. QED BY <6>1, <6>3
        <5>2. CASE ~(target[r] = p /\ seen[r] = verdictId[p])
          <6>1. AcceptIsTold(p)
            BY <3>2, <4>4 DEF SendAccept
          <6>2. Act("Accept", p, verdictId[p]) \in sent => Act("Accept", p, verdictId[p]) \in sent'
            BY <3>2 DEF SendAccept, SendUnlessClosed
          <6>3. InProgress("accept", p, verdictId[p]) => InProgress("accept", p, verdictId[p])'
            BY <3>2, <5>2 DEF SendAccept, Goto, Done
          <6>4. QED BY <3>2, <6>1, <6>2, <6>3 DEF SendAccept
        <5>3. QED BY <5>1, <5>2
      <4>5. QED BY <4>1, <4>2, <4>3, <4>4
    <3>3. CASE PostAccept(r) BY <3>3 DEF PostAccept, Goto, Done
    <3>4. CASE SendFollow(r)
      <4>1. Window'
        BY <3>4 DEF SendFollow, Goto, Done, SendUnlessClosed
      <4>2. ASSUME NEW p \in Peer, p \notin lapsed' PROVE FollowIsTold(p)'
        <5>1. CASE target[r] = p /\ seen[r] = followingId[p]
          <6>1. p \notin closed /\ followingId' = followingId
            BY <3>4, <4>2, <5>1 DEF SendFollow
          <6>2. Act("Follow", p, followingId[p]).peer = p
            BY DEF Act
          <6>3. Act("Follow", p, followingId[p]) \in sent'
            BY <3>4, <5>1, <6>1, <6>2 DEF SendFollow, SendUnlessClosed
          <6>4. QED BY <6>1, <6>3
        <5>2. CASE ~(target[r] = p /\ seen[r] = followingId[p])
          <6>1. FollowIsTold(p)
            BY <3>4, <4>2 DEF SendFollow
          <6>2. Act("Follow", p, followingId[p]) \in sent => Act("Follow", p, followingId[p]) \in sent'
            BY <3>4 DEF SendFollow, SendUnlessClosed
          <6>3. InProgress("follow", p, followingId[p]) => InProgress("follow", p, followingId[p])'
            BY <3>4, <5>2 DEF SendFollow, Goto, Done
          <6>4. QED BY <3>4, <6>1, <6>2, <6>3 DEF SendFollow
        <5>3. QED BY <5>1, <5>2
      <4>3. ASSUME NEW p \in Peer, p \notin lapsed' PROVE UndoIsTold(p)'
        BY <3>4, <4>3 DEF SendFollow, Goto, Done, SendUnlessClosed
      <4>4. ASSUME NEW p \in Peer, p \notin unanswered' PROVE AcceptIsTold(p)'
        BY <3>4, <4>4 DEF SendFollow, Goto, Done, SendUnlessClosed
      <4>5. QED BY <4>1, <4>2, <4>3, <4>4
    <3>5. CASE Unfollow(r) BY <3>5 DEF Unfollow, Goto
    <3>6. CASE SendUndo(r)
      <4>1. Window'
        BY <3>6 DEF SendUndo, Goto, Done, SendUnlessClosed
      <4>2. ASSUME NEW p \in Peer, p \notin lapsed' PROVE FollowIsTold(p)'
        BY <3>6, <4>2 DEF SendUndo, Goto, Done, SendUnlessClosed
      <4>3. ASSUME NEW p \in Peer, p \notin lapsed' PROVE UndoIsTold(p)'
        <5>1. CASE target[r] = p /\ seen[r] = followingId[p]
          <6>1. p \notin closed /\ followingId' = followingId
            BY <3>6, <4>3, <5>1 DEF SendUndo
          <6>2. Act("Undo", p, followingId[p]).peer = p
            BY DEF Act
          <6>3. Act("Undo", p, followingId[p]) \in sent'
            BY <3>6, <5>1, <6>1, <6>2 DEF SendUndo, SendUnlessClosed
          <6>4. QED BY <6>1, <6>3
        <5>2. CASE ~(target[r] = p /\ seen[r] = followingId[p])
          <6>1. UndoIsTold(p)
            BY <3>6, <4>3 DEF SendUndo
          <6>2. Act("Undo", p, followingId[p]) \in sent => Act("Undo", p, followingId[p]) \in sent'
            BY <3>6 DEF SendUndo, SendUnlessClosed
          <6>3. InProgress("undo", p, followingId[p]) => InProgress("undo", p, followingId[p])'
            BY <3>6, <5>2 DEF SendUndo, Goto, Done
          <6>4. QED BY <3>6, <6>1, <6>2, <6>3 DEF SendUndo
        <5>3. QED BY <5>1, <5>2
      <4>4. ASSUME NEW p \in Peer, p \notin unanswered' PROVE AcceptIsTold(p)'
        BY <3>6, <4>4 DEF SendUndo, Goto, Done, SendUnlessClosed
      <4>5. QED BY <4>1, <4>2, <4>3, <4>4
    <3>7. CASE Crash(r) BY <3>7 DEF Crash, Goto, Done
    <3>8. QED BY <2>4, <3>1, <3>2, <3>3, <3>4, <3>5, <3>6, <3>7 DEF Continue
  <2>5. ASSUME NEW h \in Handler, Inbox(h) PROVE ToldInv'
    <3>1. ASSUME NEW a \in net, Admit(h, a) PROVE ToldInv'
      BY <3>1 DEF Admit
    <3>2. CASE Abort(h) BY <3>2 DEF Abort
    <3>3. CASE StoreFollow(h)
      BY <3>3, Handled, SMTT(30) DEF StoreFollow, Finish, RepeatedFollow
    <3>4. CASE StoreUndo(h)
      BY <3>4, Handled DEF StoreUndo, Finish
    <3>5. CASE StoreAccept(h)
      BY <3>5, Handled DEF StoreAccept, Finish
    <3>6. CASE StoreReject(h)
      <4>1. Window'
        BY <3>6, Handled DEF StoreReject, Finish
      <4>2. ASSUME NEW p \in Peer, p \notin lapsed' PROVE FollowIsTold(p)'
        BY <3>6, <4>2, Handled, SMTT(30) DEF StoreReject, Finish
      <4>3. ASSUME NEW p \in Peer, p \notin lapsed' PROVE UndoIsTold(p)'
        BY <3>6, <4>3, Handled DEF StoreReject, Finish
      <4>4. ASSUME NEW p \in Peer, p \notin unanswered' PROVE AcceptIsTold(p)'
        BY <3>6, <4>4, Handled DEF StoreReject, Finish
      <4>5. QED BY <4>1, <4>2, <4>3, <4>4
    <3>7. QED BY <2>5, <3>1, <3>2, <3>3, <3>4, <3>5, <3>6 DEF Inbox
  <2>6. CASE UNCHANGED vars BY <2>6 DEF vars
  <2>7. QED BY <2>1, <2>2, <2>3, <2>4, <2>5, <2>6 DEF Next
<1>3. ToldInv => PeerIsTold
  OBVIOUS
<1>4. QED BY <1>1, <1>2, <1>3, GraphTypeCorrect, PTL DEF Spec

-----------------------------------------------------------------------------
\* Behind the core's inbox a blocked peer that has no request in progress gets
\* none in, does not become a follower and gets no follow of ours accepted.
THEOREM BlockHolds == Spec => BlockedIsHeldOff
<1> DEFINE Holds == \A p \in Peer : inbox = "core" /\ p \in blocked /\ ~LetIn(p) => HeldOff(p)
<1>1. TypeOK /\ [Next]_vars => [Holds]_vars
  <2> SUFFICES ASSUME TypeOK, Next, NEW b \in Peer, inbox = "core", b \in blocked, ~LetIn(b)
               PROVE  HeldOff(b)
    OBVIOUS
  <2> USE DEF TypeOK, LetIn, HeldOff, Decision, FollowerStatus, FollowingStatus,
              followers, followings, requests, decisions, wishes
  <2>1. ASSUME NEW p \in Peer, Remote(p) PROVE HeldOff(b)
    <3>1. CASE PeerFollows(p) BY <3>1 DEF PeerFollows
    <3>2. CASE PeerUndoes(p) BY <3>2 DEF PeerUndoes
    <3>3. ASSUME NEW n \in 1..MaxFollows, NEW type \in {"Accept", "Reject"},
                 PeerAnswers(p, n, type) PROVE HeldOff(b)
      BY <3>3 DEF PeerAnswers
    <3>4. QED BY <2>1, <3>1, <3>2, <3>3 DEF Remote
  <2>2. ASSUME NEW p \in Peer, Block(p) \/ SetClosed(p) \/ CliApproves(p) \/ CliRejects(p)
        PROVE  HeldOff(b)
    <3>1. CASE Block(p) \/ SetClosed(p) BY <3>1 DEF Block, SetClosed
    <3>2. CASE CliApproves(p) BY <3>2 DEF CliApproves
    <3>3. CASE CliRejects(p) BY <3>3 DEF CliRejects
    <3>4. QED BY <2>2, <3>1, <3>2, <3>3
  <2>3. ASSUME NEW r \in Request, NEW p \in Peer, Begin(r, p) PROVE HeldOff(b)
    <3>1. ASSUME NEW status \in Decision, ReadFollower(r, p, status) PROVE HeldOff(b)
      BY <3>1 DEF ReadFollower, Goto
    <3>2. CASE ReadApproved(r, p) BY <3>2 DEF ReadApproved, Goto
    <3>3. CASE OwnerFollows(r, p) BY <3>3 DEF OwnerFollows, Goto
    <3>4. CASE ReadFollowing(r, p) BY <3>4 DEF ReadFollowing, Goto
    <3>5. QED BY <2>3, <3>1, <3>2, <3>3, <3>4 DEF Begin
  <2>4. ASSUME NEW r \in Request, Continue(r) PROVE HeldOff(b)
    <3>1. CASE DecideFollower(r) BY <3>1 DEF DecideFollower, Goto, Done
    <3>2. CASE SendAccept(r) BY <3>2 DEF SendAccept, Goto, Done, SendUnlessClosed
    <3>3. CASE PostAccept(r) BY <3>3 DEF PostAccept, Goto, Done
    <3>4. CASE SendFollow(r) BY <3>4 DEF SendFollow, Goto, Done, SendUnlessClosed
    <3>5. CASE Unfollow(r) BY <3>5 DEF Unfollow, Goto
    <3>6. CASE SendUndo(r) BY <3>6 DEF SendUndo, Goto, Done, SendUnlessClosed
    <3>7. CASE Crash(r) BY <3>7 DEF Crash, Goto, Done
    <3>8. QED BY <2>4, <3>1, <3>2, <3>3, <3>4, <3>5, <3>6, <3>7 DEF Continue
  <2>5. ASSUME NEW h \in Handler, Inbox(h) PROVE HeldOff(b)
    <3>1. ASSUME NEW a \in net, Admit(h, a) PROVE HeldOff(b)
      BY <3>1 DEF Admit
    <3>2. CASE Abort(h) BY <3>2 DEF Abort
    <3>3. CASE StoreFollow(h)
      BY <3>3, Handled DEF StoreFollow, Finish, RepeatedFollow
    <3>4. CASE StoreUndo(h)
      BY <3>4, Handled DEF StoreUndo, Finish
    <3>5. CASE StoreAccept(h)
      BY <3>5, Handled DEF StoreAccept, Finish
    <3>6. CASE StoreReject(h)
      BY <3>6, Handled DEF StoreReject, Finish
    <3>7. QED BY <2>5, <3>1, <3>2, <3>3, <3>4, <3>5, <3>6 DEF Inbox
  <2>6. QED BY <2>1, <2>2, <2>3, <2>4, <2>5 DEF Next
<1>2. QED BY <1>1, GraphTypeCorrect, PTL DEF Spec, BlockedIsHeldOff

=============================================================================
