----------------------------- MODULE PostsProofs -----------------------------
(***************************************************************************)
(* What is proved of the owner's posts, for any number of posts, peers,    *)
(* deletions and saves of the audience list that overlap, and whoever of   *)
(* the peers shares the hub's inbox.                                       *)
(***************************************************************************)
EXTENDS Posts, TLAPS

Before == {"none", "list", "check", "insert"}

\* How far a request has come says what its post is and what has been written.
StageInv ==
  \A p \in Post :
    /\ make[p] \in {"list", "check"} => visibility[p] = "direct"
    /\ make[p] \in {"insert", "approved", "extra"} => visibility[p] # "direct"
    /\ make[p] \in {"approved", "fan", "extra", "cli", "clifan"} => federated[p]
    /\ make[p] \in {"none", "list", "cli"} => kept[p] = {}
    /\ make[p] \in Before \cup {"approved", "cli"} => \A i \in Inbox : creates[p][i] = 0
    /\ \A i \in Inbox : creates[p][i] > 0 => federated[p]
    /\ make[p] \in {"cli", "clifan"} => p \in cli /\ todo[p] \subseteq Peer
    /\ p \in cli => make[p] \in {"cli", "clifan", "done", "failed"}
    /\ p \notin cli \/ visibility[p] # "direct" => \A q \in Peer : again[p][q] = 0

\* What is still to be fanned out has no row yet, but for the target of a reply.
\* On the command line it is the followers at the hub who share a row's inbox.
FanOf(p) ==
  /\ make[p] = "fan" => \A i \in todo[p] \cup kept[p] : creates[p][i] = 0
  /\ make[p] = "extra" => todo[p] \cup kept[p] \subseteq {replyTo[p]}
  /\ make[p] = "clifan" /\ visibility[p] # "direct" =>
       /\ \A q \in todo[p] : q \notin kept[p] /\ creates[p][q] = 0
       /\ \A i \in kept[p] : creates[p][i] > 0 => i = HubInbox
FanInv == (\A p \in Post : FanOf(p)) /\ NoTwins

\* A peer has a row, or one on its way, for each time --to has named it so far.
ListedOf(p) ==
  /\ kept[p] \subseteq Peer
  /\ \A q \in Peer :
       creates[p][q] + (IF q \in kept[p] THEN 1 ELSE 0)
         + (IF q \in todo[p] THEN 1 + again[p][q] ELSE 0) <= times[p][q]

Listed(p) == make[p] \in {"cli", "clifan"} /\ visibility[p] = "direct"
ListedInv == \A p \in Post : Listed(p) => ListedOf(p)

\* The members of the list come from saves that are in force.
ListInv ==
  /\ members \subseteq wanted
  /\ \A s \in Save : stodo[s] \subseteq swanted[s] /\ swanted[s] \subseteq wanted
  /\ \A s \in Save : save[s] = "idle" => swanted[s] = {}

\* Whom a direct post is still to go to, the owner meant.
MeantInv ==
  /\ \A p \in Post : visibility[p] = "direct" =>
       /\ make[p] \in {"list", "check", "cli"} => todo[p] \subseteq meant[p]
       /\ make[p] = "check" => kept[p] \subseteq meant[p] \cap (approved \cup moved)
       /\ make[p] = "fan" => todo[p] \cup kept[p] \subseteq
            (meant[p] \cap (approved \cup moved)) \cup {replyTo[p]}
       /\ make[p] = "clifan" => todo[p] \cup kept[p] \subseteq
            meant[p] \cap (approved \cup moved)
  /\ DirectIsMeant

\* An inbox that a follower stands behind, that is let through and about which
\* nothing changed, is on the way to its row.
Reached(i) == i \in FollowerInboxes \ moved /\ Host(i) \in admitted
QueueInv ==
  /\ \A p \in Post, i \in Inbox :
       Reached(i) /\ visibility[p] # "direct" =>
         /\ make[p] = "fan" => i \in todo[p] \cup kept[p] \/ creates[p][i] > 0
         /\ make[p] = "extra" => creates[p][i] > 0
         /\ make[p] = "clifan" => (\E q \in todo[p] : CliTarget(p, q) = i)
                                 \/ i \in kept[p] \/ creates[p][i] > 0
  /\ FollowersAreQueued

\* A post is inserted once, and what a deletion has at hand was a post.
GoneInv ==
  /\ posts \cap gone = {}
  /\ \A p \in posts \cup gone : make[p] \notin Before
  /\ \A r \in Deletion : drop[r] # "idle" => make[victim[r]] \notin Before

\* The same of a deletion's rows; once the post is gone they are all there.
Told(p) == federated[p] /\ visibility[p] # "direct"
ToldInv ==
  /\ \A r \in Deletion :
       /\ drop[r] = "delete" => ~Told(victim[r])
       /\ drop[r] \in {"fan", "shell"} /\ Told(victim[r]) =>
            \A i \in Inbox : Reached(i) =>
              i \in dtodo[r] \cup dkept[r] \cup deletes[victim[r]]
  /\ \A p \in gone \ pulled : Told(p) => \A i \in Inbox : Reached(i) => i \in deletes[p]

\* What is sent has a row, and was let through.
SentInv ==
  \A p \in Post, i \in Inbox :
    <<p, i>> \in sending \/ i \in held[p] =>
      creates[p][i] > 0 /\ (Host(i) \in admitted \/ i \in moved)

PostsInv == TypeOK /\ StageInv /\ FanInv /\ ListedInv /\ ListInv /\ MeantInv /\ QueueInv
            /\ GoneInv /\ ToldInv /\ SentInv

-----------------------------------------------------------------------------

\* Where a follower's post goes is an inbox.
LEMMA InboxesAreInboxes ==
  /\ \A q \in Peer : q \in Inbox /\ SharedInbox(q) \in Inbox
  /\ \A i \in Inbox : Host(i) \in Inbox
  /\ TypeOK => FollowerInboxes \subseteq Inbox
  /\ TypeOK' => FollowerInboxes' \subseteq Inbox
BY PostsAssumption DEF Inbox, SharedInbox, Host, FollowerInboxes, TypeOK

\* How often the peers of a list are to come up again.
LEMMA RepeatsAreCounts ==
  ASSUME NEW to \in [Peer -> Nat]
  PROVE  /\ Named(to) \subseteq Peer /\ Repeats(to) \in [Peer -> Nat]
         /\ Named(to) = {} => \A q \in Peer : Repeats(to)[q] = 0
BY DEF Named, Repeats

\* The owner asks for a post.
Asks(p) ==
  \E v \in Visibility, f, listed \in BOOLEAN, named \in SUBSET Peer,
     rt \in Inbox \cup {NoOne} : StartPost(p, v, f, rt, named, listed)

\* The steps of a request that creates a post.
LEMMA CreateSteps ==
  ASSUME NEW p \in Post, Create(p)
  PROVE  \/ Asks(p) \/ ReadList(p) \/ InsertPost(p) \/ ReadFollowers(p)
         \/ EndBatch(p) \/ FailPost(p)
         \/ \E q \in Peer : CheckRecipient(p, q)
         \/ \E i \in Inbox : Filter(p, i) \/ InsertRow(p, i)
         \/ \E v \in Visibility, to \in [Peer -> Nat] : CliPosts(p, v, to)
         \/ CliReadsFollowers(p) \/ CliEnds(p)
         \/ \E q \in Peer : CliFilter(p, q)
         \/ \E i \in Inbox : CliInsertsRow(p, i)
<1>1. {SharedInbox(q) : q \in Peer} \cup {NoOne} \subseteq Inbox \cup {NoOne}
  BY InboxesAreInboxes
<1>3. Asked \subseteq Visibility
  BY DEF Asked
<1>2. ASSUME NEW v \in Asked, NEW f \in BOOLEAN, NEW listed \in BOOLEAN,
             NEW named \in SUBSET Peer,
             NEW rt \in {SharedInbox(q) : q \in Peer} \cup {NoOne},
             StartPost(p, v, f, rt, named, listed)
      PROVE Asks(p)
  BY <1>1, <1>2, <1>3, Zenon DEF Asks
<1>4. ASSUME NEW v \in Asked, NEW to \in [Peer -> 0 .. MaxTimes], CliPosts(p, v, to)
      PROVE \E w \in Visibility, some \in [Peer -> Nat] : CliPosts(p, w, some)
  <2>1. to \in [Peer -> Nat]
    BY PostsAssumption
  <2>2. QED BY <1>3, <1>4, <2>1, Zenon
<1>5. QED BY <1>2, <1>4, Zenon DEF Create

\* A batch is in, and it was the last or the reply's target follows.
BatchIn(p) ==
  /\ make[p] \in {"fan", "extra"} /\ todo[p] = {} /\ kept[p] = {}
  /\ make' \in [Post -> Stage] /\ todo' \in [Post -> SUBSET Inbox]
  /\ \A x \in Post \ {p} : make'[x] = make[x] /\ todo'[x] = todo[x]
  /\ \/ /\ make'[p] = "extra" /\ make[p] = "fan" /\ visibility[p] # "direct"
        /\ todo'[p] \subseteq {replyTo[p]}
     \/ make'[p] = "done" /\ todo'[p] = {}
  /\ UNCHANGED <<ask, posts, rows, kept, again, dropping, saving, world, copies,
                 ended, meant>>

\* What the end of a batch leads to.
LEMMA BatchEnds == ASSUME TypeOK, NEW p \in Post, EndBatch(p) PROVE BatchIn(p)
<1>1. ReplyTarget(p) \in SUBSET Inbox /\ ReplyTarget(p) \subseteq {replyTo[p]}
  BY DEF ReplyTarget, TypeOK
<1>2. make[p] \in {"fan", "extra"} /\ todo[p] = {} /\ kept[p] = {}
  BY DEF EndBatch, Fanning
<1>3. UNCHANGED <<ask, posts, rows, kept, again, dropping, saving, world, copies,
                 ended, meant>>
  BY DEF EndBatch
<1>4. CASE make[p] = "fan" /\ visibility[p] # "direct" /\ ReplyTarget(p) # {}
  <2>1. /\ make' = [make EXCEPT ![p] = "extra"]
        /\ todo' = [todo EXCEPT ![p] = ReplyTarget(p)]
    BY <1>4 DEF EndBatch
  <2>2. make' \in [Post -> Stage] /\ todo' \in [Post -> SUBSET Inbox]
    BY <1>1, <2>1 DEF TypeOK, Stage
  <2>3. /\ make'[p] = "extra" /\ todo'[p] = ReplyTarget(p)
        /\ \A x \in Post \ {p} : make'[x] = make[x] /\ todo'[x] = todo[x]
    BY <2>1 DEF TypeOK
  <2>4. QED BY <1>1, <1>2, <1>3, <1>4, <2>2, <2>3 DEF BatchIn
<1>5. CASE ~(make[p] = "fan" /\ visibility[p] # "direct" /\ ReplyTarget(p) # {})
  <2>1. make' = [make EXCEPT ![p] = "done"] /\ UNCHANGED todo
    BY <1>5 DEF EndBatch
  <2>2. make' \in [Post -> Stage] /\ todo' \in [Post -> SUBSET Inbox]
    BY <2>1 DEF TypeOK, Stage
  <2>3. QED BY <1>2, <1>3, <2>1, <2>2 DEF TypeOK, BatchIn
<1>6. QED BY <1>4, <1>5

\* A post is in, and its fan-out begins or there is none.
PostIn(p) ==
  /\ make[p] \in {"insert", "check"}
  /\ posts' = posts \cup {p} /\ kept' = [kept EXCEPT ![p] = {}]
  /\ make' \in [Post -> Stage] /\ todo' \in [Post -> SUBSET Inbox]
  /\ \A x \in Post \ {p} : make'[x] = make[x] /\ todo'[x] = todo[x]
  /\ \/ ~federated[p] /\ make'[p] = "done"
     \/ /\ federated[p] /\ visibility[p] = "direct" /\ make'[p] = "fan"
        /\ todo'[p] \subseteq kept[p] \cup {replyTo[p]}
     \/ federated[p] /\ visibility[p] # "direct" /\ make'[p] = "approved"
  /\ UNCHANGED <<ask, rows, again, dropping, saving, world, copies, ended, meant>>

\* What the insertion of a post leads to.
LEMMA PostGoesIn == ASSUME TypeOK, NEW p \in Post, InsertPost(p) PROVE PostIn(p)
<1>1. ReplyTarget(p) \in SUBSET Inbox /\ ReplyTarget(p) \subseteq {replyTo[p]}
  BY DEF ReplyTarget, TypeOK
<1>2. /\ make[p] \in {"insert", "check"}
      /\ posts' = posts \cup {p} /\ kept' = [kept EXCEPT ![p] = {}]
      /\ UNCHANGED <<ask, rows, again, dropping, saving, world, copies, ended, meant>>
  BY DEF InsertPost
<1>3. CASE ~federated[p] \/ visibility[p] # "direct"
  <2>1. /\ make' = [make EXCEPT ![p] = IF federated[p] THEN "approved" ELSE "done"]
        /\ todo' = todo
    BY <1>3 DEF InsertPost
  <2>2. make' \in [Post -> Stage] /\ todo' \in [Post -> SUBSET Inbox]
    BY <2>1 DEF TypeOK, Stage
  <2>3. /\ make'[p] = (IF federated[p] THEN "approved" ELSE "done")
        /\ \A x \in Post \ {p} : make'[x] = make[x] /\ todo'[x] = todo[x]
    BY <2>1 DEF TypeOK
  <2>4. QED BY <1>2, <1>3, <2>2, <2>3 DEF TypeOK, PostIn
<1>4. CASE federated[p] /\ visibility[p] = "direct"
  <2>1. /\ make' = [make EXCEPT ![p] = "fan"]
        /\ todo' = [todo EXCEPT ![p] = kept[p] \cup ReplyTarget(p)]
    BY <1>4 DEF InsertPost
  <2>2. make' \in [Post -> Stage] /\ todo' \in [Post -> SUBSET Inbox]
    BY <1>1, <2>1 DEF TypeOK, Stage
  <2>3. /\ make'[p] = "fan" /\ todo'[p] = kept[p] \cup ReplyTarget(p)
        /\ \A x \in Post \ {p} : make'[x] = make[x] /\ todo'[x] = todo[x]
    BY <2>1 DEF TypeOK
  <2>4. QED BY <1>1, <1>2, <1>4, <2>2, <2>3 DEF PostIn
<1>5. QED BY <1>3, <1>4

\* The initial states satisfy the invariant.
LEMMA PostsInit == Init => PostsInv
<1> USE PostsAssumption
<1> SUFFICES ASSUME Init PROVE PostsInv
  OBVIOUS
<1>0. AnyPost \in Post
  BY DEF AnyPost
<1>1. TypeOK
  <2>1. /\ visibility \in [Post -> Visibility] /\ federated \in [Post -> BOOLEAN]
        /\ replyTo \in [Post -> Inbox \cup {NoOne}]
        /\ cli \subseteq Post /\ posts \subseteq Post /\ gone \subseteq Post
        /\ pulled \subseteq gone /\ times \in [Post -> [Peer -> Nat]]
        /\ again \in [Post -> [Peer -> Nat]]
    BY DEF Init, Visibility
  <2>2. creates \in [Post -> [Inbox -> Nat]] /\ deletes \in [Post -> SUBSET Inbox]
    BY DEF Init
  <2>3. approved \subseteq Peer /\ admitted \subseteq Inbox /\ moved \subseteq Inbox
    BY InboxesAreInboxes DEF Init
  <2>4. members \subseteq Peer /\ wanted \subseteq Peer /\ make \in [Post -> Stage]
        /\ todo \in [Post -> SUBSET Inbox] /\ kept \in [Post -> SUBSET Inbox]
    BY DEF Init, Stage
  <2>5. /\ drop \in [Deletion -> DropStage] /\ victim \in [Deletion -> Post]
        /\ dtodo \in [Deletion -> SUBSET Inbox] /\ dkept \in [Deletion -> SUBSET Inbox]
    BY <1>0 DEF Init, DropStage
  <2>6. /\ save \in [Save -> SaveStage]
        /\ stodo \in [Save -> SUBSET Peer] /\ swanted \in [Save -> SUBSET Peer]
    BY DEF Init, SaveStage
  <2>7. /\ sending \subseteq Post \X Inbox
        /\ held \in [Post -> SUBSET Inbox] /\ meant \in [Post -> SUBSET Peer]
        /\ changes \in Nat /\ saves \in Nat
    BY DEF Init
  <2>8. QED BY <2>1, <2>2, <2>3, <2>4, <2>5, <2>6, <2>7 DEF TypeOK
<1>2. StageInv /\ FanInv /\ ListedInv /\ ListInv
  <2>1. StageInv /\ ListInv
    BY DEF Init, StageInv, ListInv, Before
  <2>2. FanInv
    BY DEF Init, FanInv, FanOf, NoTwins
  <2>3. ListedInv
    BY DEF Init, ListedInv, Listed
  <2>4. QED BY <2>1, <2>2, <2>3
<1>3. MeantInv /\ QueueInv
  BY DEF Init, MeantInv, DirectIsMeant, QueueInv, FollowersAreQueued
<1>4. GoneInv /\ ToldInv /\ SentInv
  BY DEF Init, GoneInv, ToldInv, SentInv
<1>5. QED BY <1>1, <1>2, <1>3, <1>4 DEF PostsInv

\* The state stays typed, one step per action.
LEMMA TypeStep == PostsInv /\ [Next]_vars => TypeOK'
<1> USE PostsAssumption DEF TypeOK, Visibility, Stage, DropStage, SaveStage, ask,
        rows, making, dropping, saving, world, copies, ended
<1> SUFFICES ASSUME TypeOK, [Next]_vars PROVE TypeOK'
  BY DEF PostsInv
<1>0. FollowerInboxes \subseteq Inbox /\ Peer \subseteq Inbox
  BY InboxesAreInboxes DEF FollowerInboxes
<1>1. ASSUME NEW q \in Peer, ChangeFollower(q) PROVE TypeOK'
  BY <1>1, <1>0, InboxesAreInboxes DEF ChangeFollower
<1>2. ASSUME NEW h \in Inbox, ChangeHost(h) PROVE TypeOK'
  BY <1>2, InboxesAreInboxes DEF ChangeHost
<1>3. CASE DeleteList
  BY <1>3 DEF DeleteList
<1>4. ASSUME NEW s \in Save, NEW new \in SUBSET Peer, SaveList(s, new) PROVE TypeOK'
  BY <1>4 DEF SaveList
<1>5. ASSUME NEW s \in Save, ClearMembers(s) PROVE TypeOK'
  BY <1>5 DEF ClearMembers, Busy
<1>6. ASSUME NEW s \in Save, EndSave(s) PROVE TypeOK'
  BY <1>6 DEF EndSave
<1>7. ASSUME NEW s \in Save, NEW q \in Peer, AddMember(s, q) PROVE TypeOK'
  BY <1>7 DEF AddMember
<1>8. ASSUME NEW p \in Post, Asks(p) PROVE TypeOK'
  <2>1. PICK v \in Visibility, f \in BOOLEAN, listed \in BOOLEAN,
            named \in SUBSET Peer, rt \in Inbox \cup {NoOne} :
            StartPost(p, v, f, rt, named, listed)
    BY <1>8, Zenon DEF Asks
  <2>2. QED BY <2>1, <1>0 DEF StartPost
<1>9. ASSUME NEW p \in Post, ReadList(p) PROVE TypeOK'
  BY <1>9, <1>0 DEF ReadList
<1>10. ASSUME NEW p \in Post, NEW q \in Peer, CheckRecipient(p, q) PROVE TypeOK'
  BY <1>10, <1>0 DEF CheckRecipient
<1>11. ASSUME NEW p \in Post, InsertPost(p) PROVE TypeOK'
  <2>1. PostIn(p)
    BY <1>11, PostGoesIn
  <2>2. QED BY <2>1 DEF PostIn
<1>12. ASSUME NEW p \in Post, ReadFollowers(p) PROVE TypeOK'
  BY <1>12, <1>0 DEF ReadFollowers
<1>13. ASSUME NEW p \in Post, NEW i \in Inbox, Filter(p, i) PROVE TypeOK'
  BY <1>13 DEF Filter, Fanning
<1>14. ASSUME NEW p \in Post, NEW i \in Inbox, InsertRow(p, i) PROVE TypeOK'
  BY <1>14 DEF InsertRow, Fanning
<1>15. ASSUME NEW p \in Post, EndBatch(p) PROVE TypeOK'
  <2>1. BatchIn(p)
    BY <1>15, BatchEnds
  <2>2. QED BY <2>1 DEF BatchIn
<1>16. ASSUME NEW p \in Post, FailPost(p) PROVE TypeOK'
  BY <1>16 DEF FailPost
<1>17. ASSUME NEW r \in Deletion, NEW p \in Post, StartDelete(r, p) PROVE TypeOK'
  BY <1>17 DEF StartDelete
<1>18. ASSUME NEW r \in Deletion, DeleteReadsFollowers(r) PROVE TypeOK'
  BY <1>18, <1>0 DEF DeleteReadsFollowers
<1>19. ASSUME NEW r \in Deletion, NEW i \in Inbox, DeleteFilter(r, i) PROVE TypeOK'
  BY <1>19 DEF DeleteFilter, DropFans
<1>20. ASSUME NEW r \in Deletion, NEW i \in Inbox, DeleteInsertsRow(r, i) PROVE
             TypeOK'
  BY <1>20 DEF DeleteInsertsRow, DropFans
<1>21. ASSUME NEW r \in Deletion, DeletePost(r) PROVE TypeOK'
  BY <1>21 DEF DeletePost, DropFans
<1>22. ASSUME NEW r \in Deletion, FailDelete(r) PROVE TypeOK'
  BY <1>22 DEF FailDelete
<1>23. ASSUME NEW p \in Post, NEW i \in Inbox, Build(p, i) PROVE TypeOK'
  BY <1>23 DEF Build
<1>24. ASSUME NEW p \in Post, NEW i \in Inbox, Arrive(p, i) PROVE TypeOK'
  <2>1. held' = held \/ held' = [held EXCEPT ![p] = @ \cup {i}]
    BY <1>24 DEF Arrive
  <2>2. held \in [Post -> SUBSET Inbox]
    OBVIOUS
  <2>3. held' \in [Post -> SUBSET Inbox]
    <3> HIDE DEF TypeOK
    <3> QED BY <2>1, <2>2
  <2>4. QED BY <1>24, <2>3 DEF Arrive
<1>25. CASE UNCHANGED vars
  BY <1>25 DEF vars
<1>30. ASSUME NEW p \in Post, NEW v \in Visibility, NEW to \in [Peer -> Nat],
              CliPosts(p, v, to) PROVE TypeOK'
  <2>1. Named(to) \subseteq Peer /\ Repeats(to) \in [Peer -> Nat]
    BY RepeatsAreCounts
  <2>2. /\ times' \in [Post -> [Peer -> Nat]] /\ again' \in [Post -> [Peer -> Nat]]
        /\ make' \in [Post -> Stage] /\ visibility' \in [Post -> Visibility]
        /\ federated' \in [Post -> BOOLEAN]
    BY <1>30, <2>1 DEF CliPosts
  <2>3. /\ todo' \in [Post -> SUBSET Inbox] /\ meant' \in [Post -> SUBSET Peer]
        /\ cli' \subseteq Post /\ posts' \subseteq Post
    BY <1>30, <1>0, <2>1 DEF CliPosts
  <2>4. UNCHANGED <<replyTo, rows, kept, dropping, saving, world, copies, ended>>
    BY <1>30 DEF CliPosts
  <2>5. QED BY <2>2, <2>3, <2>4
<1>31. ASSUME NEW p \in Post, CliReadsFollowers(p) PROVE TypeOK'
  BY <1>31, <1>0 DEF CliReadsFollowers
<1>32. ASSUME NEW p \in Post, NEW q \in Peer, CliFilter(p, q) PROVE TypeOK'
  <2>1. CliTarget(p, q) \in Inbox
    BY InboxesAreInboxes DEF CliTarget
  <2>2. kept' \in [Post -> SUBSET Inbox]
    BY <1>32, <2>1 DEF CliFilter
  <2>3. todo' \in [Post -> SUBSET Inbox] /\ again' \in [Post -> [Peer -> Nat]]
    <3>1. CASE again[p][q] = 0
      BY <1>32, <3>1 DEF CliFilter
    <3>2. CASE again[p][q] # 0
      <4>1. /\ again[p][q] - 1 \in Nat /\ todo' = todo
            /\ again' = [again EXCEPT ![p][q] = again[p][q] - 1]
        BY <1>32, <3>2 DEF CliFilter
      <4>2. QED BY <4>1
    <3>3. QED BY <3>1, <3>2
  <2>4. UNCHANGED <<ask, posts, rows, make, dropping, saving, world, copies, ended,
                    meant>>
    BY <1>32 DEF CliFilter
  <2>5. QED BY <2>2, <2>3, <2>4
<1>33. ASSUME NEW p \in Post, NEW i \in Inbox, CliInsertsRow(p, i) PROVE TypeOK'
  BY <1>33 DEF CliInsertsRow
<1>34. ASSUME NEW p \in Post, CliEnds(p) PROVE TypeOK'
  BY <1>34 DEF CliEnds
<1>35. ASSUME NEW r \in Deletion, NEW p \in posts \cap cli, CliDeletes(r, p) PROVE TypeOK'
  BY <1>35, InboxesAreInboxes DEF CliDeletes
<1>36. ASSUME NEW r \in Deletion, NEW i \in Inbox, CliSkips(r, i) PROVE TypeOK'
  BY <1>36 DEF CliSkips
<1>37. ASSUME NEW p \in Post, PdsDeletes(p) PROVE TypeOK'
  BY <1>37 DEF PdsDeletes
<1>26. ASSUME NEW p \in Post, Create(p) PROVE TypeOK'
  <2> HIDE DEF TypeOK
  <2> QED
  BY <1>8, <1>9, <1>10, <1>11, <1>12, <1>13, <1>14, <1>15, <1>16, <1>26, <1>30, <1>31,
     <1>32, <1>33, <1>34, CreateSteps
<1>27. ASSUME NEW r \in Deletion, Delete(r) PROVE TypeOK'
  BY <1>17, <1>18, <1>19, <1>20, <1>21, <1>22, <1>27, <1>35, <1>36
  DEF Delete
<1>28. CASE EditList
  BY <1>3, <1>4, <1>5, <1>6, <1>7, <1>28 DEF EditList
<1>29. QED BY <1>1, <1>2, <1>23, <1>24, <1>25, <1>26, <1>27, <1>28, <1>37 DEF Next

\* What is written is written at its stage.
LEMMA StageStep == PostsInv /\ [Next]_vars => StageInv'
<1> USE PostsAssumption DEF TypeOK, StageInv, Before, ask, rows, making, dropping,
        saving, world, copies, ended
<1> SUFFICES ASSUME TypeOK, StageInv, [Next]_vars PROVE StageInv'
  BY DEF PostsInv
<1>1. ASSUME NEW q \in Peer, ChangeFollower(q) PROVE StageInv'
  BY <1>1 DEF ChangeFollower
<1>2. ASSUME NEW h \in Inbox, ChangeHost(h) PROVE StageInv'
  BY <1>2 DEF ChangeHost
<1>3. CASE DeleteList
  BY <1>3 DEF DeleteList
<1>4. ASSUME NEW s \in Save, NEW new \in SUBSET Peer, SaveList(s, new) PROVE
             StageInv'
  BY <1>4 DEF SaveList
<1>5. ASSUME NEW s \in Save, ClearMembers(s) PROVE StageInv'
  BY <1>5 DEF ClearMembers
<1>6. ASSUME NEW s \in Save, EndSave(s) PROVE StageInv'
  BY <1>6 DEF EndSave
<1>7. ASSUME NEW s \in Save, NEW q \in Peer, AddMember(s, q) PROVE StageInv'
  BY <1>7 DEF AddMember
<1>8. ASSUME NEW p \in Post, Asks(p) PROVE StageInv'
  <2>1. PICK v \in Visibility, f \in BOOLEAN, listed \in BOOLEAN,
            named \in SUBSET Peer, rt \in Inbox \cup {NoOne} :
            StartPost(p, v, f, rt, named, listed)
    BY <1>8, Zenon DEF Asks
  <2>2. QED BY <2>1 DEF StartPost
<1>9. ASSUME NEW p \in Post, ReadList(p) PROVE StageInv'
  BY <1>9 DEF ReadList
<1>10. ASSUME NEW p \in Post, NEW q \in Peer, CheckRecipient(p, q) PROVE StageInv'
  BY <1>10 DEF CheckRecipient
<1>11. ASSUME NEW p \in Post, InsertPost(p) PROVE StageInv'
  <2>1. PostIn(p)
    BY <1>11, PostGoesIn
  <2>2. QED BY <2>1 DEF PostIn
<1>12. ASSUME NEW p \in Post, ReadFollowers(p) PROVE StageInv'
  BY <1>12 DEF ReadFollowers
<1>13. ASSUME NEW p \in Post, NEW i \in Inbox, Filter(p, i) PROVE StageInv'
  BY <1>13 DEF Filter, Fanning
<1>14. ASSUME NEW p \in Post, NEW i \in Inbox, InsertRow(p, i) PROVE StageInv'
  BY <1>14 DEF InsertRow, Fanning
<1>15. ASSUME NEW p \in Post, EndBatch(p) PROVE StageInv'
  <2>1. BatchIn(p)
    BY <1>15, BatchEnds
  <2>2. QED BY <2>1 DEF BatchIn
<1>16. ASSUME NEW p \in Post, FailPost(p) PROVE StageInv'
  BY <1>16 DEF FailPost
<1>17. ASSUME NEW r \in Deletion, NEW p \in Post, StartDelete(r, p) PROVE StageInv'
  BY <1>17 DEF StartDelete
<1>18. ASSUME NEW r \in Deletion, DeleteReadsFollowers(r) PROVE StageInv'
  BY <1>18 DEF DeleteReadsFollowers
<1>19. ASSUME NEW r \in Deletion, NEW i \in Inbox, DeleteFilter(r, i) PROVE
             StageInv'
  BY <1>19 DEF DeleteFilter, DropFans
<1>20. ASSUME NEW r \in Deletion, NEW i \in Inbox, DeleteInsertsRow(r, i) PROVE
             StageInv'
  BY <1>20 DEF DeleteInsertsRow, DropFans
<1>21. ASSUME NEW r \in Deletion, DeletePost(r) PROVE StageInv'
  BY <1>21 DEF DeletePost, DropFans
<1>22. ASSUME NEW r \in Deletion, FailDelete(r) PROVE StageInv'
  BY <1>22 DEF FailDelete
<1>23. ASSUME NEW p \in Post, NEW i \in Inbox, Build(p, i) PROVE StageInv'
  BY <1>23 DEF Build
<1>24. ASSUME NEW p \in Post, NEW i \in Inbox, Arrive(p, i) PROVE StageInv'
  BY <1>24 DEF Arrive
<1>25. CASE UNCHANGED vars
  BY <1>25 DEF vars
<1>30. ASSUME NEW p \in Post, NEW v \in Visibility, NEW to \in [Peer -> Nat],
              CliPosts(p, v, to) PROVE StageInv'
  <2>1. /\ make[p] = "none" /\ make' = [make EXCEPT ![p] = "cli"]
        /\ visibility' = [visibility EXCEPT ![p] = v] /\ cli' = cli \cup {p}
        /\ federated' = [federated EXCEPT ![p] = TRUE]
        /\ again' = [again EXCEPT ![p] = Repeats(to)]
        /\ todo' = [todo EXCEPT ![p] = Named(to)]
        /\ creates' = creates /\ kept' = kept
        /\ v # "direct" => Named(to) = {}
    BY <1>30 DEF CliPosts
  <2>2. /\ Named(to) \subseteq Peer /\ Repeats(to) \in [Peer -> Nat]
        /\ Named(to) = {} => \A q \in Peer : Repeats(to)[q] = 0
    BY RepeatsAreCounts
  <2>3. QED BY <2>1, <2>2
<1>31. ASSUME NEW p \in Post, CliReadsFollowers(p) PROVE StageInv'
  BY <1>31 DEF CliReadsFollowers
<1>32. ASSUME NEW p \in Post, NEW q \in Peer, CliFilter(p, q) PROVE StageInv'
  BY <1>32, InboxesAreInboxes DEF CliFilter, CliTarget
<1>33. ASSUME NEW p \in Post, NEW i \in Inbox, CliInsertsRow(p, i) PROVE StageInv'
  BY <1>33 DEF CliInsertsRow
<1>34. ASSUME NEW p \in Post, CliEnds(p) PROVE StageInv'
  BY <1>34 DEF CliEnds
<1>35. ASSUME NEW r \in Deletion, NEW p \in posts \cap cli, CliDeletes(r, p) PROVE StageInv'
  BY <1>35, InboxesAreInboxes DEF CliDeletes
<1>36. ASSUME NEW r \in Deletion, NEW i \in Inbox, CliSkips(r, i) PROVE StageInv'
  BY <1>36 DEF CliSkips
<1>37. ASSUME NEW p \in Post, PdsDeletes(p) PROVE StageInv'
  BY <1>37 DEF PdsDeletes
<1>26. ASSUME NEW p \in Post, Create(p) PROVE StageInv'
  BY <1>8, <1>9, <1>10, <1>11, <1>12, <1>13, <1>14, <1>15, <1>16, <1>26, <1>30, <1>31,
     <1>32, <1>33, <1>34, CreateSteps
<1>27. ASSUME NEW r \in Deletion, Delete(r) PROVE StageInv'
  BY <1>17, <1>18, <1>19, <1>20, <1>21, <1>22, <1>27, <1>35, <1>36
  DEF Delete
<1>28. CASE EditList
  BY <1>3, <1>4, <1>5, <1>6, <1>7, <1>28 DEF EditList
<1>29. QED BY <1>1, <1>2, <1>23, <1>24, <1>25, <1>26, <1>27, <1>28, <1>37 DEF Next

\* Each inbox is let into a batch once, and out of it with its row.
LEMMA FanStep == PostsInv /\ [Next]_vars => FanInv'
<1> USE PostsAssumption DEF TypeOK, StageInv, FanInv, FanOf, NoTwins, Before, ask, rows,
        making, dropping, saving, world, copies, ended
<1> SUFFICES ASSUME TypeOK, StageInv, ListedInv, FanInv, [Next]_vars PROVE FanInv'
  BY DEF PostsInv
<1>1. ASSUME NEW q \in Peer, ChangeFollower(q) PROVE FanInv'
  BY <1>1 DEF ChangeFollower
<1>2. ASSUME NEW h \in Inbox, ChangeHost(h) PROVE FanInv'
  BY <1>2 DEF ChangeHost
<1>3. CASE DeleteList
  BY <1>3 DEF DeleteList
<1>4. ASSUME NEW s \in Save, NEW new \in SUBSET Peer, SaveList(s, new) PROVE FanInv'
  BY <1>4 DEF SaveList
<1>5. ASSUME NEW s \in Save, ClearMembers(s) PROVE FanInv'
  BY <1>5 DEF ClearMembers
<1>6. ASSUME NEW s \in Save, EndSave(s) PROVE FanInv'
  BY <1>6 DEF EndSave
<1>7. ASSUME NEW s \in Save, NEW q \in Peer, AddMember(s, q) PROVE FanInv'
  BY <1>7 DEF AddMember
<1>8. ASSUME NEW p \in Post, Asks(p) PROVE FanInv'
  <2>1. PICK v \in Visibility, f \in BOOLEAN, listed \in BOOLEAN,
            named \in SUBSET Peer, rt \in Inbox \cup {NoOne} :
            StartPost(p, v, f, rt, named, listed)
    BY <1>8, Zenon DEF Asks
  <2>2. QED BY <2>1 DEF StartPost
<1>9. ASSUME NEW p \in Post, ReadList(p) PROVE FanInv'
  BY <1>9 DEF ReadList
<1>10. ASSUME NEW p \in Post, NEW q \in Peer, CheckRecipient(p, q) PROVE FanInv'
  BY <1>10 DEF CheckRecipient
<1>11. ASSUME NEW p \in Post, InsertPost(p) PROVE FanInv'
  <2>1. PostIn(p)
    BY <1>11, PostGoesIn
  <2>2. QED BY <2>1 DEF PostIn
<1>12. ASSUME NEW p \in Post, ReadFollowers(p) PROVE FanInv'
  BY <1>12, InboxesAreInboxes DEF ReadFollowers
<1>13. ASSUME NEW p \in Post, NEW i \in Inbox, Filter(p, i) PROVE FanInv'
  BY <1>13 DEF Filter, Fanning
<1>14. ASSUME NEW p \in Post, NEW i \in Inbox, InsertRow(p, i) PROVE FanInv'
  <2>1. /\ p \notin cli /\ kept' = [kept EXCEPT ![p] = @ \ {i}]
        /\ creates' = [creates EXCEPT ![p][i] = @ + 1] /\ i \in kept[p]
        /\ UNCHANGED <<visibility, replyTo, cli, times, make, todo>>
        /\ make[p] \in {"fan", "extra"}
    BY <1>14 DEF InsertRow, Fanning
  <2>2. NoTwins'
    BY <2>1
  <2>3. ASSUME NEW x \in Post PROVE FanOf(x)'
    <3>1. CASE x = p
      <4>1. /\ kept'[p] = kept[p] \ {i} /\ todo[p] = {}
            /\ \A k \in Inbox : k # i => creates'[p][k] = creates[p][k]
        BY <1>14, <2>1 DEF InsertRow
      <4>2. kept[p] \subseteq Inbox /\ FanOf(p)
        OBVIOUS
      <4>3. QED BY <2>1, <3>1, <4>1, <4>2 DEF FanOf
    <3>2. CASE x # p
      BY <2>1, <3>2 DEF FanOf
    <3>3. QED BY <3>1, <3>2
  <2>4. QED BY <2>2, <2>3 DEF FanOf
<1>15. ASSUME NEW p \in Post, EndBatch(p) PROVE FanInv'
  <2>1. BatchIn(p)
    BY <1>15, BatchEnds
  <2>2. UNCHANGED <<visibility, replyTo, cli, times, creates, kept>>
    BY <2>1 DEF BatchIn
  <2>3. ASSUME NEW x \in Post PROVE FanOf(x)'
    <3>1. CASE x = p
      BY <2>1, <2>2, <3>1 DEF BatchIn, FanOf
    <3>2. CASE x # p
      BY <2>1, <2>2, <3>2 DEF BatchIn, FanOf
    <3>3. QED BY <3>1, <3>2
  <2>4. QED BY <2>2, <2>3 DEF FanOf
<1>16. ASSUME NEW p \in Post, FailPost(p) PROVE FanInv'
  BY <1>16 DEF FailPost
<1>17. ASSUME NEW r \in Deletion, NEW p \in Post, StartDelete(r, p) PROVE FanInv'
  BY <1>17 DEF StartDelete
<1>18. ASSUME NEW r \in Deletion, DeleteReadsFollowers(r) PROVE FanInv'
  BY <1>18 DEF DeleteReadsFollowers
<1>19. ASSUME NEW r \in Deletion, NEW i \in Inbox, DeleteFilter(r, i) PROVE FanInv'
  BY <1>19 DEF DeleteFilter, DropFans
<1>20. ASSUME NEW r \in Deletion, NEW i \in Inbox, DeleteInsertsRow(r, i) PROVE
             FanInv'
  BY <1>20 DEF DeleteInsertsRow, DropFans
<1>21. ASSUME NEW r \in Deletion, DeletePost(r) PROVE FanInv'
  BY <1>21 DEF DeletePost, DropFans
<1>22. ASSUME NEW r \in Deletion, FailDelete(r) PROVE FanInv'
  BY <1>22 DEF FailDelete
<1>23. ASSUME NEW p \in Post, NEW i \in Inbox, Build(p, i) PROVE FanInv'
  BY <1>23 DEF Build
<1>24. ASSUME NEW p \in Post, NEW i \in Inbox, Arrive(p, i) PROVE FanInv'
  BY <1>24 DEF Arrive
<1>25. CASE UNCHANGED vars
  BY <1>25 DEF vars
<1>30. ASSUME NEW p \in Post, NEW v \in Visibility, NEW to \in [Peer -> Nat],
              CliPosts(p, v, to) PROVE FanInv'
  BY <1>30 DEF CliPosts
<1>31. ASSUME NEW p \in Post, CliReadsFollowers(p) PROVE FanInv'
  <2>1. /\ kept[p] = {} /\ \A i \in Inbox : creates[p][i] = 0
        /\ make' = [make EXCEPT ![p] = "clifan"]
        /\ todo' = todo \/ todo' = [todo EXCEPT ![p] = approved]
        /\ UNCHANGED <<visibility, replyTo, cli, times, creates, kept>>
    BY <1>31 DEF CliReadsFollowers
  <2>2. todo'[p] \subseteq Inbox
    BY <2>1, InboxesAreInboxes
  <2>3. ASSUME NEW x \in Post PROVE FanOf(x)'
    BY <2>1, <2>2, <2>3 DEF FanOf
  <2>4. QED BY <2>1, <2>3 DEF FanOf
<1>32. ASSUME NEW p \in Post, NEW q \in Peer, CliFilter(p, q) PROVE FanInv'
  <2>1. /\ make[p] = "clifan" /\ kept[p] = {} /\ q \in todo[p] /\ q \in Inbox
        /\ todo'[p] \subseteq todo[p]
        /\ visibility[p] # "direct" => q \notin todo'[p]
        /\ kept'[p] \subseteq {CliTarget(p, q)}
        /\ \A x \in Post \ {p} : kept'[x] = kept[x] /\ todo'[x] = todo[x]
        /\ UNCHANGED <<visibility, replyTo, cli, times, make, creates>>
    <3>1. CASE again[p][q] = 0
      BY <1>32, <3>1, InboxesAreInboxes DEF CliFilter
    <3>2. CASE again[p][q] # 0
      BY <1>32, <3>2, InboxesAreInboxes DEF CliFilter
    <3>3. QED BY <3>1, <3>2
  <2>2. CliTarget(p, q) \in {q, HubInbox}
    BY DEF CliTarget, SharedInbox
  <2>3. visibility[p] = "direct" => CliTarget(p, q) = q
    BY DEF CliTarget
  <2>4. ASSUME NEW x \in Post PROVE FanOf(x)'
    <3>1. CASE x # p
      BY <2>1, <3>1 DEF FanOf
    <3>2. CASE x = p
      <4>1. FanOf(p) /\ todo[p] \subseteq Peer /\ HubInbox \notin Peer
        BY <2>1
      <4>2. ASSUME visibility[p] # "direct", NEW k \in todo'[p]
            PROVE  k \notin kept'[p] /\ creates[p][k] = 0
        <5>1. k \in todo[p] /\ k # q /\ k \in Peer /\ k # HubInbox
          BY <2>1, <4>1, <4>2
        <5>2. kept'[p] \subseteq {q, HubInbox}
          BY <2>1, <2>2
        <5>3. creates[p][k] = 0
          BY <2>1, <4>1, <4>2, <5>1 DEF FanOf
        <5>4. QED BY <5>1, <5>2, <5>3
      <4>3. ASSUME visibility[p] # "direct", NEW k \in kept'[p], creates[p][k] > 0
            PROVE  k = HubInbox
        BY <2>1, <2>2, <4>1, <4>3 DEF FanOf
      <4>4. QED BY <2>1, <3>2, <4>2, <4>3 DEF FanOf
    <3>3. QED BY <3>1, <3>2
  <2>5. QED BY <2>1, <2>4 DEF FanOf
<1>33. ASSUME NEW p \in Post, NEW i \in Inbox, CliInsertsRow(p, i) PROVE FanInv'
  <2>1. /\ make[p] = "clifan" /\ p \in cli /\ i \in kept[p]
        /\ kept' = [kept EXCEPT ![p] = @ \ {i}]
        /\ creates' = [creates EXCEPT ![p][i] = @ + 1]
        /\ UNCHANGED <<visibility, replyTo, cli, times, make, todo>>
    BY <1>33 DEF CliInsertsRow
  <2>2. /\ creates'[p][i] = creates[p][i] + 1
        /\ \A x \in Post, k \in Inbox : x # p \/ k # i => creates'[x][k] = creates[x][k]
    BY <2>1
  <2>3. ASSUME visibility[p] = "direct"
        PROVE  i \in Peer /\ creates'[p][i] <= times[p][i]
    <3>1. ListedOf(p)
      BY <2>1, <2>3 DEF ListedInv, Listed
    <3>2. i \in Peer
      BY <2>1, <3>1 DEF ListedOf
    <3>3. again[p][i] \in Nat /\ times[p][i] \in Nat /\ creates[p][i] \in Nat
      BY <3>2
    <3>4. creates[p][i] + 1 <= times[p][i]
      <4>1. creates[p][i] + (IF i \in kept[p] THEN 1 ELSE 0)
              + (IF i \in todo[p] THEN 1 + again[p][i] ELSE 0) <= times[p][i]
        BY <3>1, <3>2 DEF ListedOf
      <4>2. QED BY ONLY <2>1, <3>3, <4>1
    <3>5. QED BY <2>2, <3>2, <3>4
  <2>4. NoTwins'
    BY <2>1, <2>2, <2>3
  <2>5. ASSUME NEW x \in Post PROVE FanOf(x)'
    <3>1. CASE x = p
      BY <2>1, <2>2, <3>1 DEF FanOf
    <3>2. CASE x # p
      BY <2>1, <2>2, <3>2 DEF FanOf
    <3>3. QED BY <3>1, <3>2
  <2>6. QED BY <2>4, <2>5 DEF FanOf
<1>34. ASSUME NEW p \in Post, CliEnds(p) PROVE FanInv'
  BY <1>34 DEF CliEnds
<1>35. ASSUME NEW r \in Deletion, NEW p \in posts \cap cli, CliDeletes(r, p) PROVE FanInv'
  BY <1>35, InboxesAreInboxes DEF CliDeletes
<1>36. ASSUME NEW r \in Deletion, NEW i \in Inbox, CliSkips(r, i) PROVE FanInv'
  BY <1>36 DEF CliSkips
<1>37. ASSUME NEW p \in Post, PdsDeletes(p) PROVE FanInv'
  BY <1>37 DEF PdsDeletes
<1>26. ASSUME NEW p \in Post, Create(p) PROVE FanInv'
  BY <1>8, <1>9, <1>10, <1>11, <1>12, <1>13, <1>14, <1>15, <1>16, <1>26, <1>30, <1>31,
     <1>32, <1>33, <1>34, CreateSteps
<1>27. ASSUME NEW r \in Deletion, Delete(r) PROVE FanInv'
  BY <1>17, <1>18, <1>19, <1>20, <1>21, <1>22, <1>27, <1>35, <1>36
  DEF Delete
<1>28. CASE EditList
  BY <1>3, <1>4, <1>5, <1>6, <1>7, <1>28 DEF EditList
<1>29. QED BY <1>1, <1>2, <1>23, <1>24, <1>25, <1>26, <1>27, <1>28, <1>37 DEF Next

\* A post the command line does not address by name, or of which nothing moves.
Quiet(p) ==
  \/ make'[p] \notin {"cli", "clifan"} \/ visibility'[p] # "direct"
  \/ /\ make[p] \in {"cli", "clifan"} /\ visibility'[p] = visibility[p]
     /\ creates'[p] = creates[p] /\ kept'[p] = kept[p] /\ todo'[p] = todo[p]
     /\ again'[p] = again[p] /\ times'[p] = times[p]

\* What is not on its way from the command line to the named stays as it was.
LEMMA QuietStays ==
  ASSUME NEW p \in Post, ListedInv, Quiet(p)
  PROVE  Listed(p)' => ListedOf(p)'
<1>1. CASE make'[p] \notin {"cli", "clifan"} \/ visibility'[p] # "direct"
  BY <1>1 DEF Listed
<1>2. CASE make[p] \in {"cli", "clifan"} /\ visibility[p] = "direct"
           /\ UNCHANGED <<creates[p], kept[p], todo[p], again[p], times[p]>>
  <2>1. ListedOf(p)
    BY <1>2 DEF ListedInv, Listed
  <2>2. QED BY <1>2, <2>1 DEF ListedOf
<1>3. QED BY <1>1, <1>2 DEF Quiet

\* Each entry of --to is worked off once.
LEMMA ListedStep == PostsInv /\ [Next]_vars => ListedInv'
<1> USE DEF ask, rows, making, dropping, saving, world, copies, ended
<1> SUFFICES ASSUME PostsInv, [Next]_vars PROVE ListedInv'
  OBVIOUS
<1>0. TypeOK /\ StageInv /\ ListedInv
  BY DEF PostsInv
<1>1. ASSUME \A x \in Post : Quiet(x) PROVE ListedInv'
  BY <1>0, <1>1, QuietStays DEF ListedInv
<1>2. ASSUME UNCHANGED <<visibility, make, todo, kept, again, times, creates>>
      PROVE  ListedInv'
  BY <1>0, <1>2 DEF ListedInv, Listed, ListedOf
<1>3. ASSUME NEW p \in Post, Create(p) PROVE ListedInv'
  <2>0. /\ make \in [Post -> Stage] /\ visibility \in [Post -> Visibility]
        /\ todo \in [Post -> SUBSET Inbox] /\ kept \in [Post -> SUBSET Inbox]
        /\ creates \in [Post -> [Inbox -> Nat]]
        /\ again \in [Post -> [Peer -> Nat]] /\ times \in [Post -> [Peer -> Nat]]
    BY <1>0 DEF TypeOK
  <2>1. CASE Asks(p)
    <3>1. PICK v \in Visibility, f \in BOOLEAN, listed \in BOOLEAN,
              named \in SUBSET Peer, rt \in Inbox \cup {NoOne} :
              StartPost(p, v, f, rt, named, listed)
      BY <2>1, Zenon DEF Asks
    <3>2. \A x \in Post : Quiet(x)
      BY <2>0, <3>1 DEF StartPost, Quiet
    <3>3. QED BY <1>1, <3>2
  <2>2. CASE ReadList(p) \/ ReadFollowers(p) \/ FailPost(p) \/ CliEnds(p)
    <3>1. \A x \in Post : Quiet(x)
      BY <2>0, <2>2 DEF ReadList, ReadFollowers, FailPost, CliEnds, Quiet
    <3>2. QED BY <1>1, <3>1
  <2>3. CASE InsertPost(p)
    <3>1. PostIn(p)
      BY <1>0, <2>3, PostGoesIn
    <3>2. \A x \in Post : Quiet(x)
      BY <2>0, <3>1 DEF PostIn, Quiet
    <3>3. QED BY <1>1, <3>2
  <2>4. CASE EndBatch(p)
    <3>1. BatchIn(p)
      BY <1>0, <2>4, BatchEnds
    <3>2. \A x \in Post : Quiet(x)
      BY <2>0, <3>1 DEF BatchIn, Quiet
    <3>3. QED BY <1>1, <3>2
  <2>5. ASSUME NEW q \in Peer, CheckRecipient(p, q) PROVE ListedInv'
    <3>1. \A x \in Post : Quiet(x)
      BY <2>0, <2>5 DEF CheckRecipient, Quiet
    <3>2. QED BY <1>1, <3>1
  <2>6. ASSUME NEW i \in Inbox, Filter(p, i) \/ InsertRow(p, i) PROVE ListedInv'
    <3>1. \A x \in Post : Quiet(x)
      BY <2>0, <2>6 DEF Filter, InsertRow, Fanning, Quiet
    <3>2. QED BY <1>1, <3>1
  <2>7. ASSUME NEW v \in Visibility, NEW to \in [Peer -> Nat], CliPosts(p, v, to)
        PROVE  ListedInv'
    <3>1. /\ make[p] = "none" /\ make' = [make EXCEPT ![p] = "cli"]
          /\ visibility' = [visibility EXCEPT ![p] = v]
          /\ times' = [times EXCEPT ![p] = to]
          /\ again' = [again EXCEPT ![p] = Repeats(to)]
          /\ todo' = [todo EXCEPT ![p] = Named(to)]
          /\ creates' = creates /\ kept' = kept
      BY <2>7 DEF CliPosts
    <3>2. ASSUME NEW x \in Post, x # p PROVE Quiet(x)
      BY <2>0, <3>1, <3>2 DEF Quiet
    <3>3. kept[p] = {} /\ \A q \in Peer : creates[p][q] = 0
      BY <1>0, <3>1, InboxesAreInboxes DEF StageInv, Before
    <3>4. ListedOf(p)'
      <4>1. /\ times'[p] = to /\ again'[p] = Repeats(to) /\ todo'[p] = Named(to)
            /\ kept'[p] = {}
        BY <2>0, <3>1, <3>3
      <4>2. ASSUME NEW q \in Peer
            PROVE  /\ to[q] \in Nat /\ creates'[p][q] = 0
                   /\ q \in Named(to) <=> to[q] > 0
                   /\ Repeats(to)[q] = IF to[q] > 0 THEN to[q] - 1 ELSE 0
        BY <3>1, <3>3 DEF Named, Repeats
      <4>3. QED BY <4>1, <4>2 DEF ListedOf
    <3>5. QED BY <1>0, <3>2, <3>4, QuietStays DEF ListedInv
  <2>8. CASE CliReadsFollowers(p)
    <3>1. \A x \in Post : Quiet(x)
      BY <2>0, <2>8 DEF CliReadsFollowers, Quiet
    <3>2. QED BY <1>1, <3>1
  <2>9. ASSUME NEW q \in Peer, CliFilter(p, q) PROVE ListedInv'
    <3>1. /\ make[p] = "clifan" /\ kept[p] = {} /\ q \in todo[p]
          /\ kept' = [kept EXCEPT ![p] = {i \in {CliTarget(p, q)} : Host(i) \in admitted}]
          /\ UNCHANGED <<visibility, make, times, creates>>
      BY <2>9 DEF CliFilter
    <3>2. \/ again[p][q] = 0 /\ todo' = [todo EXCEPT ![p] = @ \ {q}] /\ again' = again
          \/ again[p][q] > 0 /\ again' = [again EXCEPT ![p][q] = @ - 1] /\ todo' = todo
      BY <2>9 DEF CliFilter
    <3>3. ASSUME NEW x \in Post, x # p PROVE Listed(x)' => ListedOf(x)'
      <4>1. /\ make'[x] = make[x] /\ visibility'[x] = visibility[x]
            /\ creates'[x] = creates[x] /\ kept'[x] = kept[x] /\ todo'[x] = todo[x]
            /\ again'[x] = again[x] /\ times'[x] = times[x]
        BY <2>0, <3>1, <3>2, <3>3
      <4>2. Quiet(x)
        BY <4>1 DEF Quiet
      <4>3. QED BY <1>0, <4>2, QuietStays
    <3>4. ASSUME visibility[p] = "direct" PROVE ListedOf(p)'
      <4>1. ListedOf(p)
        BY <1>0, <3>1, <3>4 DEF ListedInv, Listed
      <4>2. kept'[p] \subseteq {q} /\ times'[p] = times[p] /\ creates'[p] = creates[p]
        BY <2>0, <3>1, <3>4 DEF CliTarget
      <4>3. ASSUME NEW k \in Peer
            PROVE  creates[p][k] \in Nat /\ again[p][k] \in Nat /\ times[p][k] \in Nat
        BY <2>0, InboxesAreInboxes
      <4>4. ASSUME NEW k \in Peer, k # q
            PROVE  (k \in todo'[p] <=> k \in todo[p]) /\ again'[p][k] = again[p][k]
        BY <2>0, <3>2, <4>4
      <4>5. \/ q \notin todo'[p] /\ again[p][q] = 0
            \/ q \in todo'[p] /\ again[p][q] > 0 /\ again'[p][q] = again[p][q] - 1
        BY <2>0, <3>1, <3>2
      <4>6. ASSUME NEW k \in Peer
            PROVE  creates[p][k] + (IF k \in kept'[p] THEN 1 ELSE 0)
                     + (IF k \in todo'[p] THEN 1 + again'[p][k] ELSE 0) <= times[p][k]
        <5>1. creates[p][k] + (IF k \in todo[p] THEN 1 + again[p][k] ELSE 0)
                <= times[p][k]
          BY <3>1, <4>1, <4>3 DEF ListedOf
        <5>2. CASE k = q
          BY <3>1, <4>2, <4>3, <4>5, <5>1, <5>2
        <5>3. CASE k # q
          BY <4>2, <4>3, <4>4, <5>1, <5>3
        <5>4. QED BY <5>2, <5>3
      <4>7. QED BY <4>2, <4>6 DEF ListedOf
    <3>5. QED BY <3>1, <3>3, <3>4 DEF ListedInv, Listed
  <2>10. ASSUME NEW i \in Inbox, CliInsertsRow(p, i) PROVE ListedInv'
    <3>1. /\ i \in kept[p] /\ kept' = [kept EXCEPT ![p] = @ \ {i}]
          /\ creates' = [creates EXCEPT ![p][i] = @ + 1] /\ make[p] = "clifan"
          /\ UNCHANGED <<visibility, make, todo, again, times>>
      BY <2>10 DEF CliInsertsRow
    <3>2. ASSUME NEW x \in Post, x # p PROVE Listed(x)' => ListedOf(x)'
      <4>1. /\ make'[x] = make[x] /\ visibility'[x] = visibility[x]
            /\ creates'[x] = creates[x] /\ kept'[x] = kept[x] /\ todo'[x] = todo[x]
            /\ again'[x] = again[x] /\ times'[x] = times[x]
        BY <2>0, <3>1, <3>2
      <4>2. Quiet(x)
        BY <4>1 DEF Quiet
      <4>3. QED BY <1>0, <4>2, QuietStays
    <3>3. ASSUME visibility[p] = "direct" PROVE ListedOf(p)'
      <4>1. ListedOf(p)
        BY <1>0, <3>1, <3>3 DEF ListedInv, Listed
      <4>2. /\ kept'[p] = kept[p] \ {i} /\ creates'[p][i] = creates[p][i] + 1
            /\ \A k \in Inbox : k # i => creates'[p][k] = creates[p][k]
            /\ todo'[p] = todo[p] /\ again'[p] = again[p] /\ times'[p] = times[p]
        BY <2>0, <3>1
      <4>3. ASSUME NEW k \in Peer
            PROVE  /\ creates[p][k] \in Nat /\ again[p][k] \in Nat /\ times[p][k] \in Nat
                   /\ k \in Inbox
        BY <2>0, InboxesAreInboxes
      <4>4. ASSUME NEW k \in Peer
            PROVE  creates'[p][k] + (IF k \in kept'[p] THEN 1 ELSE 0)
                     + (IF k \in todo'[p] THEN 1 + again'[p][k] ELSE 0) <= times'[p][k]
        <5>1. creates[p][k] + (IF k \in kept[p] THEN 1 ELSE 0)
                + (IF k \in todo[p] THEN 1 + again[p][k] ELSE 0) <= times[p][k]
          BY <4>1 DEF ListedOf
        <5>2. CASE k = i
          BY <3>1, <4>2, <4>3, <5>1, <5>2
        <5>3. CASE k # i
          BY <4>2, <4>3, <5>1, <5>3
        <5>4. QED BY <5>2, <5>3
      <4>5. kept'[p] \subseteq Peer
        BY <4>1, <4>2 DEF ListedOf
      <4>6. QED BY <4>4, <4>5 DEF ListedOf
    <3>4. QED BY <3>1, <3>2, <3>3 DEF ListedInv, Listed
  <2>11. ASSUME NEW q \in Peer, CheckRecipient(p, q) \/ CliFilter(p, q) PROVE ListedInv'
    BY <2>5, <2>9, <2>11
  <2>12. ASSUME NEW i \in Inbox, Filter(p, i) \/ InsertRow(p, i) \/ CliInsertsRow(p, i)
         PROVE ListedInv'
    BY <2>6, <2>10, <2>12
  <2>13. QED
    BY <1>3, <2>1, <2>2, <2>3, <2>4, <2>7, <2>8, <2>11, <2>12, CreateSteps
<1>4. ASSUME NEW r \in Deletion, Delete(r) PROVE ListedInv'
  <2>1. UNCHANGED <<ask, making, creates>>
    BY <1>4 DEF Delete, StartDelete, DeleteReadsFollowers, DeletePost, FailDelete,
                DeleteFilter, DeleteInsertsRow, CliDeletes, CliSkips
  <2>2. QED BY <1>2, <2>1
<1>5. CASE EditList
  <2>1. UNCHANGED <<ask, making, creates>>
    BY <1>5 DEF EditList, DeleteList, SaveList, ClearMembers, EndSave, AddMember
  <2>2. QED BY <1>2, <2>1
<1>6. ASSUME NEW p \in Post, NEW i \in Inbox, Build(p, i) \/ Arrive(p, i)
      PROVE  ListedInv'
  BY <1>2, <1>6 DEF Build, Arrive
<1>7. ASSUME NEW i \in Inbox, ChangeFollower(i) \/ ChangeHost(i) PROVE ListedInv'
  BY <1>2, <1>7 DEF ChangeFollower, ChangeHost
<1>8. ASSUME NEW p \in Post, PdsDeletes(p) PROVE ListedInv'
  BY <1>2, <1>8 DEF PdsDeletes
<1>9. CASE UNCHANGED vars
  BY <1>2, <1>9 DEF vars
<1>10. QED
  BY <1>3, <1>4, <1>5, <1>6, <1>7, <1>8, <1>9, InboxesAreInboxes DEF Next

\* A member is added by a save that has its list in force.
LEMMA ListStep == PostsInv /\ [Next]_vars => ListInv'
<1> USE PostsAssumption DEF TypeOK, ListInv, ask, rows, making, dropping, saving,
        world, copies, ended
<1> SUFFICES ASSUME TypeOK, ListInv, [Next]_vars PROVE ListInv'
  BY DEF PostsInv
<1>1. ASSUME NEW q \in Peer, ChangeFollower(q) PROVE ListInv'
  BY <1>1 DEF ChangeFollower
<1>2. ASSUME NEW h \in Inbox, ChangeHost(h) PROVE ListInv'
  BY <1>2 DEF ChangeHost
<1>3. CASE DeleteList
  BY <1>3 DEF DeleteList
<1>4. ASSUME NEW s \in Save, NEW new \in SUBSET Peer, SaveList(s, new) PROVE
             ListInv'
  BY <1>4 DEF SaveList
<1>5. ASSUME NEW s \in Save, ClearMembers(s) PROVE ListInv'
  BY <1>5 DEF ClearMembers, Busy
<1>6. ASSUME NEW s \in Save, EndSave(s) PROVE ListInv'
  BY <1>6 DEF EndSave
<1>7. ASSUME NEW s \in Save, NEW q \in Peer, AddMember(s, q) PROVE ListInv'
  BY <1>7 DEF AddMember
<1>8. ASSUME NEW p \in Post, Asks(p) PROVE ListInv'
  <2>1. PICK v \in Visibility, f \in BOOLEAN, listed \in BOOLEAN,
            named \in SUBSET Peer, rt \in Inbox \cup {NoOne} :
            StartPost(p, v, f, rt, named, listed)
    BY <1>8, Zenon DEF Asks
  <2>2. QED BY <2>1 DEF StartPost
<1>9. ASSUME NEW p \in Post, ReadList(p) PROVE ListInv'
  BY <1>9 DEF ReadList
<1>10. ASSUME NEW p \in Post, NEW q \in Peer, CheckRecipient(p, q) PROVE ListInv'
  BY <1>10 DEF CheckRecipient
<1>11. ASSUME NEW p \in Post, InsertPost(p) PROVE ListInv'
  <2>1. PostIn(p)
    BY <1>11, PostGoesIn
  <2>2. QED BY <2>1 DEF PostIn
<1>12. ASSUME NEW p \in Post, ReadFollowers(p) PROVE ListInv'
  BY <1>12 DEF ReadFollowers
<1>13. ASSUME NEW p \in Post, NEW i \in Inbox, Filter(p, i) PROVE ListInv'
  BY <1>13 DEF Filter
<1>14. ASSUME NEW p \in Post, NEW i \in Inbox, InsertRow(p, i) PROVE ListInv'
  BY <1>14 DEF InsertRow
<1>15. ASSUME NEW p \in Post, EndBatch(p) PROVE ListInv'
  <2>1. BatchIn(p)
    BY <1>15, BatchEnds
  <2>2. QED BY <2>1 DEF BatchIn
<1>16. ASSUME NEW p \in Post, FailPost(p) PROVE ListInv'
  BY <1>16 DEF FailPost
<1>17. ASSUME NEW r \in Deletion, NEW p \in Post, StartDelete(r, p) PROVE ListInv'
  BY <1>17 DEF StartDelete
<1>18. ASSUME NEW r \in Deletion, DeleteReadsFollowers(r) PROVE ListInv'
  BY <1>18 DEF DeleteReadsFollowers
<1>19. ASSUME NEW r \in Deletion, NEW i \in Inbox, DeleteFilter(r, i) PROVE ListInv'
  BY <1>19 DEF DeleteFilter, DropFans
<1>20. ASSUME NEW r \in Deletion, NEW i \in Inbox, DeleteInsertsRow(r, i) PROVE
             ListInv'
  BY <1>20 DEF DeleteInsertsRow, DropFans
<1>21. ASSUME NEW r \in Deletion, DeletePost(r) PROVE ListInv'
  BY <1>21 DEF DeletePost, DropFans
<1>22. ASSUME NEW r \in Deletion, FailDelete(r) PROVE ListInv'
  BY <1>22 DEF FailDelete
<1>23. ASSUME NEW p \in Post, NEW i \in Inbox, Build(p, i) PROVE ListInv'
  BY <1>23 DEF Build
<1>24. ASSUME NEW p \in Post, NEW i \in Inbox, Arrive(p, i) PROVE ListInv'
  BY <1>24 DEF Arrive
<1>25. CASE UNCHANGED vars
  BY <1>25 DEF vars
<1>30. ASSUME NEW p \in Post, NEW v \in Visibility, NEW to \in [Peer -> Nat],
              CliPosts(p, v, to) PROVE ListInv'
  BY <1>30 DEF CliPosts
<1>31. ASSUME NEW p \in Post, CliReadsFollowers(p) PROVE ListInv'
  BY <1>31 DEF CliReadsFollowers
<1>32. ASSUME NEW p \in Post, NEW q \in Peer, CliFilter(p, q) PROVE ListInv'
  BY <1>32, InboxesAreInboxes DEF CliFilter, CliTarget
<1>33. ASSUME NEW p \in Post, NEW i \in Inbox, CliInsertsRow(p, i) PROVE ListInv'
  BY <1>33 DEF CliInsertsRow
<1>34. ASSUME NEW p \in Post, CliEnds(p) PROVE ListInv'
  BY <1>34 DEF CliEnds
<1>35. ASSUME NEW r \in Deletion, NEW p \in posts \cap cli, CliDeletes(r, p) PROVE ListInv'
  BY <1>35, InboxesAreInboxes DEF CliDeletes
<1>36. ASSUME NEW r \in Deletion, NEW i \in Inbox, CliSkips(r, i) PROVE ListInv'
  BY <1>36 DEF CliSkips
<1>37. ASSUME NEW p \in Post, PdsDeletes(p) PROVE ListInv'
  BY <1>37 DEF PdsDeletes
<1>26. ASSUME NEW p \in Post, Create(p) PROVE ListInv'
  BY <1>8, <1>9, <1>10, <1>11, <1>12, <1>13, <1>14, <1>15, <1>16, <1>26, <1>30, <1>31,
     <1>32, <1>33, <1>34, CreateSteps
<1>27. ASSUME NEW r \in Deletion, Delete(r) PROVE ListInv'
  BY <1>17, <1>18, <1>19, <1>20, <1>21, <1>22, <1>27, <1>35, <1>36
  DEF Delete
<1>28. CASE EditList
  BY <1>3, <1>4, <1>5, <1>6, <1>7, <1>28 DEF EditList
<1>29. QED BY <1>1, <1>2, <1>23, <1>24, <1>25, <1>26, <1>27, <1>28, <1>37 DEF Next

\* A direct post is fanned out to those it was checked for.
LEMMA MeantStep == PostsInv /\ [Next]_vars => MeantInv'
<1> USE PostsAssumption DEF TypeOK, StageInv, ListInv, MeantInv, DirectIsMeant,
        Before, ask, rows, making, dropping, saving, world, copies, ended
<1> SUFFICES ASSUME TypeOK, StageInv, ListInv, MeantInv, [Next]_vars PROVE MeantInv'
  BY DEF PostsInv
<1>1. ASSUME NEW q \in Peer, ChangeFollower(q) PROVE MeantInv'
  BY <1>1 DEF ChangeFollower
<1>2. ASSUME NEW h \in Inbox, ChangeHost(h) PROVE MeantInv'
  BY <1>2 DEF ChangeHost
<1>3. CASE DeleteList
  BY <1>3 DEF DeleteList
<1>4. ASSUME NEW s \in Save, NEW new \in SUBSET Peer, SaveList(s, new) PROVE
             MeantInv'
  BY <1>4 DEF SaveList
<1>5. ASSUME NEW s \in Save, ClearMembers(s) PROVE MeantInv'
  BY <1>5 DEF ClearMembers
<1>6. ASSUME NEW s \in Save, EndSave(s) PROVE MeantInv'
  BY <1>6 DEF EndSave
<1>7. ASSUME NEW s \in Save, NEW q \in Peer, AddMember(s, q) PROVE MeantInv'
  BY <1>7 DEF AddMember
<1>8. ASSUME NEW p \in Post, Asks(p) PROVE MeantInv'
  <2>1. PICK v \in Visibility, f \in BOOLEAN, listed \in BOOLEAN,
            named \in SUBSET Peer, rt \in Inbox \cup {NoOne} :
            StartPost(p, v, f, rt, named, listed)
    BY <1>8, Zenon DEF Asks
  <2>2. QED BY <2>1 DEF StartPost
<1>9. ASSUME NEW p \in Post, ReadList(p) PROVE MeantInv'
  BY <1>9 DEF ReadList
<1>10. ASSUME NEW p \in Post, NEW q \in Peer, CheckRecipient(p, q) PROVE MeantInv'
  BY <1>10 DEF CheckRecipient
<1>11. ASSUME NEW p \in Post, InsertPost(p) PROVE MeantInv'
  <2>1. PostIn(p)
    BY <1>11, PostGoesIn
  <2>2. QED BY <2>1 DEF PostIn
<1>12. ASSUME NEW p \in Post, ReadFollowers(p) PROVE MeantInv'
  BY <1>12 DEF ReadFollowers
<1>13. ASSUME NEW p \in Post, NEW i \in Inbox, Filter(p, i) PROVE MeantInv'
  BY <1>13 DEF Filter, Fanning
<1>14. ASSUME NEW p \in Post, NEW i \in Inbox, InsertRow(p, i) PROVE MeantInv'
  BY <1>14 DEF InsertRow, Fanning
<1>15. ASSUME NEW p \in Post, EndBatch(p) PROVE MeantInv'
  <2>1. BatchIn(p)
    BY <1>15, BatchEnds
  <2>2. UNCHANGED <<visibility, replyTo, creates, meant, approved, moved, kept>>
    BY <2>1 DEF BatchIn
  <2>3. ASSUME NEW x \in Post, visibility[x] = "direct"
        PROVE (make'[x] = make[x] /\ todo'[x] = todo[x]) \/ make'[x] = "done"
    BY <2>1, <2>3 DEF BatchIn
  <2>4. ASSUME NEW x \in Post, visibility[x] = "direct"
        PROVE /\ make'[x] \in {"list", "check", "cli"} => todo'[x] \subseteq meant[x]
              /\ make'[x] = "check" => kept[x] \subseteq meant[x] \cap (approved \cup moved)
              /\ make'[x] = "fan" => todo'[x] \cup kept[x] \subseteq
                   (meant[x] \cap (approved \cup moved)) \cup {replyTo[x]}
              /\ make'[x] = "clifan" => todo'[x] \cup kept[x] \subseteq
                   meant[x] \cap (approved \cup moved)
    BY <2>3, <2>4
  <2>5. DirectIsMeant'
    BY <2>2
  <2>6. QED BY <2>2, <2>4, <2>5
<1>16. ASSUME NEW p \in Post, FailPost(p) PROVE MeantInv'
  BY <1>16 DEF FailPost
<1>17. ASSUME NEW r \in Deletion, NEW p \in Post, StartDelete(r, p) PROVE MeantInv'
  BY <1>17 DEF StartDelete
<1>18. ASSUME NEW r \in Deletion, DeleteReadsFollowers(r) PROVE MeantInv'
  BY <1>18 DEF DeleteReadsFollowers
<1>19. ASSUME NEW r \in Deletion, NEW i \in Inbox, DeleteFilter(r, i) PROVE
             MeantInv'
  BY <1>19 DEF DeleteFilter, DropFans
<1>20. ASSUME NEW r \in Deletion, NEW i \in Inbox, DeleteInsertsRow(r, i) PROVE
             MeantInv'
  BY <1>20 DEF DeleteInsertsRow, DropFans
<1>21. ASSUME NEW r \in Deletion, DeletePost(r) PROVE MeantInv'
  BY <1>21 DEF DeletePost, DropFans
<1>22. ASSUME NEW r \in Deletion, FailDelete(r) PROVE MeantInv'
  BY <1>22 DEF FailDelete
<1>23. ASSUME NEW p \in Post, NEW i \in Inbox, Build(p, i) PROVE MeantInv'
  BY <1>23 DEF Build
<1>24. ASSUME NEW p \in Post, NEW i \in Inbox, Arrive(p, i) PROVE MeantInv'
  BY <1>24 DEF Arrive
<1>25. CASE UNCHANGED vars
  BY <1>25 DEF vars
<1>30. ASSUME NEW p \in Post, NEW v \in Visibility, NEW to \in [Peer -> Nat],
              CliPosts(p, v, to) PROVE MeantInv'
  BY <1>30 DEF CliPosts
<1>31. ASSUME NEW p \in Post, CliReadsFollowers(p) PROVE MeantInv'
  BY <1>31 DEF CliReadsFollowers
<1>32. ASSUME NEW p \in Post, NEW q \in Peer, CliFilter(p, q) PROVE MeantInv'
  BY <1>32, InboxesAreInboxes DEF CliFilter, CliTarget
<1>33. ASSUME NEW p \in Post, NEW i \in Inbox, CliInsertsRow(p, i) PROVE MeantInv'
  BY <1>33 DEF CliInsertsRow
<1>34. ASSUME NEW p \in Post, CliEnds(p) PROVE MeantInv'
  BY <1>34 DEF CliEnds
<1>35. ASSUME NEW r \in Deletion, NEW p \in posts \cap cli, CliDeletes(r, p) PROVE MeantInv'
  BY <1>35, InboxesAreInboxes DEF CliDeletes
<1>36. ASSUME NEW r \in Deletion, NEW i \in Inbox, CliSkips(r, i) PROVE MeantInv'
  BY <1>36 DEF CliSkips
<1>37. ASSUME NEW p \in Post, PdsDeletes(p) PROVE MeantInv'
  BY <1>37 DEF PdsDeletes
<1>26. ASSUME NEW p \in Post, Create(p) PROVE MeantInv'
  BY <1>8, <1>9, <1>10, <1>11, <1>12, <1>13, <1>14, <1>15, <1>16, <1>26, <1>30, <1>31,
     <1>32, <1>33, <1>34, CreateSteps
<1>27. ASSUME NEW r \in Deletion, Delete(r) PROVE MeantInv'
  BY <1>17, <1>18, <1>19, <1>20, <1>21, <1>22, <1>27, <1>35, <1>36
  DEF Delete
<1>28. CASE EditList
  BY <1>3, <1>4, <1>5, <1>6, <1>7, <1>28 DEF EditList
<1>29. QED BY <1>1, <1>2, <1>23, <1>24, <1>25, <1>26, <1>27, <1>28, <1>37 DEF Next

\* A follower is reached if nothing about its inbox changed.
LEMMA QueueStep == PostsInv /\ [Next]_vars => QueueInv'
<1> USE PostsAssumption DEF TypeOK, StageInv, QueueInv, FollowersAreQueued, Reached,
        CliTarget, Before, FollowerInboxes, ask, rows, making, dropping, saving, world, copies, ended
<1> SUFFICES ASSUME TypeOK, StageInv, QueueInv, [Next]_vars PROVE QueueInv'
  BY DEF PostsInv
<1>1. ASSUME NEW q \in Peer, ChangeFollower(q) PROVE QueueInv'
  BY <1>1 DEF ChangeFollower
<1>2. ASSUME NEW h \in Inbox, ChangeHost(h) PROVE QueueInv'
  BY <1>2, InboxesAreInboxes DEF ChangeHost
<1>3. CASE DeleteList
  BY <1>3 DEF DeleteList
<1>4. ASSUME NEW s \in Save, NEW new \in SUBSET Peer, SaveList(s, new) PROVE
             QueueInv'
  BY <1>4 DEF SaveList
<1>5. ASSUME NEW s \in Save, ClearMembers(s) PROVE QueueInv'
  BY <1>5 DEF ClearMembers
<1>6. ASSUME NEW s \in Save, EndSave(s) PROVE QueueInv'
  BY <1>6 DEF EndSave
<1>7. ASSUME NEW s \in Save, NEW q \in Peer, AddMember(s, q) PROVE QueueInv'
  BY <1>7 DEF AddMember
<1>8. ASSUME NEW p \in Post, Asks(p) PROVE QueueInv'
  <2>1. PICK v \in Visibility, f \in BOOLEAN, listed \in BOOLEAN,
            named \in SUBSET Peer, rt \in Inbox \cup {NoOne} :
            StartPost(p, v, f, rt, named, listed)
    BY <1>8, Zenon DEF Asks
  <2>2. QED BY <2>1 DEF StartPost
<1>9. ASSUME NEW p \in Post, ReadList(p) PROVE QueueInv'
  BY <1>9 DEF ReadList
<1>10. ASSUME NEW p \in Post, NEW q \in Peer, CheckRecipient(p, q) PROVE QueueInv'
  BY <1>10 DEF CheckRecipient
<1>11. ASSUME NEW p \in Post, InsertPost(p) PROVE QueueInv'
  <2>1. PostIn(p)
    BY <1>11, PostGoesIn
  <2>2. UNCHANGED <<approved, moved, admitted, visibility, federated, creates>>
    BY <2>1 DEF PostIn
  <2>3. ASSUME NEW x \in Post, NEW i \in Inbox, Reached(i), visibility[x] # "direct"
        PROVE /\ make'[x] = "fan" => i \in todo'[x] \cup kept'[x] \/ creates[x][i] > 0
              /\ make'[x] = "extra" => creates[x][i] > 0
              /\ make'[x] = "done" /\ federated[x] => creates[x][i] > 0
              /\ make'[x] = "clifan" => (\E q \in todo'[x] : SharedInbox(q) = i)
                                       \/ i \in kept'[x] \/ creates[x][i] > 0
    <3>1. CASE x = p
      BY <2>1, <2>3, <3>1 DEF PostIn
    <3>2. CASE x # p
      <4>1. make'[x] = make[x] /\ todo'[x] = todo[x] /\ kept'[x] = kept[x]
        BY <2>1, <3>2 DEF PostIn
      <4>2. federated'[x] = federated[x]
        BY <2>2
      <4>3. QED BY <2>3, <4>1, <4>2
    <3>3. QED BY <3>1, <3>2
  <2>4. QED BY <2>2, <2>3, InboxesAreInboxes
<1>12. ASSUME NEW p \in Post, ReadFollowers(p) PROVE QueueInv'
  BY <1>12 DEF ReadFollowers
<1>13. ASSUME NEW p \in Post, NEW i \in Inbox, Filter(p, i) PROVE QueueInv'
  <2>1. /\ make[p] \in {"fan", "extra"}
        /\ todo' = [todo EXCEPT ![p] = @ \ {i}]
        /\ kept' = [kept EXCEPT ![p] = IF Host(i) \in admitted THEN @ \cup {i} ELSE @]
        /\ UNCHANGED <<visibility, federated, make, creates, approved, moved, admitted>>
    BY <1>13 DEF Filter, Fanning
  <2>2. ASSUME NEW x \in Post, NEW k \in Inbox, Reached(k), visibility[x] # "direct"
        PROVE  k \in todo[x] \cup kept[x] => k \in todo'[x] \cup kept'[x]
    <3>1. CASE x = p
      BY <2>1, <2>2, <3>1
    <3>2. CASE x # p
      BY <2>1, <3>2
    <3>3. QED BY <3>1, <3>2
  <2>3. ASSUME NEW x \in Post, make[x] = "clifan"
        PROVE  todo'[x] = todo[x] /\ kept'[x] = kept[x]
    BY <2>1, <2>3
  <2>4. FollowerInboxes' = FollowerInboxes
    BY <2>1 DEF FollowerInboxes
  <2>5. QED BY <2>1, <2>2, <2>3, <2>4
<1>14. ASSUME NEW p \in Post, NEW i \in Inbox, InsertRow(p, i) PROVE QueueInv'
  BY <1>14 DEF InsertRow, Fanning
<1>15. ASSUME NEW p \in Post, EndBatch(p) PROVE QueueInv'
  <2>1. BatchIn(p)
    BY <1>15, BatchEnds
  <2>2. UNCHANGED <<approved, moved, admitted, visibility, federated, creates>>
    BY <2>1 DEF BatchIn
  <2>3. ASSUME NEW x \in Post, NEW i \in Inbox, Reached(i), visibility[x] # "direct"
        PROVE /\ make'[x] = "fan" => i \in todo'[x] \cup kept'[x] \/ creates[x][i] > 0
              /\ make'[x] = "extra" => creates[x][i] > 0
              /\ make'[x] = "done" /\ federated[x] => creates[x][i] > 0
              /\ make'[x] = "clifan" => (\E q \in todo'[x] : SharedInbox(q) = i)
                                       \/ i \in kept'[x] \/ creates[x][i] > 0
    <3>1. CASE x = p
      BY <2>1, <2>3, <3>1 DEF BatchIn
    <3>2. CASE x # p
      BY <2>1, <2>3, <3>2 DEF BatchIn
    <3>3. QED BY <3>1, <3>2
  <2>4. QED BY <2>2, <2>3, InboxesAreInboxes
<1>16. ASSUME NEW p \in Post, FailPost(p) PROVE QueueInv'
  BY <1>16 DEF FailPost
<1>17. ASSUME NEW r \in Deletion, NEW p \in Post, StartDelete(r, p) PROVE QueueInv'
  BY <1>17 DEF StartDelete
<1>18. ASSUME NEW r \in Deletion, DeleteReadsFollowers(r) PROVE QueueInv'
  BY <1>18 DEF DeleteReadsFollowers
<1>19. ASSUME NEW r \in Deletion, NEW i \in Inbox, DeleteFilter(r, i) PROVE
             QueueInv'
  BY <1>19 DEF DeleteFilter, DropFans
<1>20. ASSUME NEW r \in Deletion, NEW i \in Inbox, DeleteInsertsRow(r, i) PROVE
             QueueInv'
  BY <1>20 DEF DeleteInsertsRow, DropFans
<1>21. ASSUME NEW r \in Deletion, DeletePost(r) PROVE QueueInv'
  BY <1>21 DEF DeletePost, DropFans
<1>22. ASSUME NEW r \in Deletion, FailDelete(r) PROVE QueueInv'
  BY <1>22 DEF FailDelete
<1>23. ASSUME NEW p \in Post, NEW i \in Inbox, Build(p, i) PROVE QueueInv'
  BY <1>23 DEF Build
<1>24. ASSUME NEW p \in Post, NEW i \in Inbox, Arrive(p, i) PROVE QueueInv'
  BY <1>24 DEF Arrive
<1>25. CASE UNCHANGED vars
  BY <1>25 DEF vars
<1>30. ASSUME NEW p \in Post, NEW v \in Visibility, NEW to \in [Peer -> Nat],
              CliPosts(p, v, to) PROVE QueueInv'
  <2>1. /\ make[p] = "none" /\ make' = [make EXCEPT ![p] = "cli"]
        /\ visibility' = [visibility EXCEPT ![p] = v]
        /\ federated' = [federated EXCEPT ![p] = TRUE]
        /\ todo' = [todo EXCEPT ![p] = Named(to)]
        /\ UNCHANGED <<kept, creates, approved, moved, admitted>>
    BY <1>30 DEF CliPosts
  <2>2. QED BY <2>1
<1>31. ASSUME NEW p \in Post, CliReadsFollowers(p) PROVE QueueInv'
  BY <1>31 DEF CliReadsFollowers
<1>32. ASSUME NEW p \in Post, NEW q \in Peer, CliFilter(p, q) PROVE QueueInv'
  BY <1>32, InboxesAreInboxes DEF CliFilter, CliTarget
<1>33. ASSUME NEW p \in Post, NEW i \in Inbox, CliInsertsRow(p, i) PROVE QueueInv'
  <2>1. /\ make[p] = "clifan" /\ i \in kept[p]
        /\ kept' = [kept EXCEPT ![p] = @ \ {i}]
        /\ creates' = [creates EXCEPT ![p][i] = @ + 1]
        /\ UNCHANGED <<visibility, federated, make, todo, approved, moved, admitted>>
    BY <1>33 DEF CliInsertsRow
  <2>2. /\ \A x \in Post, k \in Inbox : creates[x][k] > 0 => creates'[x][k] > 0
        /\ creates'[p][i] > 0
    BY <2>1
  <2>3. \A x \in Post, k \in Inbox :
          k \in kept[x] => k \in kept'[x] \/ creates'[x][k] > 0
    BY <2>1, <2>2
  <2>4. FollowerInboxes' = FollowerInboxes
    BY <2>1 DEF FollowerInboxes
  <2>5. QED BY <2>1, <2>2, <2>3, <2>4
<1>34. ASSUME NEW p \in Post, CliEnds(p) PROVE QueueInv'
  <2>1. /\ make[p] = "clifan" /\ todo[p] = {} /\ kept[p] = {}
        /\ make' = [make EXCEPT ![p] = "done"]
        /\ UNCHANGED <<visibility, federated, todo, kept, creates, approved, moved,
                       admitted>>
    BY <1>34 DEF CliEnds
  <2>2. ASSUME NEW x \in Post, NEW i \in Inbox, Reached(i), visibility[x] # "direct"
        PROVE /\ make'[x] = "fan" => i \in todo[x] \cup kept[x] \/ creates[x][i] > 0
              /\ make'[x] = "extra" => creates[x][i] > 0
              /\ make'[x] = "done" /\ federated[x] => creates[x][i] > 0
              /\ make'[x] = "clifan" => (\E q \in todo[x] : SharedInbox(q) = i)
                                       \/ i \in kept[x] \/ creates[x][i] > 0
    <3>1. CASE x = p
      BY <2>1, <2>2, <3>1
    <3>2. CASE x # p
      BY <2>1, <2>2, <3>2
    <3>3. QED BY <3>1, <3>2
  <2>3. QED BY <2>1, <2>2, InboxesAreInboxes
<1>35. ASSUME NEW r \in Deletion, NEW p \in posts \cap cli, CliDeletes(r, p) PROVE QueueInv'
  BY <1>35, InboxesAreInboxes DEF CliDeletes
<1>36. ASSUME NEW r \in Deletion, NEW i \in Inbox, CliSkips(r, i) PROVE QueueInv'
  BY <1>36 DEF CliSkips
<1>37. ASSUME NEW p \in Post, PdsDeletes(p) PROVE QueueInv'
  BY <1>37 DEF PdsDeletes
<1>26. ASSUME NEW p \in Post, Create(p) PROVE QueueInv'
  BY <1>8, <1>9, <1>10, <1>11, <1>12, <1>13, <1>14, <1>15, <1>16, <1>26, <1>30, <1>31,
     <1>32, <1>33, <1>34, CreateSteps
<1>27. ASSUME NEW r \in Deletion, Delete(r) PROVE QueueInv'
  BY <1>17, <1>18, <1>19, <1>20, <1>21, <1>22, <1>27, <1>35, <1>36
  DEF Delete
<1>28. CASE EditList
  BY <1>3, <1>4, <1>5, <1>6, <1>7, <1>28 DEF EditList
<1>29. QED BY <1>1, <1>2, <1>23, <1>24, <1>25, <1>26, <1>27, <1>28, <1>37 DEF Next

\* A deleted post is not inserted again.
LEMMA GoneStep == PostsInv /\ [Next]_vars => GoneInv'
<1> USE PostsAssumption DEF TypeOK, GoneInv, Before, ask, rows, making, dropping,
        saving, world, copies, ended
<1> SUFFICES ASSUME TypeOK, GoneInv, [Next]_vars PROVE GoneInv'
  BY DEF PostsInv
<1>1. ASSUME NEW q \in Peer, ChangeFollower(q) PROVE GoneInv'
  BY <1>1 DEF ChangeFollower
<1>2. ASSUME NEW h \in Inbox, ChangeHost(h) PROVE GoneInv'
  BY <1>2 DEF ChangeHost
<1>3. CASE DeleteList
  BY <1>3 DEF DeleteList
<1>4. ASSUME NEW s \in Save, NEW new \in SUBSET Peer, SaveList(s, new) PROVE
             GoneInv'
  BY <1>4 DEF SaveList
<1>5. ASSUME NEW s \in Save, ClearMembers(s) PROVE GoneInv'
  BY <1>5 DEF ClearMembers
<1>6. ASSUME NEW s \in Save, EndSave(s) PROVE GoneInv'
  BY <1>6 DEF EndSave
<1>7. ASSUME NEW s \in Save, NEW q \in Peer, AddMember(s, q) PROVE GoneInv'
  BY <1>7 DEF AddMember
<1>8. ASSUME NEW p \in Post, Asks(p) PROVE GoneInv'
  <2>1. PICK v \in Visibility, f \in BOOLEAN, listed \in BOOLEAN,
            named \in SUBSET Peer, rt \in Inbox \cup {NoOne} :
            StartPost(p, v, f, rt, named, listed)
    BY <1>8, Zenon DEF Asks
  <2>2. QED BY <2>1 DEF StartPost
<1>9. ASSUME NEW p \in Post, ReadList(p) PROVE GoneInv'
  BY <1>9 DEF ReadList
<1>10. ASSUME NEW p \in Post, NEW q \in Peer, CheckRecipient(p, q) PROVE GoneInv'
  BY <1>10 DEF CheckRecipient
<1>11. ASSUME NEW p \in Post, InsertPost(p) PROVE GoneInv'
  <2>1. PostIn(p)
    BY <1>11, PostGoesIn
  <2>2. QED BY <2>1 DEF PostIn
<1>12. ASSUME NEW p \in Post, ReadFollowers(p) PROVE GoneInv'
  BY <1>12 DEF ReadFollowers
<1>13. ASSUME NEW p \in Post, NEW i \in Inbox, Filter(p, i) PROVE GoneInv'
  BY <1>13 DEF Filter, Fanning
<1>14. ASSUME NEW p \in Post, NEW i \in Inbox, InsertRow(p, i) PROVE GoneInv'
  BY <1>14 DEF InsertRow, Fanning
<1>15. ASSUME NEW p \in Post, EndBatch(p) PROVE GoneInv'
  <2>1. BatchIn(p)
    BY <1>15, BatchEnds
  <2>2. QED BY <2>1 DEF BatchIn
<1>16. ASSUME NEW p \in Post, FailPost(p) PROVE GoneInv'
  BY <1>16 DEF FailPost
<1>17. ASSUME NEW r \in Deletion, NEW p \in Post, StartDelete(r, p) PROVE GoneInv'
  BY <1>17 DEF StartDelete
<1>18. ASSUME NEW r \in Deletion, DeleteReadsFollowers(r) PROVE GoneInv'
  BY <1>18 DEF DeleteReadsFollowers
<1>19. ASSUME NEW r \in Deletion, NEW i \in Inbox, DeleteFilter(r, i) PROVE GoneInv'
  BY <1>19 DEF DeleteFilter, DropFans
<1>20. ASSUME NEW r \in Deletion, NEW i \in Inbox, DeleteInsertsRow(r, i) PROVE
             GoneInv'
  BY <1>20 DEF DeleteInsertsRow, DropFans
<1>21. ASSUME NEW r \in Deletion, DeletePost(r) PROVE GoneInv'
  BY <1>21 DEF DeletePost, DropFans
<1>22. ASSUME NEW r \in Deletion, FailDelete(r) PROVE GoneInv'
  BY <1>22 DEF FailDelete
<1>23. ASSUME NEW p \in Post, NEW i \in Inbox, Build(p, i) PROVE GoneInv'
  BY <1>23 DEF Build
<1>24. ASSUME NEW p \in Post, NEW i \in Inbox, Arrive(p, i) PROVE GoneInv'
  BY <1>24 DEF Arrive
<1>25. CASE UNCHANGED vars
  BY <1>25 DEF vars
<1>30. ASSUME NEW p \in Post, NEW v \in Visibility, NEW to \in [Peer -> Nat],
              CliPosts(p, v, to) PROVE GoneInv'
  BY <1>30 DEF CliPosts
<1>31. ASSUME NEW p \in Post, CliReadsFollowers(p) PROVE GoneInv'
  BY <1>31 DEF CliReadsFollowers
<1>32. ASSUME NEW p \in Post, NEW q \in Peer, CliFilter(p, q) PROVE GoneInv'
  BY <1>32, InboxesAreInboxes DEF CliFilter, CliTarget
<1>33. ASSUME NEW p \in Post, NEW i \in Inbox, CliInsertsRow(p, i) PROVE GoneInv'
  BY <1>33 DEF CliInsertsRow
<1>34. ASSUME NEW p \in Post, CliEnds(p) PROVE GoneInv'
  BY <1>34 DEF CliEnds
<1>35. ASSUME NEW r \in Deletion, NEW p \in posts \cap cli, CliDeletes(r, p) PROVE GoneInv'
  BY <1>35, InboxesAreInboxes DEF CliDeletes
<1>36. ASSUME NEW r \in Deletion, NEW i \in Inbox, CliSkips(r, i) PROVE GoneInv'
  BY <1>36 DEF CliSkips
<1>37. ASSUME NEW p \in Post, PdsDeletes(p) PROVE GoneInv'
  BY <1>37 DEF PdsDeletes
<1>26. ASSUME NEW p \in Post, Create(p) PROVE GoneInv'
  BY <1>8, <1>9, <1>10, <1>11, <1>12, <1>13, <1>14, <1>15, <1>16, <1>26, <1>30, <1>31,
     <1>32, <1>33, <1>34, CreateSteps
<1>27. ASSUME NEW r \in Deletion, Delete(r) PROVE GoneInv'
  BY <1>17, <1>18, <1>19, <1>20, <1>21, <1>22, <1>27, <1>35, <1>36
  DEF Delete
<1>28. CASE EditList
  BY <1>3, <1>4, <1>5, <1>6, <1>7, <1>28 DEF EditList
<1>29. QED BY <1>1, <1>2, <1>23, <1>24, <1>25, <1>26, <1>27, <1>28, <1>37 DEF Next

\* A deletion has inserted its rows before the post goes.
LEMMA ToldStep == PostsInv /\ [Next]_vars => ToldInv'
<1> USE PostsAssumption DEF TypeOK, GoneInv, ToldInv, Told, Reached, Before,
        FollowerInboxes, ask, rows, making, dropping, saving, world, copies, ended
<1> SUFFICES ASSUME TypeOK, GoneInv, ToldInv, [Next]_vars PROVE ToldInv'
  BY DEF PostsInv
<1>1. ASSUME NEW q \in Peer, ChangeFollower(q) PROVE ToldInv'
  BY <1>1 DEF ChangeFollower
<1>2. ASSUME NEW h \in Inbox, ChangeHost(h) PROVE ToldInv'
  BY <1>2 DEF ChangeHost
<1>3. CASE DeleteList
  BY <1>3 DEF DeleteList
<1>4. ASSUME NEW s \in Save, NEW new \in SUBSET Peer, SaveList(s, new) PROVE
             ToldInv'
  BY <1>4 DEF SaveList
<1>5. ASSUME NEW s \in Save, ClearMembers(s) PROVE ToldInv'
  BY <1>5 DEF ClearMembers
<1>6. ASSUME NEW s \in Save, EndSave(s) PROVE ToldInv'
  BY <1>6 DEF EndSave
<1>7. ASSUME NEW s \in Save, NEW q \in Peer, AddMember(s, q) PROVE ToldInv'
  BY <1>7 DEF AddMember
<1>8. ASSUME NEW p \in Post, Asks(p) PROVE ToldInv'
  <2>1. PICK v \in Visibility, f \in BOOLEAN, listed \in BOOLEAN,
            named \in SUBSET Peer, rt \in Inbox \cup {NoOne} :
            StartPost(p, v, f, rt, named, listed)
    BY <1>8, Zenon DEF Asks
  <2>2. QED BY <2>1 DEF StartPost
<1>9. ASSUME NEW p \in Post, ReadList(p) PROVE ToldInv'
  BY <1>9 DEF ReadList
<1>10. ASSUME NEW p \in Post, NEW q \in Peer, CheckRecipient(p, q) PROVE ToldInv'
  BY <1>10 DEF CheckRecipient
<1>11. ASSUME NEW p \in Post, InsertPost(p) PROVE ToldInv'
  <2>1. PostIn(p)
    BY <1>11, PostGoesIn
  <2>2. QED BY <2>1 DEF PostIn
<1>12. ASSUME NEW p \in Post, ReadFollowers(p) PROVE ToldInv'
  BY <1>12 DEF ReadFollowers
<1>13. ASSUME NEW p \in Post, NEW i \in Inbox, Filter(p, i) PROVE ToldInv'
  BY <1>13 DEF Filter, Fanning
<1>14. ASSUME NEW p \in Post, NEW i \in Inbox, InsertRow(p, i) PROVE ToldInv'
  BY <1>14 DEF InsertRow, Fanning
<1>15. ASSUME NEW p \in Post, EndBatch(p) PROVE ToldInv'
  <2>1. BatchIn(p)
    BY <1>15, BatchEnds
  <2>2. QED BY <2>1 DEF BatchIn
<1>16. ASSUME NEW p \in Post, FailPost(p) PROVE ToldInv'
  BY <1>16 DEF FailPost
<1>17. ASSUME NEW r \in Deletion, NEW p \in Post, StartDelete(r, p) PROVE ToldInv'
  BY <1>17 DEF StartDelete
<1>18. ASSUME NEW r \in Deletion, DeleteReadsFollowers(r) PROVE ToldInv'
  BY <1>18 DEF DeleteReadsFollowers
<1>19. ASSUME NEW r \in Deletion, NEW i \in Inbox, DeleteFilter(r, i) PROVE ToldInv'
  BY <1>19 DEF DeleteFilter, DropFans
<1>20. ASSUME NEW r \in Deletion, NEW i \in Inbox, DeleteInsertsRow(r, i) PROVE
             ToldInv'
  BY <1>20 DEF DeleteInsertsRow, DropFans
<1>21. ASSUME NEW r \in Deletion, DeletePost(r) PROVE ToldInv'
  BY <1>21, ZenonT(60) DEF DeletePost, DropFans
<1>22. ASSUME NEW r \in Deletion, FailDelete(r) PROVE ToldInv'
  BY <1>22 DEF FailDelete
<1>23. ASSUME NEW p \in Post, NEW i \in Inbox, Build(p, i) PROVE ToldInv'
  BY <1>23 DEF Build
<1>24. ASSUME NEW p \in Post, NEW i \in Inbox, Arrive(p, i) PROVE ToldInv'
  BY <1>24 DEF Arrive
<1>25. CASE UNCHANGED vars
  BY <1>25 DEF vars
<1>30. ASSUME NEW p \in Post, NEW v \in Visibility, NEW to \in [Peer -> Nat],
              CliPosts(p, v, to) PROVE ToldInv'
  BY <1>30 DEF CliPosts
<1>31. ASSUME NEW p \in Post, CliReadsFollowers(p) PROVE ToldInv'
  BY <1>31 DEF CliReadsFollowers
<1>32. ASSUME NEW p \in Post, NEW q \in Peer, CliFilter(p, q) PROVE ToldInv'
  BY <1>32, InboxesAreInboxes DEF CliFilter, CliTarget
<1>33. ASSUME NEW p \in Post, NEW i \in Inbox, CliInsertsRow(p, i) PROVE ToldInv'
  BY <1>33 DEF CliInsertsRow
<1>34. ASSUME NEW p \in Post, CliEnds(p) PROVE ToldInv'
  BY <1>34 DEF CliEnds
<1>35. ASSUME NEW r \in Deletion, NEW p \in posts \cap cli, CliDeletes(r, p) PROVE ToldInv'
  BY <1>35, InboxesAreInboxes DEF CliDeletes
<1>36. ASSUME NEW r \in Deletion, NEW i \in Inbox, CliSkips(r, i) PROVE ToldInv'
  BY <1>36 DEF CliSkips
<1>37. ASSUME NEW p \in Post, PdsDeletes(p) PROVE ToldInv'
  BY <1>37 DEF PdsDeletes
<1>26. ASSUME NEW p \in Post, Create(p) PROVE ToldInv'
  BY <1>8, <1>9, <1>10, <1>11, <1>12, <1>13, <1>14, <1>15, <1>16, <1>26, <1>30, <1>31,
     <1>32, <1>33, <1>34, CreateSteps
<1>27. ASSUME NEW r \in Deletion, Delete(r) PROVE ToldInv'
  BY <1>17, <1>18, <1>19, <1>20, <1>21, <1>22, <1>27, <1>35, <1>36
  DEF Delete
<1>28. CASE EditList
  BY <1>3, <1>4, <1>5, <1>6, <1>7, <1>28 DEF EditList
<1>29. QED BY <1>1, <1>2, <1>23, <1>24, <1>25, <1>26, <1>27, <1>28, <1>37 DEF Next

\* A row stays once it is there, and a host that is left out has changed.
LEMMA SentStep == PostsInv /\ [Next]_vars => SentInv'
<1> USE PostsAssumption DEF TypeOK, SentInv, ask, rows, making, dropping, saving,
        world, copies, ended
<1> SUFFICES ASSUME TypeOK, SentInv, [Next]_vars PROVE SentInv'
  BY DEF PostsInv
<1>1. ASSUME NEW q \in Peer, ChangeFollower(q) PROVE SentInv'
  BY <1>1 DEF ChangeFollower
<1>2. ASSUME NEW h \in Inbox, ChangeHost(h) PROVE SentInv'
  BY <1>2 DEF ChangeHost
<1>3. CASE DeleteList
  BY <1>3 DEF DeleteList
<1>4. ASSUME NEW s \in Save, NEW new \in SUBSET Peer, SaveList(s, new) PROVE
             SentInv'
  BY <1>4 DEF SaveList
<1>5. ASSUME NEW s \in Save, ClearMembers(s) PROVE SentInv'
  BY <1>5 DEF ClearMembers
<1>6. ASSUME NEW s \in Save, EndSave(s) PROVE SentInv'
  BY <1>6 DEF EndSave
<1>7. ASSUME NEW s \in Save, NEW q \in Peer, AddMember(s, q) PROVE SentInv'
  BY <1>7 DEF AddMember
<1>8. ASSUME NEW p \in Post, Asks(p) PROVE SentInv'
  <2>1. PICK v \in Visibility, f \in BOOLEAN, listed \in BOOLEAN,
            named \in SUBSET Peer, rt \in Inbox \cup {NoOne} :
            StartPost(p, v, f, rt, named, listed)
    BY <1>8, Zenon DEF Asks
  <2>2. QED BY <2>1 DEF StartPost
<1>9. ASSUME NEW p \in Post, ReadList(p) PROVE SentInv'
  BY <1>9 DEF ReadList
<1>10. ASSUME NEW p \in Post, NEW q \in Peer, CheckRecipient(p, q) PROVE SentInv'
  BY <1>10 DEF CheckRecipient
<1>11. ASSUME NEW p \in Post, InsertPost(p) PROVE SentInv'
  <2>1. PostIn(p)
    BY <1>11, PostGoesIn
  <2>2. QED BY <2>1 DEF PostIn
<1>12. ASSUME NEW p \in Post, ReadFollowers(p) PROVE SentInv'
  BY <1>12 DEF ReadFollowers
<1>13. ASSUME NEW p \in Post, NEW i \in Inbox, Filter(p, i) PROVE SentInv'
  BY <1>13 DEF Filter, Fanning
<1>14. ASSUME NEW p \in Post, NEW i \in Inbox, InsertRow(p, i) PROVE SentInv'
  BY <1>14 DEF InsertRow, Fanning
<1>15. ASSUME NEW p \in Post, EndBatch(p) PROVE SentInv'
  <2>1. BatchIn(p)
    BY <1>15, BatchEnds
  <2>2. QED BY <2>1 DEF BatchIn
<1>16. ASSUME NEW p \in Post, FailPost(p) PROVE SentInv'
  BY <1>16 DEF FailPost
<1>17. ASSUME NEW r \in Deletion, NEW p \in Post, StartDelete(r, p) PROVE SentInv'
  BY <1>17 DEF StartDelete
<1>18. ASSUME NEW r \in Deletion, DeleteReadsFollowers(r) PROVE SentInv'
  BY <1>18 DEF DeleteReadsFollowers
<1>19. ASSUME NEW r \in Deletion, NEW i \in Inbox, DeleteFilter(r, i) PROVE SentInv'
  BY <1>19 DEF DeleteFilter, DropFans
<1>20. ASSUME NEW r \in Deletion, NEW i \in Inbox, DeleteInsertsRow(r, i) PROVE
             SentInv'
  BY <1>20 DEF DeleteInsertsRow, DropFans
<1>21. ASSUME NEW r \in Deletion, DeletePost(r) PROVE SentInv'
  BY <1>21 DEF DeletePost, DropFans
<1>22. ASSUME NEW r \in Deletion, FailDelete(r) PROVE SentInv'
  BY <1>22 DEF FailDelete
<1>23. ASSUME NEW p \in Post, NEW i \in Inbox, Build(p, i) PROVE SentInv'
  BY <1>23 DEF Build
<1>24. ASSUME NEW p \in Post, NEW i \in Inbox, Arrive(p, i) PROVE SentInv'
  BY <1>24 DEF Arrive
<1>25. CASE UNCHANGED vars
  BY <1>25 DEF vars
<1>30. ASSUME NEW p \in Post, NEW v \in Visibility, NEW to \in [Peer -> Nat],
              CliPosts(p, v, to) PROVE SentInv'
  BY <1>30 DEF CliPosts
<1>31. ASSUME NEW p \in Post, CliReadsFollowers(p) PROVE SentInv'
  BY <1>31 DEF CliReadsFollowers
<1>32. ASSUME NEW p \in Post, NEW q \in Peer, CliFilter(p, q) PROVE SentInv'
  BY <1>32, InboxesAreInboxes DEF CliFilter, CliTarget
<1>33. ASSUME NEW p \in Post, NEW i \in Inbox, CliInsertsRow(p, i) PROVE SentInv'
  BY <1>33 DEF CliInsertsRow
<1>34. ASSUME NEW p \in Post, CliEnds(p) PROVE SentInv'
  BY <1>34 DEF CliEnds
<1>35. ASSUME NEW r \in Deletion, NEW p \in posts \cap cli, CliDeletes(r, p) PROVE SentInv'
  BY <1>35, InboxesAreInboxes DEF CliDeletes
<1>36. ASSUME NEW r \in Deletion, NEW i \in Inbox, CliSkips(r, i) PROVE SentInv'
  BY <1>36 DEF CliSkips
<1>37. ASSUME NEW p \in Post, PdsDeletes(p) PROVE SentInv'
  BY <1>37 DEF PdsDeletes
<1>26. ASSUME NEW p \in Post, Create(p) PROVE SentInv'
  BY <1>8, <1>9, <1>10, <1>11, <1>12, <1>13, <1>14, <1>15, <1>16, <1>26, <1>30, <1>31,
     <1>32, <1>33, <1>34, CreateSteps
<1>27. ASSUME NEW r \in Deletion, Delete(r) PROVE SentInv'
  BY <1>17, <1>18, <1>19, <1>20, <1>21, <1>22, <1>27, <1>35, <1>36
  DEF Delete
<1>28. CASE EditList
  BY <1>3, <1>4, <1>5, <1>6, <1>7, <1>28 DEF EditList
<1>29. QED BY <1>1, <1>2, <1>23, <1>24, <1>25, <1>26, <1>27, <1>28, <1>37 DEF Next

\* So the invariant of the posts always holds.
LEMMA PostsSpecInv == Spec => []PostsInv
<1>1. PostsInv /\ [Next]_vars => PostsInv'
  BY TypeStep, StageStep, FanStep, ListedStep, ListStep, MeantStep, QueueStep, GoneStep, ToldStep,
     SentStep
  DEF PostsInv
<1>2. QED BY <1>1, PostsInit, PTL DEF Spec

-----------------------------------------------------------------------------

\* Every row, request and list keeps its type.
THEOREM PostsTypeCorrect == Spec => []TypeOK
<1>1. PostsInv => TypeOK
  BY DEF PostsInv
<1>2. QED BY <1>1, PostsSpecInv, PTL

\* No inbox gets a Create twice but the one that is replied to.
THEOREM NoTwinRows == Spec => []NoTwins
<1>1. PostsInv => NoTwins
  BY DEF PostsInv, FanInv
<1>2. QED BY <1>1, PostsSpecInv, PTL

\* Direct posts go to whom they are meant for, though the members of a list are
\* replaced one by one by saves that overlap.
THEOREM DirectGoesToTheMeant == Spec => []DirectIsMeant
<1>1. PostsInv => DirectIsMeant
  BY DEF PostsInv, MeantInv
<1>2. QED BY <1>1, PostsSpecInv, PTL

\* A request that has gone through has reached every follower it could.
THEOREM FollowersAreReached == Spec => []FollowersAreQueued
<1>1. PostsInv => FollowersAreQueued
  BY DEF PostsInv, QueueInv
<1>2. QED BY <1>1, PostsSpecInv, PTL

\* Whoever took a post and still follows has been sent the Delete of it.
THEOREM DeletesReachHolders == Spec => []HoldersAreTold
<1>1. PostsInv => HoldersAreTold
  <2> SUFFICES ASSUME PostsInv, NEW p \in gone \ pulled, visibility[p] # "direct",
                      NEW i \in held[p] \cap FollowerInboxes, i \notin moved
               PROVE  i \in deletes[p]
    BY DEF HoldersAreTold
  <2>1. TypeOK /\ p \in Post /\ i \in Inbox
    BY InboxesAreInboxes DEF PostsInv, TypeOK
  <2>2. creates[p][i] > 0 /\ Host(i) \in admitted
    BY <2>1 DEF PostsInv, SentInv
  <2>3. federated[p]
    BY <2>1, <2>2 DEF PostsInv, StageInv
  <2>4. QED BY <2>1, <2>2, <2>3 DEF PostsInv, ToldInv, Told, Reached
<1>2. QED BY <1>1, PostsSpecInv, PTL

\* No copy of a post starts on its way after the post is gone.
THEOREM GoneForGood == Spec => GoneStaysGone
<1>1. PostsInv /\ [Next]_vars =>
        \A p \in gone, i \in Inbox :
          i \notin held[p] /\ <<p, i>> \notin sending
            => i \notin held'[p] /\ <<p, i>> \notin sending'
  <2> SUFFICES ASSUME PostsInv, [Next]_vars, NEW p \in gone, NEW i \in Inbox,
                      i \notin held[p], <<p, i>> \notin sending
               PROVE  i \notin held'[p] /\ <<p, i>> \notin sending'
    OBVIOUS
  <2>1. p \in Post /\ p \notin posts /\ TypeOK
    BY DEF PostsInv, GoneInv, TypeOK
  <2>2. ASSUME NEW x \in Post, NEW k \in Inbox, Build(x, k) \/ Arrive(x, k)
        PROVE i \notin held'[p] /\ <<p, i>> \notin sending'
    <3>1. CASE Build(x, k)
      BY <2>1, <3>1 DEF Build
    <3>2. CASE Arrive(x, k)
      <4>1. held' = held \/ held' = [held EXCEPT ![x] = @ \cup {k}]
        BY <3>2 DEF Arrive
      <4>2. <<x, k>> \in sending /\ sending' = sending \ {<<x, k>>}
        BY <3>2 DEF Arrive
      <4>3. x = p => k # i
        BY <2>1, <4>2
      <4>7. held \in [Post -> SUBSET Inbox]
        BY <2>1 DEF TypeOK
      <4>4. i \notin held'[p]
        BY <2>1, <4>1, <4>3, <4>7
      <4>5. <<p, i>> \notin sending'
        BY <4>2
      <4>6. QED BY <4>4, <4>5
    <3>3. QED BY <2>2, <3>1, <3>2
  <2>3. CASE UNCHANGED copies
    BY <2>3 DEF copies
  <2>4. ASSUME NEW x \in Post, Create(x) PROVE UNCHANGED copies
    BY <2>4 DEF Create, StartPost, ReadList, InsertPost, ReadFollowers, EndBatch,
                FailPost, CheckRecipient, Filter, InsertRow, CliPosts,
                CliReadsFollowers, CliFilter, CliInsertsRow, CliEnds
  <2>5. ASSUME NEW r \in Deletion, Delete(r) PROVE UNCHANGED copies
    BY <2>5 DEF Delete, StartDelete, DeleteReadsFollowers, DeletePost, FailDelete,
                DeleteFilter, DeleteInsertsRow, CliDeletes, CliSkips
  <2>6. ASSUME EditList PROVE UNCHANGED copies
    BY <2>6 DEF EditList, DeleteList, SaveList, ClearMembers, EndSave, AddMember
  <2>7. ASSUME NEW q \in Peer, ChangeFollower(q) PROVE UNCHANGED copies
    BY <2>7 DEF ChangeFollower
  <2>8. ASSUME NEW h \in Inbox, ChangeHost(h) PROVE UNCHANGED copies
    BY <2>8 DEF ChangeHost
  <2>9. CASE UNCHANGED vars
    BY <2>3, <2>9 DEF vars
  <2>11. ASSUME NEW x \in Post, PdsDeletes(x) PROVE UNCHANGED copies
    BY <2>11 DEF PdsDeletes
  <2>10. QED BY <2>2, <2>3, <2>4, <2>5, <2>6, <2>7, <2>8, <2>9, <2>11 DEF Next
<1>2. QED BY <1>1, PostsSpecInv, PTL DEF Spec, GoneStaysGone

=============================================================================
