-------------------------- MODULE ModerationProofs --------------------------
(***************************************************************************)
(* What is proved of the inbox together with the owner's moderation, for   *)
(* any number of notes, inbox requests and moderation requests, and any    *)
(* set of policies.                                                        *)
(*                                                                         *)
(* The steps of Inbound come first: they keep InboundInv by themselves.    *)
(***************************************************************************)
EXTENDS Moderation, FiniteSets, FiniteSetTheorems, TLAPS

\* Only a reply is on its way to `replies`, only a mark to `interactions`.
Kinds ==
  /\ \A h \in Handler :
       /\ stage[h] \in {"post", "judge", "reply"} => kind[at[h]] = "reply"
       /\ stage[h] \in {"mark", "undo"} => kind[at[h]] = "mark"
       /\ stage[h] \in {"fetch", "check", "follows", "store", "update", "delete"}
            => kind[at[h]] # "mark"
  /\ \A n \in marks : kind[n] = "mark"

\* What each implementation's requests come by, and that a verdict is reached
\* by the core's only.
Paths ==
  \A h \in Handler :
    /\ stage[h] \in {"check", "judge", "mark"} => inbox = "core"
    /\ stage[h] \in {"fetch", "post"} => inbox = "router"
    /\ hides[h] => inbox = "core" /\ stage[h] \in {"idle", "reply"}

\* A request that will notify has stored its row.
NoticeInv ==
  /\ \A h \in Handler : stage[h] = "notify" => at[h] \in had
  /\ NoticeMeansRow

\* A request of the core that will notify of a reply was let pass, and so was
\* every reply of which the owner was notified.
PassInv ==
  /\ \A n \in concealed : kind[n] = "reply" /\ inbox = "core"
  /\ \A h \in Handler :
       inbox = "core" /\ kind[at[h]] = "reply" /\ ~hides[h]
         /\ stage[h] \in {"reply", "notify"} => at[h] \in wavering
  /\ \A n \in Note :
       inbox = "core" /\ kind[n] = "reply" /\ notices[n] > 0 => n \in wavering

\* What might still bring back a withdrawn note has been noticed.
AwayInv ==
  /\ \A h \in Handler :
       stage[h] \in Bringing /\ at[h] \in withdrawn => at[h] \in crossed
  /\ marks # {} => inbox = "core"
  /\ WithdrawnStaysAway

\* Every request that may still notify of a note has a copy of it to itself.
Owes == {"fetch", "check", "post", "judge", "reply", "mark", "notify"}
Owing(n) == {h \in Handler : at[h] = n /\ stage[h] \in Owes}
CountInv ==
  /\ \A n \in Note :
       IsFiniteSet(Owing(n)) /\ notices[n] + Cardinality(Owing(n)) <= copies[n]
  /\ inbox = "router" => \A n \in Note : notices[n] <= 1

InboundInv == TypeOK /\ Kinds /\ Paths /\ NoticeInv /\ PassInv /\ AwayInv /\ CountInv

-----------------------------------------------------------------------------

\* The initial states satisfy the invariant.
LEMMA InboundInit == Init => InboundInv
<1> USE InboundAssumption
<1> SUFFICES ASSUME Init PROVE InboundInv
  OBVIOUS
<1>0. AnyNote \in Note
  BY DEF AnyNote
<1>1. TypeOK
  <2>1. inbox \in {"router", "core"} /\ kind \in [Note -> {"plain", "reply", "mark"}]
    BY DEF Init
  <2>2. post \in BOOLEAN /\ followed \in BOOLEAN /\ barred \in BOOLEAN
    BY DEF Init
  <2>3. /\ timeline \in [Note -> Row] /\ marks \subseteq Note
        /\ replies \in [Note -> {"none"} \cup Status] /\ checked \subseteq Note
        /\ \A n \in Note : replies[n] = "none" /\ timeline[n] = "none"
    BY DEF Init, Row, Status
  <2>4. /\ notices \in [Note -> Nat] /\ copies \in [Note -> Nat]
        /\ hides \in [Handler -> BOOLEAN]
    BY DEF Init
  <2>5. stage \in [Handler -> Stage] /\ at \in [Handler -> Note]
    BY <1>0 DEF Init, Stage
  <2>6. /\ had \subseteq Note /\ concealed \subseteq Note /\ wavering \subseteq Note
        /\ withdrawn \subseteq Note /\ crossed \subseteq Note
        /\ taken \in Nat /\ changes \in Nat
    BY DEF Init
  <2>7. QED BY <2>1, <2>2, <2>3, <2>4, <2>5, <2>6 DEF TypeOK
<1>2. Kinds /\ Paths
  BY DEF Init, Kinds, Paths
<1>3. NoticeInv /\ PassInv /\ AwayInv
  BY DEF Init, NoticeInv, NoticeMeansRow, PassInv, AwayInv, WithdrawnStaysAway
<1>4. CountInv
  <2>1. \A n \in Note : Owing(n) = {}
    BY DEF Init, Owing, Owes
  <2>2. QED BY <2>1, FS_EmptySet DEF Init, CountInv
<1>5. QED BY <1>1, <1>2, <1>3, <1>4 DEF InboundInv

\* The state stays typed, one step per action.
LEMMA TypeStep == InboundInv /\ [Next]_vars => TypeOK'
<1> USE InboundAssumption
    DEF TypeOK, Row, Status, Stage, tables, requests, world, history
<1> SUFFICES ASSUME TypeOK, Kinds, [Next]_vars PROVE TypeOK'
  BY DEF InboundInv
<1>1. CASE DeletePost
  <2>1. post' = FALSE /\ replies' = [n \in Note |-> "none"]
    BY <1>1 DEF DeletePost
  <2>2. QED BY <1>1, <2>1 DEF DeletePost
<1>2. CASE ChangeFollow BY <1>2 DEF ChangeFollow
<1>3. CASE ChangeBar BY <1>3 DEF ChangeBar
<1>4. ASSUME NEW h \in Handler, NEW n \in Note, TakeNote(h, n) PROVE TypeOK'
  BY <1>4 DEF TakeNote, Take
<1>5. ASSUME NEW h \in Handler, NEW n \in Note, TakeUpdate(h, n) PROVE TypeOK'
  BY <1>5 DEF TakeUpdate, Take
<1>6. ASSUME NEW h \in Handler, NEW n \in Note, TakeWithdrawal(h, n) PROVE TypeOK'
  <2>1. PICK s \in {"undo", "delete"} : Take(h, n, s)
    BY <1>6 DEF TakeWithdrawal
  <2>2. UNCHANGED <<copies, crossed>>
    BY <1>6 DEF TakeWithdrawal
  <2>3. QED BY <2>1, <2>2 DEF Take
<1>7. ASSUME NEW h \in Handler, StoreTimeline(h) PROVE TypeOK'
  <2>1. /\ timeline' \in [Note -> Row]
        /\ \A n \in Note : timeline'[n] # "none" => kind[n] # "mark"
    BY <1>7 DEF StoreTimeline, Step, Kinds
  <2>2. stage' \in [Handler -> Stage]
    BY <1>7 DEF StoreTimeline, Step
  <2>3. QED BY <1>7, <2>1, <2>2 DEF StoreTimeline, Same
<1>8. ASSUME NEW h \in Handler, FindPost(h) PROVE TypeOK'
  BY <1>8 DEF FindPost, Step, Same
<1>9. ASSUME NEW h \in Handler, CheckReply(h) PROVE TypeOK'
  BY <1>9 DEF CheckReply, Step, Same
<1>10. ASSUME NEW h \in Handler, NEW verdict \in BOOLEAN, Judge(h, verdict)
       PROVE TypeOK'
  BY <1>10 DEF Judge, Step, Same
<1>11. ASSUME NEW h \in Handler, StoreReply(h) PROVE TypeOK'
  <2>1. /\ replies' \in [Note -> {"none"} \cup Status]
        /\ \A n \in Note : replies'[n] # "none" => post /\ kind[n] = "reply"
    BY <1>11 DEF StoreReply, Insert, Step, Kinds
  <2>2. checked' \subseteq Note /\ concealed' \subseteq Note
    BY <1>11 DEF StoreReply, Insert
  <2>3. QED BY <1>11, <2>1, <2>2 DEF StoreReply, Step, Same
<1>12. ASSUME NEW h \in Handler, StoreMark(h) PROVE TypeOK'
  BY <1>12 DEF StoreMark, Step, Same
<1>13. ASSUME NEW h \in Handler, Notify(h) PROVE TypeOK'
  <2>1. notices' \in [Note -> Nat]
    BY <1>13 DEF Notify
  <2>2. QED BY <1>13, <2>1 DEF Notify, Step, Same
<1>14. ASSUME NEW h \in Handler, CheckFollow(h) PROVE TypeOK'
  BY <1>14 DEF CheckFollow, Step, Same
<1>15. ASSUME NEW h \in Handler, Ingest(h) PROVE TypeOK'
  BY <1>15 DEF Ingest, Step, Same, Kinds
<1>16. ASSUME NEW h \in Handler, Update(h) PROVE TypeOK'
  BY <1>16 DEF Update, Step, Same, Kinds
<1>17. ASSUME NEW h \in Handler, Delete(h) PROVE TypeOK'
  BY <1>17 DEF Delete, Withdraw, Step, Same, Kinds
<1>18. ASSUME NEW h \in Handler, Undo(h) PROVE TypeOK'
  BY <1>18 DEF Undo, Withdraw, Step, Same
<1>19. ASSUME NEW h \in Handler, Fail(h) PROVE TypeOK'
  BY <1>19 DEF Fail, Step, Same
<1>20. CASE UNCHANGED vars
  BY <1>20 DEF vars
<1>21. QED
  BY <1>1, <1>2, <1>3, <1>4, <1>5, <1>6, <1>7, <1>8, <1>9, <1>10, <1>11, <1>12,
     <1>13, <1>14, <1>15, <1>16, <1>17, <1>18, <1>19, <1>20 DEF Next
\* What a request is about fits the statement it stands at.
LEMMA KindsStep == InboundInv /\ [Next]_vars => Kinds'
<1> USE DEF TypeOK, Kinds, tables, requests, world, history
<1> SUFFICES ASSUME TypeOK, Kinds, [Next]_vars PROVE Kinds'
  BY DEF InboundInv
<1>1. CASE DeletePost BY <1>1 DEF DeletePost
<1>2. CASE ChangeFollow BY <1>2 DEF ChangeFollow
<1>3. CASE ChangeBar BY <1>3 DEF ChangeBar
<1>4. ASSUME NEW h \in Handler, NEW n \in Note, TakeNote(h, n) PROVE Kinds'
  BY <1>4 DEF TakeNote, Take
<1>5. ASSUME NEW h \in Handler, NEW n \in Note, TakeUpdate(h, n) PROVE Kinds'
  BY <1>5 DEF TakeUpdate, Take
<1>6. ASSUME NEW h \in Handler, NEW n \in Note, TakeWithdrawal(h, n) PROVE Kinds'
  BY <1>6 DEF TakeWithdrawal, Take
<1>7. ASSUME NEW h \in Handler, StoreTimeline(h) PROVE Kinds'
  BY <1>7 DEF StoreTimeline, Step, Same
<1>8. ASSUME NEW h \in Handler, FindPost(h) PROVE Kinds'
  BY <1>8 DEF FindPost, Step, Same
<1>9. ASSUME NEW h \in Handler, CheckReply(h) PROVE Kinds'
  BY <1>9 DEF CheckReply, Step, Same
<1>10. ASSUME NEW h \in Handler, NEW verdict \in BOOLEAN, Judge(h, verdict)
       PROVE Kinds'
  BY <1>10 DEF Judge, Step, Same
<1>11. ASSUME NEW h \in Handler, StoreReply(h) PROVE Kinds'
  BY <1>11 DEF StoreReply, Insert, Step, Same
<1>12. ASSUME NEW h \in Handler, StoreMark(h) PROVE Kinds'
  BY <1>12 DEF StoreMark, Step, Same
<1>13. ASSUME NEW h \in Handler, Notify(h) PROVE Kinds'
  BY <1>13 DEF Notify, Step, Same
<1>14. ASSUME NEW h \in Handler, CheckFollow(h) PROVE Kinds'
  BY <1>14 DEF CheckFollow, Step, Same
<1>15. ASSUME NEW h \in Handler, Ingest(h) PROVE Kinds'
  BY <1>15 DEF Ingest, Step, Same
<1>16. ASSUME NEW h \in Handler, Update(h) PROVE Kinds'
  BY <1>16 DEF Update, Step, Same
<1>17. ASSUME NEW h \in Handler, Delete(h) PROVE Kinds'
  BY <1>17 DEF Delete, Withdraw, Step, Same
<1>18. ASSUME NEW h \in Handler, Undo(h) PROVE Kinds'
  BY <1>18 DEF Undo, Withdraw, Step, Same
<1>19. ASSUME NEW h \in Handler, Fail(h) PROVE Kinds'
  BY <1>19 DEF Fail, Step, Same
<1>20. CASE UNCHANGED vars BY <1>20 DEF vars
<1>21. QED
  BY <1>1, <1>2, <1>3, <1>4, <1>5, <1>6, <1>7, <1>8, <1>9, <1>10, <1>11, <1>12,
     <1>13, <1>14, <1>15, <1>16, <1>17, <1>18, <1>19, <1>20 DEF Next

\* Only the core judges, and looks at what it judged at the next statement.
LEMMA PathsStep == InboundInv /\ [Next]_vars => Paths'
<1> USE DEF TypeOK, Paths, tables, requests, world, history
<1> SUFFICES ASSUME TypeOK, Paths, [Next]_vars PROVE Paths'
  BY DEF InboundInv
<1>1. CASE DeletePost BY <1>1 DEF DeletePost
<1>2. CASE ChangeFollow BY <1>2 DEF ChangeFollow
<1>3. CASE ChangeBar BY <1>3 DEF ChangeBar
<1>4. ASSUME NEW h \in Handler, NEW n \in Note, TakeNote(h, n) PROVE Paths'
  BY <1>4 DEF TakeNote, Take
<1>5. ASSUME NEW h \in Handler, NEW n \in Note, TakeUpdate(h, n) PROVE Paths'
  BY <1>5 DEF TakeUpdate, Take
<1>6. ASSUME NEW h \in Handler, NEW n \in Note, TakeWithdrawal(h, n) PROVE Paths'
  BY <1>6 DEF TakeWithdrawal, Take
<1>7. ASSUME NEW h \in Handler, StoreTimeline(h) PROVE Paths'
  BY <1>7 DEF StoreTimeline, Step, Same
<1>8. ASSUME NEW h \in Handler, FindPost(h) PROVE Paths'
  BY <1>8 DEF FindPost, Step, Same
<1>9. ASSUME NEW h \in Handler, CheckReply(h) PROVE Paths'
  BY <1>9 DEF CheckReply, Step, Same
<1>10. ASSUME NEW h \in Handler, NEW verdict \in BOOLEAN, Judge(h, verdict)
       PROVE Paths'
  BY <1>10 DEF Judge, Step, Same
<1>11. ASSUME NEW h \in Handler, StoreReply(h) PROVE Paths'
  BY <1>11 DEF StoreReply, Insert, Step, Same
<1>12. ASSUME NEW h \in Handler, StoreMark(h) PROVE Paths'
  BY <1>12 DEF StoreMark, Step, Same
<1>13. ASSUME NEW h \in Handler, Notify(h) PROVE Paths'
  BY <1>13 DEF Notify, Step, Same
<1>14. ASSUME NEW h \in Handler, CheckFollow(h) PROVE Paths'
  BY <1>14 DEF CheckFollow, Step, Same
<1>15. ASSUME NEW h \in Handler, Ingest(h) PROVE Paths'
  BY <1>15 DEF Ingest, Step, Same
<1>16. ASSUME NEW h \in Handler, Update(h) PROVE Paths'
  BY <1>16 DEF Update, Step, Same
<1>17. ASSUME NEW h \in Handler, Delete(h) PROVE Paths'
  BY <1>17 DEF Delete, Withdraw, Step, Same
<1>18. ASSUME NEW h \in Handler, Undo(h) PROVE Paths'
  BY <1>18 DEF Undo, Withdraw, Step, Same
<1>19. ASSUME NEW h \in Handler, Fail(h) PROVE Paths'
  BY <1>19 DEF Fail, Step, Same
<1>20. CASE UNCHANGED vars BY <1>20 DEF vars
<1>21. QED
  BY <1>1, <1>2, <1>3, <1>4, <1>5, <1>6, <1>7, <1>8, <1>9, <1>10, <1>11, <1>12,
     <1>13, <1>14, <1>15, <1>16, <1>17, <1>18, <1>19, <1>20 DEF Next

\* A notification comes after its row, whatever became of the row since.
LEMMA NoticeStep == InboundInv /\ [Next]_vars => NoticeInv'
<1> USE DEF TypeOK, NoticeInv, NoticeMeansRow, tables, requests, world, history
<1> SUFFICES ASSUME TypeOK, NoticeInv, [Next]_vars PROVE NoticeInv'
  BY DEF InboundInv
<1>1. CASE DeletePost BY <1>1 DEF DeletePost
<1>2. CASE ChangeFollow BY <1>2 DEF ChangeFollow
<1>3. CASE ChangeBar BY <1>3 DEF ChangeBar
<1>4. ASSUME NEW h \in Handler, NEW n \in Note, TakeNote(h, n) PROVE NoticeInv'
  BY <1>4 DEF TakeNote, Take
<1>5. ASSUME NEW h \in Handler, NEW n \in Note, TakeUpdate(h, n) PROVE NoticeInv'
  BY <1>5 DEF TakeUpdate, Take
<1>6. ASSUME NEW h \in Handler, NEW n \in Note, TakeWithdrawal(h, n) PROVE NoticeInv'
  BY <1>6 DEF TakeWithdrawal, Take
<1>7. ASSUME NEW h \in Handler, StoreTimeline(h) PROVE NoticeInv'
  BY <1>7 DEF StoreTimeline, Step, Same
<1>8. ASSUME NEW h \in Handler, FindPost(h) PROVE NoticeInv'
  BY <1>8 DEF FindPost, Step, Same
<1>9. ASSUME NEW h \in Handler, CheckReply(h) PROVE NoticeInv'
  BY <1>9 DEF CheckReply, Step, Same
<1>10. ASSUME NEW h \in Handler, NEW verdict \in BOOLEAN, Judge(h, verdict)
       PROVE NoticeInv'
  BY <1>10 DEF Judge, Step, Same
<1>11. ASSUME NEW h \in Handler, StoreReply(h) PROVE NoticeInv'
  BY <1>11 DEF StoreReply, Insert, Step, Same
<1>12. ASSUME NEW h \in Handler, StoreMark(h) PROVE NoticeInv'
  BY <1>12 DEF StoreMark, Step, Same
<1>13. ASSUME NEW h \in Handler, Notify(h) PROVE NoticeInv'
  BY <1>13 DEF Notify, Step, Same
<1>14. ASSUME NEW h \in Handler, CheckFollow(h) PROVE NoticeInv'
  BY <1>14 DEF CheckFollow, Step, Same
<1>15. ASSUME NEW h \in Handler, Ingest(h) PROVE NoticeInv'
  BY <1>15 DEF Ingest, Step, Same
<1>16. ASSUME NEW h \in Handler, Update(h) PROVE NoticeInv'
  BY <1>16 DEF Update, Step, Same
<1>17. ASSUME NEW h \in Handler, Delete(h) PROVE NoticeInv'
  BY <1>17 DEF Delete, Withdraw, Step, Same
<1>18. ASSUME NEW h \in Handler, Undo(h) PROVE NoticeInv'
  BY <1>18 DEF Undo, Withdraw, Step, Same
<1>19. ASSUME NEW h \in Handler, Fail(h) PROVE NoticeInv'
  BY <1>19 DEF Fail, Step, Same
<1>20. CASE UNCHANGED vars BY <1>20 DEF vars
<1>21. QED
  BY <1>1, <1>2, <1>3, <1>4, <1>5, <1>6, <1>7, <1>8, <1>9, <1>10, <1>11, <1>12,
     <1>13, <1>14, <1>15, <1>16, <1>17, <1>18, <1>19, <1>20 DEF Next

\* A reply is announced by the requests whose copy passed.
LEMMA PassStep == InboundInv /\ [Next]_vars => PassInv'
<1> USE DEF TypeOK, PassInv, Kinds, Paths, tables, requests, world, history
<1> SUFFICES ASSUME TypeOK, PassInv, Kinds, Paths, [Next]_vars PROVE PassInv'
  BY DEF InboundInv
<1>1. CASE DeletePost BY <1>1 DEF DeletePost
<1>2. CASE ChangeFollow BY <1>2 DEF ChangeFollow
<1>3. CASE ChangeBar BY <1>3 DEF ChangeBar
<1>4. ASSUME NEW h \in Handler, NEW n \in Note, TakeNote(h, n) PROVE PassInv'
  BY <1>4 DEF TakeNote, Take
<1>5. ASSUME NEW h \in Handler, NEW n \in Note, TakeUpdate(h, n) PROVE PassInv'
  BY <1>5 DEF TakeUpdate, Take
<1>6. ASSUME NEW h \in Handler, NEW n \in Note, TakeWithdrawal(h, n) PROVE PassInv'
  BY <1>6 DEF TakeWithdrawal, Take
<1>7. ASSUME NEW h \in Handler, StoreTimeline(h) PROVE PassInv'
  BY <1>7 DEF StoreTimeline, Step, Same
<1>8. ASSUME NEW h \in Handler, FindPost(h) PROVE PassInv'
  BY <1>8 DEF FindPost, Step, Same
<1>9. ASSUME NEW h \in Handler, CheckReply(h) PROVE PassInv'
  BY <1>9 DEF CheckReply, Step, Same
<1>10. ASSUME NEW h \in Handler, NEW verdict \in BOOLEAN, Judge(h, verdict)
       PROVE PassInv'
  BY <1>10 DEF Judge, Step, Same
<1>11. ASSUME NEW h \in Handler, StoreReply(h) PROVE PassInv'
  BY <1>11 DEF StoreReply, Insert, Step, Same
<1>12. ASSUME NEW h \in Handler, StoreMark(h) PROVE PassInv'
  BY <1>12 DEF StoreMark, Step, Same
<1>13. ASSUME NEW h \in Handler, Notify(h) PROVE PassInv'
  BY <1>13 DEF Notify, Step, Same
<1>14. ASSUME NEW h \in Handler, CheckFollow(h) PROVE PassInv'
  BY <1>14 DEF CheckFollow, Step, Same
<1>15. ASSUME NEW h \in Handler, Ingest(h) PROVE PassInv'
  BY <1>15 DEF Ingest, Step, Same
<1>16. ASSUME NEW h \in Handler, Update(h) PROVE PassInv'
  BY <1>16 DEF Update, Step, Same
<1>17. ASSUME NEW h \in Handler, Delete(h) PROVE PassInv'
  BY <1>17 DEF Delete, Withdraw, Step, Same
<1>18. ASSUME NEW h \in Handler, Undo(h) PROVE PassInv'
  BY <1>18 DEF Undo, Withdraw, Step, Same
<1>19. ASSUME NEW h \in Handler, Fail(h) PROVE PassInv'
  BY <1>19 DEF Fail, Step, Same
<1>20. CASE UNCHANGED vars BY <1>20 DEF vars
<1>21. QED
  BY <1>1, <1>2, <1>3, <1>4, <1>5, <1>6, <1>7, <1>8, <1>9, <1>10, <1>11, <1>12,
     <1>13, <1>14, <1>15, <1>16, <1>17, <1>18, <1>19, <1>20 DEF Next

\* A note comes back only by what was in hand or came again.
LEMMA AwayStep == InboundInv /\ [Next]_vars => AwayInv'
<1> USE DEF TypeOK, AwayInv, WithdrawnStaysAway, Kinds, Paths, Bringing, tables, requests, world, history
<1> SUFFICES ASSUME TypeOK, AwayInv, Kinds, Paths, [Next]_vars PROVE AwayInv'
  BY DEF InboundInv
<1>1. CASE DeletePost BY <1>1 DEF DeletePost
<1>2. CASE ChangeFollow BY <1>2 DEF ChangeFollow
<1>3. CASE ChangeBar BY <1>3 DEF ChangeBar
<1>4. ASSUME NEW h \in Handler, NEW n \in Note, TakeNote(h, n) PROVE AwayInv'
  BY <1>4 DEF TakeNote, Take
<1>5. ASSUME NEW h \in Handler, NEW n \in Note, TakeUpdate(h, n) PROVE AwayInv'
  BY <1>5 DEF TakeUpdate, Take
<1>6. ASSUME NEW h \in Handler, NEW n \in Note, TakeWithdrawal(h, n) PROVE AwayInv'
  BY <1>6 DEF TakeWithdrawal, Take
<1>7. ASSUME NEW h \in Handler, StoreTimeline(h) PROVE AwayInv'
  BY <1>7 DEF StoreTimeline, Step, Same
<1>8. ASSUME NEW h \in Handler, FindPost(h) PROVE AwayInv'
  BY <1>8 DEF FindPost, Step, Same
<1>9. ASSUME NEW h \in Handler, CheckReply(h) PROVE AwayInv'
  BY <1>9 DEF CheckReply, Step, Same
<1>10. ASSUME NEW h \in Handler, NEW verdict \in BOOLEAN, Judge(h, verdict)
       PROVE AwayInv'
  BY <1>10 DEF Judge, Step, Same
<1>11. ASSUME NEW h \in Handler, StoreReply(h) PROVE AwayInv'
  BY <1>11 DEF StoreReply, Insert, Step, Same
<1>12. ASSUME NEW h \in Handler, StoreMark(h) PROVE AwayInv'
  BY <1>12 DEF StoreMark, Step, Same
<1>13. ASSUME NEW h \in Handler, Notify(h) PROVE AwayInv'
  BY <1>13 DEF Notify, Step, Same
<1>14. ASSUME NEW h \in Handler, CheckFollow(h) PROVE AwayInv'
  BY <1>14 DEF CheckFollow, Step, Same
<1>15. ASSUME NEW h \in Handler, Ingest(h) PROVE AwayInv'
  BY <1>15 DEF Ingest, Step, Same
<1>16. ASSUME NEW h \in Handler, Update(h) PROVE AwayInv'
  BY <1>16 DEF Update, Step, Same
<1>17. ASSUME NEW h \in Handler, Delete(h) PROVE AwayInv'
  BY <1>17 DEF Delete, Withdraw, Step, Same
<1>18. ASSUME NEW h \in Handler, Undo(h) PROVE AwayInv'
  BY <1>18 DEF Undo, Withdraw, Step, Same
<1>19. ASSUME NEW h \in Handler, Fail(h) PROVE AwayInv'
  BY <1>19 DEF Fail, Step, Same
<1>20. CASE UNCHANGED vars BY <1>20 DEF vars
<1>21. QED
  BY <1>1, <1>2, <1>3, <1>4, <1>5, <1>6, <1>7, <1>8, <1>9, <1>10, <1>11, <1>12,
     <1>13, <1>14, <1>15, <1>16, <1>17, <1>18, <1>19, <1>20 DEF Next

\* A set that shrinks has no more elements.
LEMMA Fewer ==
  ASSUME NEW S, IsFiniteSet(S), NEW R \in SUBSET S
  PROVE  IsFiniteSet(R) /\ Cardinality(R) <= Cardinality(S)
         /\ Cardinality(R) \in Nat /\ Cardinality(S) \in Nat
BY FS_Subset, FS_CardinalityType

\* While no request begins and none notifies, nothing is owed in addition.
LEMMA NothingOwed ==
  ASSUME TypeOK, CountInv, UNCHANGED <<inbox, notices, copies>>,
         \A n \in Note : Owing(n)' \subseteq Owing(n)
  PROVE  CountInv'
<1>1. ASSUME NEW n \in Note
      PROVE (IsFiniteSet(Owing(n)) /\ notices[n] + Cardinality(Owing(n)) <= copies[n])'
  <2>1. IsFiniteSet(Owing(n)) /\ notices[n] + Cardinality(Owing(n)) <= copies[n]
    BY <1>1 DEF CountInv
  <2>2. /\ IsFiniteSet(Owing(n)') /\ Cardinality(Owing(n)') <= Cardinality(Owing(n))
        /\ Cardinality(Owing(n)') \in Nat /\ Cardinality(Owing(n)) \in Nat
    BY <1>1, <2>1, Fewer
  <2>3. notices[n] \in Nat /\ copies[n] \in Nat
    BY <1>1 DEF TypeOK
  <2>4. notices'[n] + Cardinality(Owing(n)') <= copies'[n]
    BY <2>1, <2>2, <2>3
  <2>5. QED BY <2>2, <2>4
<1>2. QED BY <1>1 DEF CountInv

\* Each copy of a note is good for one notification.
LEMMA CountStep == InboundInv /\ [Next]_vars => CountInv'
<1> SUFFICES ASSUME TypeOK, CountInv, [Next]_vars PROVE CountInv'
  BY DEF InboundInv
<1> USE DEF tables, requests, world, history
<1>1. ASSUME NEW h \in Handler, NEW n \in Note, TakeNote(h, n) PROVE CountInv'
  <2>1. /\ stage[h] = "idle" /\ at' = [at EXCEPT ![h] = n]
        /\ copies' = [copies EXCEPT ![n] = @ + 1]
        /\ UNCHANGED <<inbox, notices>>
        /\ \A g \in Handler \ {h} : stage'[g] = stage[g]
    BY <1>1 DEF TakeNote, Take, TypeOK
  <2>2. Owing(n)' \subseteq Owing(n) \cup {h}
    BY <2>1 DEF Owing, TypeOK
  <2>3. \A m \in Note \ {n} : Owing(m)' \subseteq Owing(m)
    BY <2>1 DEF Owing, TypeOK
  <2>4. ASSUME NEW m \in Note
        PROVE IsFiniteSet(Owing(m)') /\ notices[m] + Cardinality(Owing(m)') <= copies'[m]
    <3>1. /\ IsFiniteSet(Owing(m)) /\ notices[m] + Cardinality(Owing(m)) <= copies[m]
          /\ notices[m] \in Nat /\ copies[m] \in Nat
      BY <2>4 DEF CountInv, TypeOK
    <3>2. CASE m # n
      <4>1. /\ IsFiniteSet(Owing(m)') /\ Cardinality(Owing(m)') <= Cardinality(Owing(m))
            /\ Cardinality(Owing(m)') \in Nat /\ Cardinality(Owing(m)) \in Nat
        BY <2>3, <2>4, <3>1, <3>2, Fewer
      <4>2. copies'[m] = copies[m]
        BY <2>1, <2>4, <3>2 DEF TypeOK
      <4>3. QED BY <3>1, <4>1, <4>2
    <3>3. CASE m = n
      <4>1. h \notin Owing(m)
        BY <2>1 DEF Owing, Owes
      <4>2. /\ IsFiniteSet(Owing(m) \cup {h})
            /\ Cardinality(Owing(m) \cup {h}) = Cardinality(Owing(m)) + 1
        BY <3>1, <4>1, FS_AddElement
      <4>3. /\ IsFiniteSet(Owing(m)')
            /\ Cardinality(Owing(m)') <= Cardinality(Owing(m) \cup {h})
            /\ Cardinality(Owing(m)') \in Nat
        BY <2>2, <3>3, <4>2, Fewer
      <4>4. copies'[m] = copies[m] + 1 /\ Cardinality(Owing(m)) \in Nat
        BY <2>1, <2>4, <3>1, <3>3, FS_CardinalityType DEF TypeOK
      <4>5. QED BY <3>1, <4>2, <4>3, <4>4
    <3>4. QED BY <3>2, <3>3
  <2>5. QED BY <2>1, <2>4 DEF CountInv
<1>2. ASSUME NEW h \in Handler, Notify(h) PROVE CountInv'
  <2>1. /\ at[h] \in Note
        /\ \A m \in Note : m = at[h] =>
             h \in Owing(m) /\ Owing(m)' \subseteq Owing(m) \ {h}
        /\ \A m \in Note : Owing(m)' \subseteq Owing(m)
    BY <1>2 DEF Notify, Step, Same, Owing, Owes, TypeOK
  <2>2. /\ UNCHANGED <<inbox, copies>>
        /\ \A m \in Note \ {at[h]} : notices'[m] = notices[m]
        /\ notices'[at[h]] <= notices[at[h]] + 1
        /\ inbox = "router" => notices'[at[h]] = 1
        /\ notices'[at[h]] \in Nat
    BY <1>2, <2>1 DEF Notify, Same, TypeOK
  <2>3. ASSUME NEW m \in Note
        PROVE IsFiniteSet(Owing(m)') /\ notices'[m] + Cardinality(Owing(m)') <= copies[m]
    <3>1. /\ IsFiniteSet(Owing(m)) /\ notices[m] + Cardinality(Owing(m)) <= copies[m]
          /\ notices[m] \in Nat /\ copies[m] \in Nat
      BY <2>3 DEF CountInv, TypeOK
    <3>2. CASE m # at[h]
      <4>1. /\ IsFiniteSet(Owing(m)') /\ Cardinality(Owing(m)') <= Cardinality(Owing(m))
            /\ Cardinality(Owing(m)') \in Nat /\ Cardinality(Owing(m)) \in Nat
        BY <2>1, <2>3, <3>1, Fewer
      <4>2. QED BY <2>2, <2>3, <3>1, <3>2, <4>1
    <3>3. CASE m = at[h]
      <4>1. /\ IsFiniteSet(Owing(m) \ {h})
            /\ Cardinality(Owing(m) \ {h}) = Cardinality(Owing(m)) - 1
        BY <2>1, <2>3, <3>1, <3>3, FS_RemoveElement
      <4>2. /\ IsFiniteSet(Owing(m)')
            /\ Cardinality(Owing(m)') <= Cardinality(Owing(m) \ {h})
            /\ Cardinality(Owing(m)') \in Nat
        BY <2>1, <2>3, <3>3, <4>1, Fewer
      <4>3. Cardinality(Owing(m)) \in Nat
        BY <3>1, FS_CardinalityType
      <4>4. QED BY <2>2, <3>1, <3>3, <4>1, <4>2, <4>3
    <3>4. QED BY <3>2, <3>3
  <2>4. inbox = "router" => \A m \in Note : notices'[m] <= 1
    BY <2>1, <2>2 DEF CountInv
  <2>5. QED BY <2>2, <2>3, <2>4 DEF CountInv
<1>3. CASE DeletePost \/ ChangeFollow \/ ChangeBar \/ UNCHANGED vars
  <2>1. UNCHANGED <<inbox, notices, copies, at, stage>>
    BY <1>3 DEF DeletePost, ChangeFollow, ChangeBar, vars
  <2>2. QED BY <2>1, NothingOwed DEF Owing
<1>4. ASSUME NEW h \in Handler, NEW n \in Note,
             TakeUpdate(h, n) \/ TakeWithdrawal(h, n)
      PROVE CountInv'
  <2>1. PICK s \in {"update", "undo", "delete"} : Take(h, n, s) /\ UNCHANGED copies
    BY <1>4 DEF TakeUpdate, TakeWithdrawal
  <2>2. UNCHANGED <<inbox, notices, copies>>
    BY <2>1 DEF Take
  <2>3. \A m \in Note : Owing(m)' \subseteq Owing(m)
    BY <2>1 DEF Take, Owing, Owes, TypeOK
  <2>4. QED BY <2>2, <2>3, NothingOwed
<1>5. ASSUME NEW h \in Handler, NEW s \in Stage, NEW t \in Stage, Step(h, s, t), Same,
             UNCHANGED notices, t \in Owes => s \in Owes
      PROVE CountInv'
  <2>1. UNCHANGED <<inbox, notices, copies>>
    BY <1>5 DEF Same
  <2>2. \A m \in Note : Owing(m)' \subseteq Owing(m)
    BY <1>5 DEF Step, Same, Owing, TypeOK
  <2>3. QED BY <2>1, <2>2, NothingOwed
<1>6. ASSUME NEW h \in Handler,
             \/ StoreTimeline(h) \/ FindPost(h) \/ CheckReply(h)
             \/ \E verdict \in BOOLEAN : Judge(h, verdict)
             \/ StoreReply(h) \/ StoreMark(h) \/ CheckFollow(h) \/ Ingest(h)
             \/ Update(h) \/ Delete(h) \/ Undo(h)
      PROVE CountInv'
  <2>1. \E s, t \in Stage : Step(h, s, t) /\ (t \in Owes => s \in Owes)
    BY <1>6 DEF StoreTimeline, FindPost, CheckReply, Judge, StoreReply, StoreMark,
                CheckFollow, Ingest, Update, Delete, Undo, Step, Owes, Stage
  <2>2. Same /\ UNCHANGED notices
    BY <1>6 DEF StoreTimeline, FindPost, CheckReply, Judge, StoreReply, StoreMark,
                CheckFollow, Ingest, Update, Delete, Undo
  <2>3. QED BY <1>5, <2>1, <2>2
<1>7. ASSUME NEW h \in Handler, Fail(h) PROVE CountInv'
  <2>1. UNCHANGED <<inbox, notices, copies, at>> /\ stage' = [stage EXCEPT ![h] = "idle"]
    BY <1>7 DEF Fail, Same
  <2>2. \A m \in Note : Owing(m)' \subseteq Owing(m)
    BY <2>1 DEF Owing, Owes, TypeOK
  <2>3. QED BY <2>1, <2>2, NothingOwed
<1>8. QED BY <1>1, <1>2, <1>3, <1>4, <1>6, <1>7 DEF Next

\* The invariant holds of every step of the inbox.
LEMMA InboundStepKeeps == InboundInv /\ [Next]_vars => InboundInv'
BY TypeStep, KindsStep, PathsStep, NoticeStep, PassStep, AwayStep, CountStep
DEF InboundInv

\* What the invariant says of notifications and of withdrawn notes.
LEMMA InboundImplies ==
  InboundInv => TypeOK /\ NoticesAreDue /\ HiddenIsQuiet /\ WithdrawnStaysAway
<1> SUFFICES ASSUME InboundInv
             PROVE TypeOK /\ NoticesAreDue /\ HiddenIsQuiet /\ WithdrawnStaysAway
  OBVIOUS
<1>1. NoNoticeTooMany
  <2>1. ASSUME NEW n \in Note PROVE notices[n] <= copies[n]
    <3>1. /\ notices[n] + Cardinality(Owing(n)) <= copies[n]
          /\ Cardinality(Owing(n)) \in Nat
          /\ notices[n] \in Nat /\ copies[n] \in Nat
      BY <2>1, FS_CardinalityType DEF InboundInv, CountInv, TypeOK
    <3>2. QED BY <3>1
  <2>2. QED BY <2>1 DEF InboundInv, CountInv, NoNoticeTooMany
<1>2. NoticeMeansRow /\ WithdrawnStaysAway
  BY DEF InboundInv, NoticeInv, AwayInv
<1>3. HiddenIsQuiet
  BY DEF InboundInv, PassInv, HiddenIsQuiet, TypeOK
<1>4. QED BY <1>1, <1>2, <1>3 DEF InboundInv, NoticesAreDue

\* Every table, request and history of the inbox keeps its type; a reply's row
\* is there only with the post, whatever is deleted while requests run.
THEOREM InboundTypeCorrect == Spec => []TypeOK
<1>1. Spec => []InboundInv
  BY InboundInit, InboundStepKeeps, PTL DEF Spec
<1>2. QED BY <1>1, InboundImplies, PTL

-----------------------------------------------------------------------------
(* The steps of Moderation.                                                *)

\* Where the owner has decided nobody else is at work: the reply counts as
\* checked and is on no list.  A save of the settings about to take its list ends
\* the decision only for the replies it lists.
DecisionInv ==
  \A n \in Note : word[n] # "none" =>
    /\ replies[n] = word[n] /\ n \in checked
    /\ ~InHand(n)

\* A request that is about to write by an old policy is one that the change of
\* policy has met; otherwise what is stored, classified and in nobody's hand
\* agrees with the policy.
StaleIsMissed ==
  \A j \in Job, n \in Note :
    job[j] = "write" /\ n \in list[j] /\ read[j] # policy => n \in missed
PolicyInv == StaleIsMissed /\ PolicyIsInForce

ModInv == InboundInv /\ ModTypeOK /\ DecisionInv /\ PolicyInv

-----------------------------------------------------------------------------

\* The inbox leaves a reply that stays as it is, and takes no check back.
LEMMA InboxLeavesReplies ==
  ASSUME TypeOK, [Next]_vars, NEW n \in Note,
         replies[n] # "none", replies'[n] # "none"
  PROVE  replies'[n] = replies[n] /\ (n \in checked => n \in checked')
<1> USE DEF tables, requests, world, history
<1>1. CASE DeletePost
  BY <1>1 DEF DeletePost
<1>2. CASE ChangeFollow \/ ChangeBar \/ UNCHANGED vars
  BY <1>2 DEF ChangeFollow, ChangeBar, vars
<1>3. ASSUME NEW h \in Handler, NEW m \in Note, NEW s, Take(h, m, s)
      PROVE UNCHANGED <<replies, checked>>
  BY <1>3 DEF Take
<1>4. ASSUME NEW h \in Handler, NEW m \in Note,
             TakeNote(h, m) \/ TakeUpdate(h, m) \/ TakeWithdrawal(h, m)
      PROVE UNCHANGED <<replies, checked>>
  BY <1>3, <1>4 DEF TakeNote, TakeUpdate, TakeWithdrawal
<1>5. ASSUME NEW h \in Handler, StoreReply(h)
      PROVE replies'[n] = replies[n] /\ (n \in checked => n \in checked')
  BY <1>5 DEF StoreReply, Insert, TypeOK
<1>6. ASSUME NEW h \in Handler,
             \/ StoreTimeline(h) \/ FindPost(h) \/ CheckReply(h)
             \/ \E verdict \in BOOLEAN : Judge(h, verdict)
             \/ StoreMark(h) \/ Notify(h) \/ CheckFollow(h) \/ Ingest(h)
             \/ Update(h) \/ Delete(h) \/ Undo(h) \/ Fail(h)
      PROVE UNCHANGED <<replies, checked>>
  BY <1>6 DEF StoreTimeline, FindPost, CheckReply, Judge, StoreMark, Notify,
              CheckFollow, Ingest, Update, Delete, Undo, Fail
<1>7. QED BY <1>1, <1>2, <1>4, <1>5, <1>6 DEF Next

\* What moderation writes of the inbox's state are statuses and checks of replies
\* that are there; the invariant of the inbox does not depend on them.
LEMMA ModerationKeepsInbound ==
  ASSUME InboundInv, ModTypeOK,
         UNCHANGED <<inbox, kind, timeline, marks, notices, requests, world, history>>,
         checked' \subseteq Note, replies' \in [Note -> {"none"} \cup Status],
         \A n \in Note : replies[n] = "none" => replies'[n] = "none"
  PROVE  InboundInv'
<1> USE DEF InboundInv, requests, world, history
<1>1. TypeOK'
  BY DEF TypeOK
<1>2. Kinds' /\ Paths'
  BY DEF Kinds, Paths
<1>3. NoticeInv' /\ PassInv' /\ AwayInv'
  BY DEF NoticeInv, NoticeMeansRow, PassInv, AwayInv, WithdrawnStaysAway
<1>4. CountInv'
  BY DEF CountInv, Owing
<1>5. QED BY <1>1, <1>2, <1>3, <1>4

\* The initial states satisfy the invariant.
LEMMA ModInitInv == ModInit => ModInv
<1> USE ModerationAssumption
<1> SUFFICES ASSUME ModInit PROVE ModInv
  OBVIOUS
<1>1. InboundInv /\ TypeOK
  BY InboundInit DEF ModInit, InboundInv
<1>2. ModTypeOK
  <2>1. /\ flagged \subseteq Note /\ policy \in Policy
        /\ job \in [Job -> {"idle", "refresh", "settings", "read", "write"}]
        /\ read \in [Job -> Policy] /\ missed \subseteq Note /\ saves \in Nat
    BY DEF ModInit
  <2>2. list \in [Job -> SUBSET Note] /\ word \in [Note -> {"none"} \cup Status]
        /\ saver \subseteq Job /\ \A j \in Job : list[j] = {}
    BY DEF ModInit
  <2>3. QED BY <1>1, <2>1, <2>2 DEF ModTypeOK
<1>3. DecisionInv /\ StaleIsMissed
  BY DEF ModInit, DecisionInv, StaleIsMissed
<1>4. PolicyIsInForce
  BY DEF ModInit, Init, PolicyIsInForce, Stored
<1>5. QED BY <1>1, <1>2, <1>3, <1>4 DEF ModInv, PolicyInv

\* One step per action; those of the inbox leave decisions and policy alone.
LEMMA ModStep == ModInv /\ [ModNext]_<<vars, modvars>> => ModInv'
<1> USE ModerationAssumption DEF ModTypeOK, modvars
<1> SUFFICES ASSUME ModInv, [ModNext]_<<vars, modvars>> PROVE ModInv'
  OBVIOUS
<1>0. /\ InboundInv /\ TypeOK /\ ModTypeOK /\ DecisionInv /\ StaleIsMissed
      /\ PolicyIsInForce
  BY DEF ModInv, InboundInv, PolicyInv
<1>1. CASE InboundStep
  <2>1. InboundInv' /\ TypeOK'
    BY <1>0, <1>1, InboundStepKeeps DEF InboundStep, InboundInv
  <2>2. /\ word' \in [Note -> {"none"} \cup Status] /\ missed' \subseteq Note
        /\ \A n \in Note : word'[n] = IF replies'[n] = "none" THEN "none" ELSE word[n]
        /\ missed' = missed \cup {n \in Note : replies[n] = "none" /\ replies'[n] # "none"}
        /\ UNCHANGED <<flagged, policy, job, saver, list, read, saves>>
    BY <1>0, <1>1 DEF InboundStep
  <2>3. ModTypeOK'
    BY <1>0, <2>1, <2>2
  <2>4. \A n \in Note : replies[n] # "none" /\ replies'[n] # "none" =>
          replies'[n] = replies[n] /\ (n \in checked => n \in checked')
    BY <1>0, <1>1, InboxLeavesReplies DEF InboundStep
  <2>5. DecisionInv'
    <3>1. ASSUME NEW n \in Note, word'[n] # "none"
          PROVE replies'[n] = word'[n] /\ n \in checked' /\ ~InHand(n)
      <4>1. word[n] = word'[n] /\ replies'[n] # "none"
        BY <2>2, <3>1
      <4>2. replies[n] = word[n] /\ n \in checked /\ ~InHand(n)
        BY <1>0, <3>1, <4>1 DEF DecisionInv
      <4>3. QED BY <2>4, <3>1, <4>1, <4>2
    <3>2. QED BY <2>2, <3>1 DEF DecisionInv, InHand
  <2>6. StaleIsMissed'
    BY <1>0, <2>2 DEF StaleIsMissed
  <2>7. PolicyIsInForce'
    <3>1. ASSUME NEW n \in Note, replies'[n] # "none", n \notin missed', word'[n] = "none",
                 ~InHand(n), \A j \in Job : job[j] # "settings"
          PROVE replies'[n] = Classify(n, policy)
      <4>1. replies[n] # "none" /\ word[n] = "none" /\ n \notin missed
        BY <2>2, <3>1
      <4>2. replies[n] = Classify(n, policy)
        BY <1>0, <3>1, <4>1 DEF PolicyIsInForce, Stored
      <4>3. QED BY <2>4, <3>1, <4>1, <4>2
    <3>2. QED BY <2>2, <3>1 DEF PolicyIsInForce, Stored, InHand, Classify
  <2>8. QED BY <2>1, <2>3, <2>5, <2>6, <2>7 DEF ModInv, PolicyInv
<1>2. ASSUME NEW n \in Note, NEW status \in Policy, Decide(n, status) PROVE ModInv'
  <2>1. /\ n \in Note /\ replies[n] # "none" /\ status \in Status
        /\ replies' = [replies EXCEPT ![n] = status]
        /\ checked' = checked \cup {n}
        /\ UNCHANGED <<inbox, kind, timeline, marks, notices, requests, world, history>>
        /\ UNCHANGED <<flagged, policy, job, saver, list, read>>
    BY <1>2 DEF Decide, Stored
  <2>2. word' = [word EXCEPT ![n] = IF Overwritten(n) THEN "none" ELSE status]
        /\ missed' = (IF Overwritten(n) THEN missed \cup {n} ELSE missed)
        /\ saves' = saves + 1
    BY <1>2 DEF Decide
  <2>3. InboundInv' /\ TypeOK'
    <3>1. replies' \in [Note -> {"none"} \cup Status] /\ checked' \subseteq Note
      BY <1>0, <2>1 DEF TypeOK
    <3>2. \A m \in Note : replies[m] = "none" => replies'[m] = "none"
      BY <1>0, <2>1 DEF TypeOK
    <3>3. QED BY <1>0, <2>1, <3>1, <3>2, ModerationKeepsInbound DEF InboundInv
  <2>4. ModTypeOK'
    <3>1. word' \in [Note -> {"none"} \cup Status]
      BY <1>0, <2>1, <2>2
    <3>2. missed' \subseteq Note /\ saves' \in Nat
      BY <1>0, <2>2
    <3>3. QED BY <1>0, <2>1, <2>3, <3>1, <3>2
  <2>5. status # "none"
    BY <2>1 DEF Status
  <2>6. DecisionInv'
    BY <1>0, <2>1, <2>2, <2>5 DEF DecisionInv, InHand, Overwritten, TypeOK
  <2>7. StaleIsMissed'
    BY <1>0, <2>1, <2>2 DEF StaleIsMissed
  <2>8. PolicyIsInForce'
    BY <1>0, <2>1, <2>2, <2>5
    DEF PolicyIsInForce, Stored, InHand, Classify, Overwritten, TypeOK
  <2>9. QED BY <2>3, <2>4, <2>6, <2>7, <2>8 DEF ModInv, PolicyInv
<1>3. ASSUME UNCHANGED vars PROVE InboundInv' /\ TypeOK' /\ UNCHANGED <<replies, checked>>
  BY <1>0, <1>3, InboundStepKeeps DEF InboundInv, vars, tables
<1>4. ASSUME NEW j \in Job, Refresh(j) PROVE ModInv'
  <2>1. ModTypeOK'
    BY <1>0, <1>3, <1>4 DEF Refresh
  <2>2. DecisionInv' /\ StaleIsMissed'
    BY <1>0, <1>3, <1>4 DEF Refresh, DecisionInv, InHand, StaleIsMissed
  <2>3. PolicyIsInForce'
    BY <1>0, <1>3, <1>4 DEF Refresh, PolicyIsInForce, Stored, InHand, Classify
  <2>4. QED BY <1>3, <1>4, <2>1, <2>2, <2>3 DEF ModInv, PolicyInv, Refresh
<1>5. ASSUME NEW j \in Job, NEW p \in Policy, SaveSettings(j, p) PROVE ModInv'
  <2>1. ModTypeOK'
    BY <1>0, <1>3, <1>5 DEF SaveSettings
  <2>2. DecisionInv' /\ PolicyIsInForce'
    <3>1. job'[j] = "settings"
      BY <1>0, <1>5 DEF SaveSettings
    <3>2. QED BY <1>0, <1>3, <1>5, <3>1
              DEF SaveSettings, DecisionInv, InHand, PolicyIsInForce
  <2>3. StaleIsMissed'
    BY <1>0, <1>3, <1>5 DEF SaveSettings, StaleIsMissed, InHand
  <2>4. QED BY <1>3, <1>5, <2>1, <2>2, <2>3 DEF ModInv, PolicyInv, SaveSettings
<1>6. ASSUME NEW j \in Job, NEW some \in SUBSET Note, TakeList(j, some) PROVE ModInv'
  <2>1. /\ UNCHANGED vars /\ UNCHANGED <<flagged, policy, read, saves>>
        /\ list' = [list EXCEPT ![j] = some]
        /\ job[j] \in {"refresh", "settings"} /\ list[j] = {}
        /\ some \subseteq Stored
        /\ job[j] = "refresh" => some \cap checked = {}
    BY <1>0, <1>6 DEF TakeList, LoadingBy, Stored
  <2>2. /\ saver' \subseteq Job
        /\ \E next \in {"idle", "refresh", "read"} :
             job' = [job EXCEPT ![j] = next] /\ (next # "read" => some = {})
    BY <1>0, <1>6 DEF TakeList, Ends, GoesOn
  <2>3. \/ /\ job[j] = "settings"
           /\ word' = [n \in Note |-> IF n \in some THEN "none" ELSE word[n]]
           /\ missed' = missed \cup (Stored \ some)
        \/ job[j] = "refresh" /\ UNCHANGED <<word, missed>>
    BY <1>6, <2>1 DEF TakeList, Listed
  <2>4. ModTypeOK'
    <3>1. /\ word' \in [Note -> {"none"} \cup Status] /\ missed' \subseteq Note
          /\ list' \in [Job -> SUBSET Note]
      BY <1>0, <2>1, <2>3 DEF Stored
    <3>2. /\ job' \in [Job -> {"idle", "refresh", "settings", "read", "write"}]
          /\ \A k \in Job : job'[k] \in {"idle", "refresh", "settings"} => list'[k] = {}
      BY <1>0, <2>1, <2>2
    <3>3. QED BY <1>0, <1>3, <2>1, <2>2, <3>1, <3>2
  <2>5. DecisionInv'
    <3>1. ASSUME NEW n \in Note, word'[n] # "none"
          PROVE replies[n] = word'[n] /\ n \in checked /\ n \notin some /\ ~InHand(n)
      <4>1. word'[n] = word[n] /\ (job[j] = "settings" => n \notin some)
        BY <2>3, <3>1
      <4>2. replies[n] = word[n] /\ n \in checked /\ ~InHand(n)
        BY <1>0, <3>1, <4>1 DEF DecisionInv
      <4>3. QED BY <2>1, <2>3, <4>1, <4>2
    <3>2. QED BY <1>0, <1>3, <2>1, <3>1 DEF DecisionInv, InHand
  <2>6. StaleIsMissed'
    BY <1>0, <2>1, <2>2, <2>3 DEF StaleIsMissed
  <2>7. PolicyIsInForce'
    <3>1. ASSUME NEW n \in Note, replies[n] # "none", n \notin missed', word'[n] = "none",
                 ~InHand(n)', ~\E k \in Job : job'[k] = "settings"
          PROVE replies[n] = Classify(n, policy)
      <4>1. n \notin some
        BY <1>0, <2>1, <3>1 DEF InHand
      <4>2. job[j] = "refresh" /\ n \notin missed /\ word[n] = "none"
        BY <2>3, <3>1, <4>1 DEF Stored
      <4>3. ~InHand(n) /\ ~\E k \in Job : job[k] = "settings"
        BY <1>0, <2>1, <2>2, <3>1, <4>2 DEF InHand
      <4>4. QED BY <1>0, <3>1, <4>2, <4>3 DEF PolicyIsInForce, Stored
    <3>2. QED BY <1>3, <2>1, <3>1 DEF PolicyIsInForce, Stored, Classify
  <2>8. QED BY <1>3, <2>1, <2>4, <2>5, <2>6, <2>7 DEF ModInv, PolicyInv
<1>7. ASSUME NEW j \in Job, ReadPolicy(j) PROVE ModInv'
  <2>1. ModTypeOK'
    BY <1>0, <1>3, <1>7 DEF ReadPolicy, GoesOn
  <2>2. DecisionInv' /\ StaleIsMissed'
    BY <1>0, <1>3, <1>7 DEF ReadPolicy, GoesOn, DecisionInv, InHand, StaleIsMissed
  <2>3. PolicyIsInForce'
    BY <1>0, <1>3, <1>7 DEF ReadPolicy, GoesOn, PolicyIsInForce, Stored, InHand, Classify
  <2>4. QED BY <1>3, <1>7, <2>1, <2>2, <2>3 DEF ModInv, PolicyInv, ReadPolicy
<1>8. ASSUME NEW j \in Job, NEW n \in Note, Write(j, n) PROVE ModInv'
  <2>1. /\ job[j] = "write" /\ n \in list[j]
        /\ list' = [list EXCEPT ![j] = @ \ {n}]
        /\ \E next \in {"idle", "refresh", "read"} :
             job' = [job EXCEPT ![j] = next] /\ (next # "read" => list[j] = {n})
        /\ saver' \subseteq saver
        /\ UNCHANGED <<inbox, kind, timeline, marks, notices, requests, world, history>>
        /\ UNCHANGED <<flagged, policy, read, word, saves>>
    BY <1>8 DEF Write, Ends, GoesOn
  <2>2. missed' = IF read[j] = policy /\ \A k \in Job \ {j} : n \notin list[k]
                  THEN missed \ {n} ELSE missed
    BY <1>8 DEF Write
  <2>3. Classify(n, read[j]) \in Status
    BY <1>0 DEF Classify, Status
  <2>4. \/ /\ replies[n] # "none"
           /\ replies' = [replies EXCEPT ![n] = Classify(n, read[j])]
           /\ checked' = checked \cup {n}
        \/ replies[n] = "none" /\ UNCHANGED <<replies, checked>>
    BY <1>8 DEF Write, Stored
  <2>5. InboundInv' /\ TypeOK'
    <3>1. replies' \in [Note -> {"none"} \cup Status] /\ checked' \subseteq Note
      BY <1>0, <2>3, <2>4 DEF TypeOK
    <3>2. \A m \in Note : replies[m] = "none" => replies'[m] = "none"
      BY <1>0, <2>4 DEF TypeOK
    <3>3. QED BY <1>0, <2>1, <3>1, <3>2, ModerationKeepsInbound DEF InboundInv
  <2>6. ModTypeOK'
    BY <1>0, <2>1, <2>2, <2>5
  <2>7. word[n] = "none"
    BY <1>0, <2>1 DEF DecisionInv, InHand
  <2>8. DecisionInv'
    BY <1>0, <2>1, <2>4, <2>7 DEF DecisionInv, InHand, TypeOK
  <2>9. StaleIsMissed'
    BY <1>0, <2>1, <2>2 DEF StaleIsMissed
  <2>10. PolicyIsInForce'
    <3>1. ASSUME NEW m \in Note, replies'[m] # "none", m \notin missed', word[m] = "none",
                 ~InHand(m)', ~\E k \in Job : job'[k] = "settings"
          PROVE replies'[m] = Classify(m, policy)
      <4>1. ~\E k \in Job : job[k] = "settings"
        BY <1>0, <2>1, <3>1
      <4>2. CASE m # n
        <5>1. ~InHand(m) /\ m \notin missed /\ replies'[m] = replies[m]
          BY <1>0, <2>1, <2>2, <2>4, <3>1, <4>2 DEF InHand, TypeOK
        <5>2. QED BY <1>0, <3>1, <4>1, <5>1 DEF PolicyIsInForce, Stored
      <4>3. CASE m = n
        <5>1. replies'[n] = Classify(n, read[j])
          BY <1>0, <2>4, <3>1, <4>3 DEF TypeOK
        <5>2. \A k \in Job \ {j} : n \notin list[k]
          BY <1>0, <2>1, <3>1, <4>3 DEF InHand
        <5>3. read[j] = policy
          BY <1>0, <2>1, <2>2, <3>1, <4>3 DEF StaleIsMissed
        <5>4. QED BY <4>3, <5>1, <5>3
      <4>4. QED BY <4>2, <4>3
    <3>2. QED BY <2>1, <3>1 DEF PolicyIsInForce, Stored, Classify
  <2>11. QED BY <2>5, <2>6, <2>8, <2>9, <2>10 DEF ModInv, PolicyInv
<1>9. ASSUME NEW j \in Job, JobFails(j) PROVE ModInv'
  <2>1. /\ UNCHANGED vars /\ UNCHANGED <<flagged, policy, read, word, saves>>
        /\ missed' = IF job[j] = "settings" THEN Note ELSE missed \cup list[j]
        /\ job' = [job EXCEPT ![j] = "idle"]
        /\ list' = [list EXCEPT ![j] = {}] /\ saver' = saver \ {j}
    BY <1>9 DEF JobFails
  <2>2. ModTypeOK'
    BY <1>0, <1>3, <2>1
  <2>3. DecisionInv' /\ StaleIsMissed'
    BY <1>0, <1>3, <2>1 DEF DecisionInv, InHand, StaleIsMissed
  <2>4. PolicyIsInForce'
    <3>1. ASSUME NEW n \in Note, replies[n] # "none", n \notin missed', word[n] = "none",
                 ~InHand(n)', ~\E k \in Job : job'[k] = "settings"
          PROVE replies[n] = Classify(n, policy)
      <4>1. job[j] # "settings" /\ n \notin list[j] /\ n \notin missed
        BY <1>0, <2>1, <3>1
      <4>2. ~InHand(n) /\ ~\E k \in Job : job[k] = "settings"
        BY <1>0, <2>1, <3>1, <4>1 DEF InHand
      <4>3. QED BY <1>0, <3>1, <4>1, <4>2 DEF PolicyIsInForce, Stored
    <3>2. QED BY <1>3, <2>1, <3>1 DEF PolicyIsInForce, Stored, Classify
  <2>5. QED BY <1>3, <2>1, <2>2, <2>3, <2>4 DEF ModInv, PolicyInv
<1>10. CASE UNCHANGED <<vars, modvars>>
  <2>1. ModTypeOK'
    BY <1>0, <1>3, <1>10
  <2>2. DecisionInv' /\ StaleIsMissed'
    BY <1>0, <1>3, <1>10 DEF DecisionInv, InHand, StaleIsMissed
  <2>3. PolicyIsInForce'
    BY <1>0, <1>3, <1>10 DEF PolicyIsInForce, Stored, InHand, Classify
  <2>4. QED BY <1>3, <1>10, <2>1, <2>2, <2>3 DEF ModInv, PolicyInv
<1>11. QED
  BY <1>1, <1>2, <1>4, <1>5, <1>6, <1>7, <1>8, <1>9, <1>10 DEF ModNext

\* So the invariant of both parts always holds.
LEMMA ModSpecInv == ModSpec => []ModInv
BY ModInitInv, ModStep, PTL DEF ModSpec

\* Every row, request and setting keeps its type; one that is not at a list has
\* none.
THEOREM ModTypeCorrect == ModSpec => []ModTypeOK
<1>1. ModInv => ModTypeOK
  BY DEF ModInv
<1>2. QED BY <1>1, ModSpecInv, PTL

\* The owner is notified of what has been stored, and not more often than it
\* arrived; of a reply behind the router's inbox, once.
THEOREM NotifiedOfRows == ModSpec => []NoticesAreDue
<1>1. ModInv => NoticesAreDue
  BY InboundImplies DEF ModInv
<1>2. QED BY <1>1, ModSpecInv, PTL

\* What the moderator hid is announced only by a copy it let pass.
THEOREM HiddenAreQuiet == ModSpec => []HiddenIsQuiet
<1>1. ModInv => HiddenIsQuiet
  BY InboundImplies DEF ModInv
<1>2. QED BY <1>1, ModSpecInv, PTL

\* What was withdrawn is brought back only by what was in hand at that time, or
\* came again.
THEOREM WithdrawnStayAway == ModSpec => []WithdrawnStaysAway
<1>1. ModInv => WithdrawnStaysAway
  BY InboundImplies DEF ModInv
<1>2. QED BY <1>1, ModSpecInv, PTL

\* The owner's decision on a reply outlasts its repeated arrival and the queue's
\* classification.
THEOREM DecisionsStand == ModSpec => []DecisionStands
<1>1. ModInv => DecisionStands
  BY DEF ModInv, DecisionInv, DecisionStands
<1>2. QED BY <1>1, ModSpecInv, PTL

\* The policy saved last is the one by which the replies the save took up, the
\* newest 120, are shown, except for those that the owner decided on since and
\* those that a request left behind.
THEOREM PolicyRules == ModSpec => []PolicyIsInForce
<1>1. ModInv => PolicyIsInForce
  BY DEF ModInv, PolicyInv
<1>2. QED BY <1>1, ModSpecInv, PTL

=============================================================================
