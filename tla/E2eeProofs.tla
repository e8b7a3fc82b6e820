----------------------------- MODULE E2eeProofs -----------------------------
(***************************************************************************)
(* What is proved of end-to-end messages: of the servers' rows, for any    *)
(* number of devices, materials, messages and overlapping requests, and of *)
(* the clients' files, for any number of messages and clients.             *)
(***************************************************************************)
EXTENDS E2ee, Mls, TLAPS

-----------------------------------------------------------------------------
(* The rows.                                                               *)

\* The fields of a request that runs nothing have their types.
LEMMA Defaults ==
  AnyDevice \in Device /\ AnyMessage \in Own
BY E2eeAssumption DEF AnyDevice, AnyMessage

\* The rows are typed after every action: a row of `e2ee_peer_devices` never
\* gets another trust state than the three the code knows.
THEOREM E2eeTypeCorrect == Spec => []TypeOK
<1> USE Defaults
    DEF TypeOK, Trust, Materials, Storing, Dropping, Stage, Message,
        devices, rows, requests, word, fate, Goto, About, SameSubject
<1>1. Init => TypeOK
  <2> SUFFICES ASSUME Init PROVE TypeOK
    OBVIOUS
  <2>1. /\ trust \in [Device -> Trust \cup {"absent"}] /\ material \in [Device -> Materials]
        /\ sender \in BOOLEAN /\ conversation \in BOOLEAN
    BY DEF Init
  <2>2. /\ stage \in [Request -> Stage]
        /\ device \in [Request -> Device] /\ fresh \in [Request -> Materials]
    BY DEF Init
  <2>3. /\ wanted \in [Request -> Trust] /\ effect \in [Request -> Trust]
        /\ message \in [Request -> Message]
    BY DEF Init
  <2>4. QED BY <2>1, <2>2, <2>3 DEF Init
<1>2. TypeOK /\ [Next]_vars => TypeOK'
  <2> SUFFICES ASSUME TypeOK, [Next]_vars PROVE TypeOK'
    OBVIOUS
  <2>1. ASSUME NEW r \in Request, Begin(r) PROVE TypeOK'
    <3>1. ASSUME NEW d \in Device, NEW m \in Material, Discover(r, d, m) PROVE TypeOK'
      BY <3>1 DEF Discover
    <3>2. ASSUME NEW d \in Device, NEW m \in Material, OwnerTrusts(r, d, m) PROVE TypeOK'
      BY <3>2 DEF OwnerTrusts
    <3>3. ASSUME NEW k \in Message, BeginSend(r, k) PROVE TypeOK'
      BY <3>3 DEF BeginSend
    <3>4. ASSUME NEW k \in Message, Receive(r, k) PROVE TypeOK'
      BY <3>4 DEF Receive
    <3>5. ASSUME NEW k \in Message, BeginDelete(r, k) PROVE TypeOK'
      BY <3>5 DEF BeginDelete
    <3>6. QED BY <2>1, <3>1, <3>2, <3>3, <3>4, <3>5 DEF Begin
  <2>2. ASSUME NEW r \in Request, Continue(r) PROVE TypeOK'
    <3>1. CASE ReadPeer(r) BY <3>1 DEF ReadPeer, TrustAfterUpdate
    <3>2. CASE WritePeer(r) BY <3>2 DEF WritePeer, Done
    <3>3. ASSUME NEW d \in Device, CheckPeer(r, d) PROVE TypeOK'
      BY <3>3 DEF CheckPeer
    <3>4. CASE OpenConversation(r) BY <3>4 DEF OpenConversation
    <3>5. CASE InsertMessage(r) BY <3>5 DEF InsertMessage
    <3>6. CASE InsertMetadata(r) BY <3>6 DEF InsertMetadata, Done
    <3>7. CASE InsertDelivery(r) BY <3>7 DEF InsertDelivery, Done
    <3>8. CASE DropMetadata(r) BY <3>8 DEF DropMetadata
    <3>9. CASE DropMessage(r) BY <3>9 DEF DropMessage
    <3>10. CASE DropDeliveries(r) BY <3>10 DEF DropDeliveries
    <3>11. CASE LookRemaining(r) BY <3>11 DEF LookRemaining, Done
    <3>12. CASE Sweep(r) BY <3>12 DEF Sweep, Done
    <3>13. CASE Abort(r) BY <3>13 DEF Abort, Done
    <3>14. QED BY <2>2, <3>1, <3>2, <3>3, <3>4, <3>5, <3>6, <3>7, <3>8, <3>9, <3>10,
                 <3>11, <3>12, <3>13 DEF Continue
  <2>3. ASSUME NEW d \in Device, RevokePeer(d) PROVE TypeOK'
    BY <2>3 DEF RevokePeer, InFlight
  <2>4. CASE RegisterSender
    BY <2>4 DEF RegisterSender
  <2>5. CASE RevokeSender
    BY <2>5 DEF RevokeSender
  <2>6. CASE UNCHANGED vars
    BY <2>6 DEF vars
  <2>7. QED
    BY <2>1, <2>2, <2>3, <2>4, <2>5, <2>6 DEF Next
<1>3. QED
  BY <1>1, <1>2, PTL DEF Spec

-----------------------------------------------------------------------------
(* Trust.  The rows cannot show it alone: a discovery that has read a      *)
(* trusted row will write it back, so what it carries must be vouched for  *)
(* as well.                                                                *)

CarriedIsVouched ==
  \A r \in Request :
    stage[r] = "write" /\ effect[r] = "trusted" /\ wanted[r] # "trusted" =>
      <<device[r], fresh[r]>> \in vouched \ withdrawn

TrustInv == TrustIsExplicit /\ CarriedIsVouched /\ SentToVouched

\* Every step keeps trust explicit, in the rows and in the requests.
LEMMA TrustStep == TypeOK /\ TrustInv /\ [Next]_vars => TrustInv'
<1> SUFFICES ASSUME TypeOK, TrustInv, [Next]_vars PROVE TrustInv'
  OBVIOUS
<1> USE Defaults
    DEF TypeOK, Trust, Materials, Storing, Dropping, Stage, Message, TrustInv,
        TrustIsExplicit, CarriedIsVouched, SentToVouched,
        devices, rows, requests, word, fate, Goto, About, SameSubject
<1>1. ASSUME NEW r \in Request, Begin(r) PROVE TrustInv'
  <2>1. ASSUME NEW d \in Device, NEW m \in Material, Discover(r, d, m) PROVE TrustInv'
    BY <2>1 DEF Discover
  <2>2. ASSUME NEW d \in Device, NEW m \in Material, OwnerTrusts(r, d, m) PROVE TrustInv'
    BY <2>2 DEF OwnerTrusts
  <2>3. ASSUME NEW k \in Message, BeginSend(r, k) PROVE TrustInv'
    BY <2>3 DEF BeginSend
  <2>4. ASSUME NEW k \in Message, Receive(r, k) PROVE TrustInv'
    BY <2>4, E2eeAssumption DEF Receive
  <2>5. ASSUME NEW k \in Message, BeginDelete(r, k) PROVE TrustInv'
    BY <2>5 DEF BeginDelete
  <2>6. QED BY <1>1, <2>1, <2>2, <2>3, <2>4, <2>5 DEF Begin
<1>2. ASSUME NEW r \in Request, Continue(r) PROVE TrustInv'
  <2>1. CASE ReadPeer(r)
    <3>1. effect'[r] = "trusted" /\ wanted[r] # "trusted" =>
            trust[device[r]] = "trusted" /\ material[device[r]] = fresh[r]
      BY <2>1 DEF ReadPeer, TrustAfterUpdate
    <3>2. QED BY <2>1, <3>1 DEF ReadPeer
  <2>2. CASE WritePeer(r)
    <3>1. <<device[r], fresh[r]>> \in vouched' \ withdrawn' \/ effect[r] # "trusted"
      BY <2>2 DEF WritePeer
    <3>2. vouched \subseteq vouched' /\ withdrawn' \subseteq withdrawn
      BY <2>2 DEF WritePeer
    <3>3. TrustIsExplicit'
      BY <2>2, <3>1, <3>2 DEF WritePeer
    <3>4. CarriedIsVouched' /\ SentToVouched'
      BY <2>2, <3>2 DEF WritePeer, Done
    <3>5. QED BY <3>3, <3>4
  <2>3. ASSUME NEW d \in Device, CheckPeer(r, d) PROVE TrustInv'
    BY <2>3 DEF CheckPeer
  <2>4. CASE OpenConversation(r) BY <2>4 DEF OpenConversation
  <2>5. CASE InsertMessage(r) BY <2>5 DEF InsertMessage
  <2>6. CASE InsertMetadata(r) BY <2>6 DEF InsertMetadata, Done
  <2>7. CASE InsertDelivery(r) BY <2>7 DEF InsertDelivery, Done
  <2>8. CASE DropMetadata(r) BY <2>8 DEF DropMetadata
  <2>9. CASE DropMessage(r) BY <2>9 DEF DropMessage
  <2>10. CASE DropDeliveries(r) BY <2>10 DEF DropDeliveries
  <2>11. CASE LookRemaining(r) BY <2>11 DEF LookRemaining, Done
  <2>12. CASE Sweep(r) BY <2>12 DEF Sweep, Done
  <2>13. CASE Abort(r) BY <2>13 DEF Abort, Done
  <2>14. QED BY <1>2, <2>1, <2>2, <2>3, <2>4, <2>5, <2>6, <2>7, <2>8, <2>9, <2>10,
               <2>11, <2>12, <2>13 DEF Continue
<1>3. ASSUME NEW d \in Device, RevokePeer(d) PROVE TrustInv'
  <2>1. TrustIsExplicit'
    BY <1>3 DEF RevokePeer
  <2>2. ASSUME NEW q \in Request, stage[q] = "write", effect[q] = "trusted",
               wanted[q] # "trusted"
        PROVE  <<device[q], fresh[q]>> \in vouched \ withdrawn'
    <3>1. CASE device[q] = d
      BY <1>3, <2>2, <3>1 DEF RevokePeer, InFlight
    <3>2. CASE device[q] # d
      BY <1>3, <2>2, <3>2 DEF RevokePeer
    <3>3. QED BY <3>1, <3>2
  <2>3. CarriedIsVouched' /\ SentToVouched'
    BY <1>3, <2>2 DEF RevokePeer
  <2>4. QED BY <2>1, <2>3
<1>4. CASE RegisterSender \/ RevokeSender
  BY <1>4 DEF RegisterSender, RevokeSender
<1>5. CASE UNCHANGED vars BY <1>5 DEF vars
<1>6. QED BY <1>1, <1>2, <1>3, <1>4, <1>5 DEF Next

\* Whatever the peer publishes and however discoveries overlap with the
\* owner's word, a device is trusted only for material the owner vouched for
\* and has not revoked since, unless a discovery carried it over the revocation.
THEOREM TrustIsTheOwners == Spec => []TrustIsExplicit
<1>1. Init => TrustInv
  BY DEF Init, TrustInv, TrustIsExplicit, CarriedIsVouched, SentToVouched, Storing
<1>2. TrustInv => TrustIsExplicit
  BY DEF TrustInv
<1>3. QED BY <1>1, <1>2, TrustStep, E2eeTypeCorrect, PTL DEF Spec

\* A message that leaves was let through by material the owner had vouched for.
THEOREM SentToWhomTheOwnerKnows == Spec => []SentToVouched
<1>1. Init => TrustInv
  BY DEF Init, TrustInv, TrustIsExplicit, CarriedIsVouched, SentToVouched, Storing
<1>2. TrustInv => SentToVouched
  BY DEF TrustInv
<1>3. QED BY <1>1, <1>2, TrustStep, E2eeTypeCorrect, PTL DEF Spec

-----------------------------------------------------------------------------
(* The rows of the conversation.  What the deletion and the storing of a    *)
(* message rely on is that, unless `disturbed` says otherwise, they do not  *)
(* meet: that is what has to be carried from step to step.                  *)

Deleting == Dropping \cup {"remaining", "sweep"}

\* A message of the owner that anything is about has been given its id.
IdsAreUsed ==
  /\ \A k \in Own : k \in messages \cup deleted => k \in used
  /\ \A r \in Request : stage[r] \in Storing \cup Deleting /\ message[r] \in Own =>
       message[r] \in used

\* Once a deletion has found the conversation empty, whatever is stored is
\* disturbed by it.
SweepTakesDisturbed ==
  \A r \in Request : stage[r] = "sweep" => messages \subseteq disturbed

\* How far a deletion has come, with nobody storing the message meanwhile.
DroppingAlone ==
  \A r \in Request : stage[r] \in Dropping /\ message[r] \notin disturbed =>
    /\ ~Busy(message[r], Storing)
    /\ message[r] \notin kept
    /\ stage[r] # "drop_metadata" => message[r] \notin metadata
    /\ stage[r] = "drop_deliveries" => message[r] \notin messages

\* A request about to write a message's other rows has stored the message.
StoredFirst ==
  \A r \in Request : stage[r] \in {"metadata", "deliver"} =>
    message[r] \in messages \cup disturbed

\* Nobody is storing a message that is deleted.
DeletedAtRest == \A k \in deleted \ disturbed : ~Busy(k, Storing)

RowsInv ==
  /\ IdsAreUsed /\ SweepTakesDisturbed /\ DroppingAlone /\ StoredFirst
  /\ DeletedAtRest /\ DeletedIsGone /\ DeletionTakesNoOther /\ DeliveriesHaveMessages

\* Every step keeps the rows in order.
LEMMA RowsStep == TypeOK /\ RowsInv /\ [Next]_vars => RowsInv'
<1> SUFFICES ASSUME TypeOK, RowsInv, [Next]_vars PROVE RowsInv'
  OBVIOUS
<1> USE E2eeAssumption, Defaults
    DEF TypeOK, Trust, Materials, Storing, Dropping, Deleting, Stage, Message, Busy,
        RowsInv, IdsAreUsed, SweepTakesDisturbed, DroppingAlone, StoredFirst,
        DeletedAtRest, DeletedIsGone, DeletionTakesNoOther, DeliveriesHaveMessages,
        devices, rows, requests, word, fate, Goto, About, SameSubject
<1>1. ASSUME NEW r \in Request, Begin(r) PROVE RowsInv'
  <2>1. ASSUME NEW d \in Device, NEW m \in Material, Discover(r, d, m) PROVE RowsInv'
    BY <2>1 DEF Discover
  <2>2. ASSUME NEW d \in Device, NEW m \in Material, OwnerTrusts(r, d, m) PROVE RowsInv'
    BY <2>2 DEF OwnerTrusts
  <2>3. ASSUME NEW k \in Message, BeginSend(r, k) PROVE RowsInv'
    BY <2>3 DEF BeginSend
  <2>4. ASSUME NEW k \in Message, Receive(r, k) PROVE RowsInv'
    BY <2>4 DEF Receive
  <2>5. ASSUME NEW k \in Message, BeginDelete(r, k) PROVE RowsInv'
    BY <2>5 DEF BeginDelete
  <2>6. QED BY <1>1, <2>1, <2>2, <2>3, <2>4, <2>5 DEF Begin
<1>2. ASSUME NEW r \in Request, Continue(r) PROVE RowsInv'
  <2>1. CASE ReadPeer(r) BY <2>1 DEF ReadPeer
  <2>2. CASE WritePeer(r) BY <2>2 DEF WritePeer, Done
  <2>3. ASSUME NEW d \in Device, CheckPeer(r, d) PROVE RowsInv'
    BY <2>3 DEF CheckPeer
  <2>4. CASE OpenConversation(r) BY <2>4 DEF OpenConversation
  <2>5. CASE InsertMessage(r) BY <2>5 DEF InsertMessage
  <2>6. CASE InsertMetadata(r) BY <2>6 DEF InsertMetadata, Done
  <2>7. CASE InsertDelivery(r) BY <2>7 DEF InsertDelivery, Done
  <2>8. CASE DropMetadata(r) BY <2>8 DEF DropMetadata
  <2>9. CASE DropMessage(r) BY <2>9 DEF DropMessage
  <2>10. CASE DropDeliveries(r) BY <2>10 DEF DropDeliveries
  <2>11. CASE LookRemaining(r) BY <2>11 DEF LookRemaining, Done
  <2>12. CASE Sweep(r) BY <2>12 DEF Sweep, Done
  <2>13. CASE Abort(r) BY <2>13 DEF Abort, Done
  <2>14. QED BY <1>2, <2>1, <2>2, <2>3, <2>4, <2>5, <2>6, <2>7, <2>8, <2>9, <2>10,
               <2>11, <2>12, <2>13 DEF Continue
<1>3. ASSUME NEW d \in Device, RevokePeer(d) PROVE RowsInv'
  BY <1>3 DEF RevokePeer
<1>4. CASE RegisterSender \/ RevokeSender
  BY <1>4 DEF RegisterSender, RevokeSender
<1>5. CASE UNCHANGED vars BY <1>5 DEF vars
<1>6. QED BY <1>1, <1>2, <1>3, <1>4, <1>5 DEF Next

\* The rows are in order at the start.
LEMMA RowsInit == Init => RowsInv
BY DEF Init, RowsInv, IdsAreUsed, SweepTakesDisturbed, DroppingAlone, StoredFirst,
       DeletedAtRest, DeletedIsGone, DeletionTakesNoOther, DeliveriesHaveMessages,
       Storing, Dropping, Deleting, Busy

\* A deleted message leaves no row behind, for any number of overlapping
\* requests about other messages.
THEOREM DeletionIsComplete == Spec => []DeletedIsGone
<1>1. RowsInv => DeletedIsGone
  BY DEF RowsInv
<1>2. QED BY <1>1, RowsInit, RowsStep, E2eeTypeCorrect, PTL DEF Spec

\* No message goes but by its own deletion, or by a sweep it was stored into.
THEOREM OthersAreKept == Spec => []DeletionTakesNoOther
<1>1. RowsInv => DeletionTakesNoOther
  BY DEF RowsInv
<1>2. QED BY <1>1, RowsInit, RowsStep, E2eeTypeCorrect, PTL DEF Spec

\* What is to be delivered is in the owner's copy of the conversation.
THEOREM DeliveredIsStored == Spec => []DeliveriesHaveMessages
<1>1. RowsInv => DeliveriesHaveMessages
  BY DEF RowsInv
<1>2. QED BY <1>1, RowsInit, RowsStep, E2eeTypeCorrect, PTL DEF Spec

-----------------------------------------------------------------------------
(* The files: their types, that no key seals two messages that left the    *)
(* machine, and that no message that could be read is stranded.            *)

SenderState ==
  [at : {"idle", "save", "post"}, message : SUBSET MlsMessage, group : Groups]
ReaderState ==
  [at : {"idle", "save", "cache"}, goesOn : BOOLEAN, message : SUBSET MlsMessage,
   group : Groups]
Envelopes == [of : Nat, key : Nat, welcome : Nat]

\* A group file is typed whoever makes one: new, sealed with, or given a number.
LEMMA GroupTypes ==
  /\ NoGroup \in Groups
  /\ \A g \in Groups : Sealed(g) \in Groups
  /\ \A i \in Nat : [NoGroup EXCEPT !.of = i] \in Groups
BY DEF NoGroup, Groups, Sealed

\* A group stays one when a message is read with it.
LEMMA WithoutTypes ==
  ASSUME MlsTypeOK, NEW g \in Groups, NEW m \in MlsMessage
  PROVE  Without(g, m) \in Groups
<1> DEFINE k == envelope[m].key
           n == IF k >= g.next THEN k + 1 ELSE g.next
           u == g.used \cup {k}
<1>1. k \in Nat
  BY DEF MlsTypeOK
<1>2. n \in Nat /\ u \in SUBSET Nat
  BY <1>1 DEF Groups
<1>3. Without(g, m) = [g EXCEPT !.next = n, !.used = u]
  BY DEF Without
<1> HIDE DEF n, u
<1> QED
  BY <1>2, <1>3 DEF Groups

\* A welcome makes a group.
LEMMA JoinedByTypes ==
  ASSUME MlsTypeOK, NEW m \in MlsMessage
  PROVE  JoinedBy(m) \in Groups
<1>1. envelope[m].of \in Nat
  BY DEF MlsTypeOK
<1> QED
  BY <1>1, GroupTypes, WithoutTypes DEF JoinedBy

-----------------------------------------------------------------------------
(* Types.                                                                  *)

SendTypes ==
  /\ audience \in BOOLEAN
  /\ sent \in Groups
  /\ envelope \in [MlsMessage -> Envelopes]
  /\ posted \subseteq MlsMessage
  /\ senders \in [Sender -> SenderState]
  /\ incarnations \in Nat /\ raced \subseteq Nat

ReadTypes ==
  /\ joined \in Groups
  /\ stored \subseteq MlsMessage /\ cached \subseteq MlsMessage
  /\ readers \in [Reader -> ReaderState]

OtherTypes ==
  /\ initialising \in {"no", "force", "keep"}
  /\ private \in Nat /\ published \in Nat /\ trusted \in Nat
  /\ inits \in Nat /\ faults \in Nat
  /\ harmed \subseteq Nat

\* The types by what they are of: sending, reading and the rest.
LEMMA TypesInGroups ==
  /\ MlsTypeOK <=> SendTypes /\ ReadTypes /\ OtherTypes
  /\ MlsTypeOK' <=> SendTypes' /\ ReadTypes' /\ OtherTypes'
BY DEF MlsTypeOK, SendTypes, ReadTypes, OtherTypes, SenderState, ReaderState, Envelopes

\* Each file, message and client is typed: a reader never holds anything but a
\* group and a message.
THEOREM MlsTypeCorrect == MlsSpec => []MlsTypeOK
<1>1. MlsInit => MlsTypeOK
  <2> SUFFICES ASSUME MlsInit PROVE MlsTypeOK
    OBVIOUS
  <2>1. SendTypes
    BY GroupTypes DEF MlsInit, SendTypes, SenderState, Envelopes, IdleSender, NoEnvelope
  <2>2. ReadTypes
    BY GroupTypes DEF MlsInit, ReadTypes, ReaderState, IdleReader
  <2>3. OtherTypes
    BY DEF MlsInit, OtherTypes
  <2> QED
    BY <2>1, <2>2, <2>3, TypesInGroups
<1>2. MlsTypeOK /\ [MlsNext]_mlsVars => MlsTypeOK'
  <2> SUFFICES ASSUME MlsTypeOK, [MlsNext]_mlsVars PROVE MlsTypeOK'
    OBVIOUS
  <2> USE GroupTypes
  <2>0. SendTypes /\ ReadTypes /\ OtherTypes
    BY TypesInGroups
  <2>1. UNCHANGED mlsVars => MlsTypeOK'
    BY <2>0, TypesInGroups DEF mlsVars, sending, reading, keys, MlsTypeOK
  <2>2. ASSUME NEW s \in Sender, NEW m \in MlsMessage, Seal(s, m) PROVE MlsTypeOK'
    <3>1. Group \in Groups /\ Sealed(Group) \in Groups
      BY <2>0 DEF Group, SendTypes
    <3>2. [of |-> Group.of, key |-> Group.next, welcome |-> IF Continues THEN 0 ELSE trusted]
             \in Envelopes
      BY <2>0, <3>1 DEF OtherTypes, Groups, Envelopes
    <3>3. [at |-> "save", message |-> {m}, group |-> Sealed(Group)] \in SenderState
      BY <3>1 DEF SenderState
    <3>4. Group.of \in Nat /\ \A b \in AtWork : senders[b].group.of \in Nat
      BY <2>0, <3>1 DEF Groups, SendTypes, SenderState, AtWork
    <3>5. incarnations' \in Nat /\ raced' \subseteq Nat
      BY <2>0, <2>2, <3>4 DEF Seal, SendTypes
    <3>6. SendTypes'
      BY <2>0, <2>2, <3>2, <3>3, <3>5 DEF Seal, SendTypes
    <3>7. ReadTypes' /\ OtherTypes'
      BY <2>0, <2>2 DEF Seal, ReadTypes, OtherTypes, reading, keys
    <3> QED
      BY <3>6, <3>7, TypesInGroups
  <2>3. ASSUME NEW s \in Sender, SaveSent(s) PROVE MlsTypeOK'
    <3>1. senders[s].group \in Groups
      BY <2>0 DEF SendTypes, SenderState
    <3>2. SendTypes'
      BY <2>0, <2>3, <3>1 DEF SaveSent, SendTypes, SenderState
    <3>3. ReadTypes' /\ OtherTypes'
      BY <2>0, <2>3 DEF SaveSent, ReadTypes, OtherTypes, reading, keys
    <3> QED
      BY <3>2, <3>3, TypesInGroups
  <2>4. ASSUME NEW s \in Sender, Post(s) PROVE MlsTypeOK'
    <3>1. senders[s].message \in SUBSET MlsMessage /\ IdleSender \in SenderState
      BY <2>0 DEF SendTypes, SenderState, IdleSender
    <3>2. SendTypes'
      BY <2>0, <2>4, <3>1 DEF Post, SendTypes
    <3>3. ReadTypes' /\ OtherTypes'
      BY <2>0, <2>4 DEF Post, ReadTypes, OtherTypes, reading, keys
    <3> QED
      BY <3>2, <3>3, TypesInGroups
  <2>5. ASSUME NEW s \in Sender, FailSend(s) PROVE MlsTypeOK'
    <3>1. /\ senders[s].message \in SUBSET MlsMessage /\ senders[s].group.of \in Nat
          /\ IdleSender \in SenderState
      BY <2>0 DEF SendTypes, SenderState, IdleSender, Groups
    <3>2. sent' \in Groups /\ posted' \subseteq MlsMessage
      BY <2>0, <2>5, <3>1 DEF FailSend, SendTypes
    <3>3. SendTypes'
      BY <2>0, <2>5, <3>1, <3>2 DEF FailSend, SendTypes
    <3>4. ReadTypes' /\ OtherTypes'
      BY <2>0, <2>5, <3>1 DEF FailSend, Fault, ReadTypes, OtherTypes, reading, keys
    <3> QED
      BY <3>3, <3>4, TypesInGroups
  <2>6. ASSUME NEW m \in MlsMessage, Arrive(m) PROVE MlsTypeOK'
    BY <2>0, <2>6, TypesInGroups
    DEF Arrive, SendTypes, ReadTypes, OtherTypes, sending, reading, keys
  <2>7. ASSUME NEW r \in Reader, NEW c \in Client, NEW m \in MlsMessage, Open(r, c, m)
        PROVE  MlsTypeOK'
    <3>1. Without(joined, m) \in Groups /\ JoinedBy(m) \in Groups
      BY <2>0, WithoutTypes, JoinedByTypes DEF ReadTypes
    <3>2. /\ [at |-> "save", goesOn |-> c = "desk", message |-> {m},
              group |-> Without(joined, m)] \in ReaderState
          /\ [at |-> AfterJoin(c), goesOn |-> FALSE, message |-> {m},
              group |-> JoinedBy(m)] \in ReaderState
      BY <3>1 DEF ReaderState, AfterJoin
    <3>3. envelope[m].of \in Nat
      BY <2>0 DEF SendTypes, Envelopes
    <3>4. ReadTypes' /\ OtherTypes'
      BY <2>0, <2>7, <3>2, <3>3 DEF Open, ReadTypes, OtherTypes, keys
    <3>5. SendTypes'
      BY <2>0, <2>7 DEF Open, SendTypes, sending
    <3> QED
      BY <3>4, <3>5, TypesInGroups
  <2>8. ASSUME NEW r \in Reader, SaveJoined(r) PROVE MlsTypeOK'
    <3>1. readers[r].group \in Groups
      BY <2>0 DEF ReadTypes, ReaderState
    <3>2. ReadTypes'
      BY <2>0, <2>8, <3>1, ZenonT(60) DEF SaveJoined, ReadTypes, ReaderState
    <3>3. SendTypes' /\ OtherTypes'
      BY <2>0, <2>8 DEF SaveJoined, SendTypes, OtherTypes, sending, keys
    <3> QED
      BY <3>2, <3>3, TypesInGroups
  <2>9. ASSUME NEW r \in Reader, Cache(r) PROVE MlsTypeOK'
    <3>1. readers[r].message \in SUBSET MlsMessage /\ IdleReader \in ReaderState
      BY <2>0 DEF ReadTypes, ReaderState, IdleReader
    <3>2. ReadTypes'
      BY <2>0, <2>9, <3>1 DEF Cache, ReadTypes
    <3>3. SendTypes' /\ OtherTypes'
      BY <2>0, <2>9 DEF Cache, SendTypes, OtherTypes, sending, keys
    <3> QED
      BY <3>2, <3>3, TypesInGroups
  <2>10. ASSUME NEW r \in Reader, FailRead(r) PROVE MlsTypeOK'
    <3>1. /\ readers[r].group.of \in Nat /\ joined.of \in Nat
          /\ IdleReader \in ReaderState
      BY <2>0 DEF ReadTypes, ReaderState, IdleReader, Groups
    <3>2. joined' \in Groups
      BY <2>0, <2>10 DEF FailRead, ReadTypes
    <3>3. [readers[r] EXCEPT !.at = "cache", !.goesOn = FALSE, !.group = NoGroup]
             \in ReaderState
      BY <2>0 DEF ReadTypes, ReaderState
    <3>4. readers' \in [Reader -> ReaderState]
      BY <2>0, <2>10, <3>1, <3>3 DEF FailRead, ReadTypes, ReaderState
    <3>5. ReadTypes' /\ OtherTypes'
      BY <2>0, <2>10, <3>1, <3>2, <3>4 DEF FailRead, Fault, ReadTypes, OtherTypes, keys
    <3>6. SendTypes'
      BY <2>0, <2>10 DEF FailRead, SendTypes, sending
    <3> QED
      BY <3>5, <3>6, TypesInGroups
  <2>11. ASSUME NEW mode \in {"force", "keep"}, Publish(mode) PROVE MlsTypeOK'
    BY <2>0, <2>11, TypesInGroups
    DEF Publish, SendTypes, ReadTypes, OtherTypes, sending, reading
  <2>12. CASE SaveDevice \/ FailDevice \/ TrustPackage
    BY <2>0, <2>12, TypesInGroups
    DEF SaveDevice, FailDevice, TrustPackage, Fault, SendTypes, ReadTypes, OtherTypes,
        sending, reading
  <2> QED
    BY <2>1, <2>2, <2>3, <2>4, <2>5, <2>6, <2>7, <2>8, <2>9, <2>10, <2>11, <2>12
    DEF MlsNext
<1> QED
  BY <1>1, <1>2, PTL DEF MlsSpec

-----------------------------------------------------------------------------
(* Keys.  A sender alone with its incarnation holds a message sealed with  *)
(* the key before its group's next one, and whatever has left was sealed   *)
(* with an earlier key.                                                    *)

Alone(s) == \A t \in AtWork : t = s

\* What a busy sender has sealed is its own, has not left, and counts.
HeldInv ==
  /\ \A s \in AtWork : \A k \in senders[s].message :
       /\ envelope[k].of = senders[s].group.of
       /\ envelope[k].key < senders[s].group.next
       /\ k \notin posted
       /\ \A l \in senders[s].message : l = k
  /\ \A s \in AtWork : senders[s].message # {}
  /\ \A s, t \in AtWork : \A k \in senders[s].message :
       k \in senders[t].message => s = t
  /\ \A s \in AtWork : senders[s].group.of \in 1 .. incarnations
  /\ \A s \in AtWork : senders[s].group.of \notin raced => Alone(s)

\* An incarnation is numbered before anything is sealed in it.
NumberInv ==
  /\ sent.of \in 0 .. incarnations
  /\ \A m \in posted : envelope[m].of \in 1 .. incarnations
  /\ \A s \in AtWork : \A k \in senders[s].message : envelope[k].of # 0
  /\ sent # NoGroup => sent.of # 0

\* The file is ahead of every key that has left, and of the one about to.
FileInv ==
  /\ \A m \in posted :
       envelope[m].of \notin raced /\ sent.of = envelope[m].of
       => envelope[m].key < sent.next
  /\ \A s \in AtWork :
       /\ senders[s].at = "post"
       /\ senders[s].group.of \notin raced
       /\ sent.of = senders[s].group.of
       => sent.next = senders[s].group.next

\* What is about to leave has a key later than all that left.
AheadInv ==
  \A s \in AtWork : \A k \in senders[s].message, m \in posted :
    /\ envelope[m].of = envelope[k].of
    /\ envelope[m].of \notin raced
    => envelope[m].key < envelope[k].key

KeyInv == HeldInv /\ NumberInv /\ FileInv /\ AheadInv /\ KeysAreFresh

\* Nothing is sealed yet.
LEMMA KeyInvInit == MlsInit => KeyInv
BY DEF MlsInit, KeyInv, HeldInv, NumberInv, FileInv, AheadInv, KeysAreFresh, AtWork, IdleSender,
   NoGroup

\* Reading and the recipient's device do not touch the keys.
LEMMA KeyInvStutters == KeyInv /\ UNCHANGED sending => KeyInv'
BY DEF KeyInv, HeldInv, NumberInv, FileInv, AheadInv, KeysAreFresh, AtWork, Alone, sending

\* Sealing takes a key later than all that left, unless another sender is at it.
LEMMA SealKeeps ==
  ASSUME MlsTypeOK, KeyInv, NEW s \in Sender, NEW m \in MlsMessage, Seal(s, m)
  PROVE  KeyInv'
<1> DEFINE g == Group
<1>1. SendTypes
  BY TypesInGroups
<1>2. /\ g \in Groups /\ g.of \in Nat /\ g.next \in Nat
      /\ incarnations \in Nat /\ incarnations' \in Nat
      /\ incarnations <= incarnations'
  <2>1. g \in Groups
    BY <1>1, GroupTypes DEF Group, SendTypes
  <2> QED
    BY <1>1, <2>1 DEF Seal, SendTypes, Groups
<1>3. /\ g.of \in 1 .. incarnations'
      /\ g = sent \/ g.of \notin 1 .. incarnations
  <2>1. CASE Continues
    BY <1>1, <1>2, <2>1 DEF Seal, Group, Continues, KeyInv, NumberInv, SendTypes, Groups
  <2>2. CASE ~Continues
    <3>1. g.of = incarnations + 1
      BY <2>2, <1>1 DEF Group, NoGroup
    <3> QED
      BY <1>1, <2>2, <3>1 DEF Seal, SendTypes
  <2> QED
    BY <2>1, <2>2
<1>4. /\ envelope'[m].of = g.of /\ envelope'[m].key = g.next
      /\ \A k \in MlsMessage : k # m => envelope'[k] = envelope[k]
      /\ envelope[m].of = 0
  BY <1>1 DEF Seal, SendTypes, NoEnvelope
<1>5. /\ senders'[s].at = "save" /\ senders'[s].message = {m}
      /\ senders'[s].group.of = g.of /\ senders'[s].group.next = g.next + 1
      /\ \A t \in Sender : t # s => senders'[t] = senders[t]
      /\ senders[s].at = "idle"
  <2>1. Sealed(g).of = g.of /\ Sealed(g).next = g.next + 1
    BY <1>2 DEF Sealed, Groups
  <2> QED
    BY <1>1, <2>1 DEF Seal, SendTypes
<1>6. AtWork' = AtWork \cup {s} /\ s \notin AtWork
  BY <1>5 DEF AtWork
<1>7. /\ m \notin posted
      /\ \A t \in AtWork : m \notin senders[t].message
  BY <1>4 DEF KeyInv, NumberInv
<1>8. /\ raced \subseteq raced'
      /\ AtWork # {} => g.of \in raced'
      /\ \A t \in AtWork : senders[t].group.of \in raced'
  BY DEF Seal
<1>9. posted' = posted /\ sent' = sent
  BY DEF Seal
<1>10. \A t \in AtWork : senders[t].message \subseteq MlsMessage
  BY <1>1 DEF SendTypes, SenderState, AtWork
<1>11. posted \subseteq MlsMessage
  BY <1>1 DEF SendTypes
<1>a. HeldInv'
  <2>1. ASSUME NEW t \in AtWork', NEW k \in senders'[t].message
        PROVE  /\ envelope'[k].of = senders'[t].group.of
               /\ envelope'[k].key < senders'[t].group.next
               /\ k \notin posted'
               /\ \A l \in senders'[t].message : l = k
    <3>1. CASE t = s
      BY <2>1, <3>1, <1>2, <1>4, <1>5, <1>7, <1>9
    <3>2. CASE t # s
      BY <2>1, <3>2, <1>4, <1>5, <1>6, <1>7, <1>9, <1>10 DEF KeyInv, HeldInv, AtWork
    <3> QED
      BY <3>1, <3>2
  <2>2. ASSUME NEW t \in AtWork', NEW u \in AtWork', NEW k \in senders'[t].message,
               k \in senders'[u].message
        PROVE  t = u
    BY <2>2, <1>5, <1>6, <1>7 DEF KeyInv, HeldInv, AtWork
  <2>3. ASSUME NEW t \in AtWork'
        PROVE  senders'[t].group.of \in 1 .. incarnations'
    BY <2>3, <1>2, <1>3, <1>5, <1>6 DEF KeyInv, HeldInv, AtWork
  <2>4. ASSUME NEW t \in AtWork', senders'[t].group.of \notin raced'
        PROVE  Alone(t)'
    BY <2>4, <1>5, <1>6, <1>8 DEF Alone, AtWork
  <2>5. \A t \in AtWork' : senders'[t].message # {}
    BY <1>5, <1>6 DEF KeyInv, HeldInv, AtWork
  <2> QED
    BY <2>1, <2>2, <2>3, <2>4, <2>5 DEF HeldInv
<1>b. NumberInv'
  <2>1. sent'.of \in 0 .. incarnations' /\ (sent' # NoGroup => sent'.of # 0)
    BY <1>2, <1>9 DEF KeyInv, NumberInv
  <2>2. ASSUME NEW n \in posted' PROVE envelope'[n].of \in 1 .. incarnations'
    BY <2>2, <1>2, <1>4, <1>7, <1>9, <1>11 DEF KeyInv, NumberInv
  <2>3. ASSUME NEW t \in AtWork', NEW k \in senders'[t].message PROVE envelope'[k].of # 0
    <3>1. CASE t = s
      BY <2>3, <3>1, <1>3, <1>4, <1>5
    <3>2. CASE t # s
      BY <2>3, <3>2, <1>4, <1>5, <1>6, <1>7, <1>10 DEF KeyInv, NumberInv, AtWork
    <3> QED
      BY <3>1, <3>2
  <2> QED
    BY <2>1, <2>2, <2>3 DEF NumberInv
<1>c. FileInv'
  <2>1. ASSUME NEW n \in posted', envelope'[n].of \notin raced', sent'.of = envelope'[n].of
        PROVE  envelope'[n].key < sent'.next
    BY <2>1, <1>4, <1>7, <1>8, <1>9, <1>11 DEF KeyInv, FileInv
  <2>2. ASSUME NEW t \in AtWork', senders'[t].at = "post", senders'[t].group.of \notin raced',
               sent'.of = senders'[t].group.of
        PROVE  sent'.next = senders'[t].group.next
    BY <2>2, <1>5, <1>6, <1>8 DEF AtWork
  <2> QED
    BY <2>1, <2>2 DEF FileInv
<1>d. AheadInv'
  <2> SUFFICES ASSUME NEW t \in AtWork', NEW k \in senders'[t].message, NEW n \in posted',
                      envelope'[n].of = envelope'[k].of, envelope'[n].of \notin raced'
               PROVE  envelope'[n].key < envelope'[k].key
    BY DEF AheadInv
  <2>1. n # m /\ n \in posted /\ envelope'[n] = envelope[n] /\ n \in MlsMessage
    BY <1>4, <1>7, <1>9, <1>11
  <2>2. CASE t = s
    <3>1. envelope'[k].of = g.of /\ envelope'[k].key = g.next
      BY <2>2, <1>4, <1>5
    <3>2. envelope[n].of \in 1 .. incarnations
      BY <2>1 DEF KeyInv, NumberInv
    <3>3. g = sent
      BY <1>3, <2>1, <3>1, <3>2
    <3> QED
      BY <1>8, <2>1, <3>1, <3>3 DEF KeyInv, FileInv
  <2>3. CASE t # s
    BY <2>1, <2>3, <1>4, <1>5, <1>6, <1>7, <1>8, <1>10 DEF KeyInv, AheadInv, HeldInv, AtWork
  <2> QED
    BY <2>2, <2>3
<1>e. KeysAreFresh'
  <2> SUFFICES ASSUME NEW x \in posted', NEW y \in posted', x # y,
                      envelope'[x].of = envelope'[y].of, envelope'[x].of \notin raced'
               PROVE  envelope'[x].key # envelope'[y].key
    BY DEF KeysAreFresh
  <2> QED
    BY <1>4, <1>7, <1>8, <1>9, <1>11 DEF KeyInv, KeysAreFresh
<1> QED
  BY <1>a, <1>b, <1>c, <1>d, <1>e DEF KeyInv

\* Writing the group brings the file to the sender's key.
LEMMA SaveSentKeeps ==
  ASSUME MlsTypeOK, KeyInv, NEW s \in Sender, SaveSent(s)
  PROVE  KeyInv'
<1> DEFINE g == senders[s].group
<1>1. SendTypes
  BY TypesInGroups
<1>2. /\ sent' = g /\ g \in Groups
      /\ UNCHANGED <<envelope, posted, incarnations, raced>>
  BY <1>1 DEF SaveSent, SendTypes, SenderState
<1>3. ASSUME NEW t \in Sender
      PROVE  /\ senders'[t].message = senders[t].message
             /\ senders'[t].group = senders[t].group
             /\ senders'[t].at # "idle" <=> senders[t].at # "idle"
  BY <1>1 DEF SaveSent, SendTypes, SenderState
<1>4. senders'[s].at = "post" /\ senders[s].at = "save"
  BY <1>1 DEF SaveSent, SendTypes, SenderState
<1>5. AtWork' = AtWork /\ s \in AtWork
  BY <1>3, <1>4 DEF AtWork
<1>6. g.of \in 1 .. incarnations /\ (g.of \notin raced => Alone(s))
  BY <1>5 DEF KeyInv, HeldInv
<1>7. AtWork \subseteq Sender
  BY DEF AtWork
<1>8. \A t \in AtWork' : /\ t \in AtWork
                        /\ senders'[t].message = senders[t].message
                        /\ senders'[t].group = senders[t].group
  BY <1>3, <1>5, <1>7
<1>a. HeldInv'
  <2>1. ASSUME NEW t \in AtWork', NEW k \in senders'[t].message
        PROVE  /\ envelope'[k].of = senders'[t].group.of
               /\ envelope'[k].key < senders'[t].group.next
               /\ k \notin posted'
               /\ \A l \in senders'[t].message : l = k
    BY <2>1, <1>2, <1>8 DEF KeyInv, HeldInv
  <2>2. \A t, u \in AtWork' : \A k \in senders'[t].message :
          k \in senders'[u].message => t = u
    BY <1>8 DEF KeyInv, HeldInv
  <2>3. \A t \in AtWork' : /\ senders'[t].group.of \in 1 .. incarnations'
                          /\ senders'[t].message # {}
    BY <1>2, <1>8 DEF KeyInv, HeldInv
  <2>4. \A t \in AtWork' : senders'[t].group.of \notin raced' => Alone(t)'
    BY <1>2, <1>5, <1>8 DEF KeyInv, HeldInv, Alone
  <2> QED
    BY <2>1, <2>2, <2>3, <2>4 DEF HeldInv
<1>b. NumberInv'
  <2>1. sent'.of \in 0 .. incarnations' /\ sent'.of # 0
    BY <1>1, <1>2, <1>6 DEF SendTypes
  <2> QED
    BY <2>1, <1>2, <1>8 DEF KeyInv, NumberInv
<1>c. FileInv'
  <2>1. ASSUME NEW n \in posted, envelope[n].of \notin raced, g.of = envelope[n].of
        PROVE  envelope[n].key < g.next
    <3>1. PICK k \in senders[s].message : TRUE
      BY <1>1, <1>4, <1>5 DEF KeyInv, HeldInv
    <3>2. /\ envelope[k].of = g.of /\ envelope[k].key < g.next
          /\ envelope[n].key < envelope[k].key
      BY <2>1, <3>1, <1>5 DEF KeyInv, HeldInv, AheadInv
    <3>3. /\ envelope[n].key \in Nat /\ envelope[k].key \in Nat /\ g.next \in Nat
      BY <1>1, <1>2, <2>1, <3>1, <1>7 DEF SendTypes, SenderState, Envelopes, Groups
    <3> QED
      BY <3>2, <3>3
  <2>2. ASSUME NEW t \in AtWork, t # s, g.of = senders[t].group.of
        PROVE  senders[t].group.of \in raced
    <3>1. Alone(s) => t = s
      BY <2>2 DEF Alone
    <3> QED
      BY <2>2, <3>1, <1>6
  <2>3. ASSUME NEW t \in AtWork', senders'[t].group.of \notin raced',
               sent'.of = senders'[t].group.of
        PROVE  sent'.next = senders'[t].group.next
    BY <2>2, <2>3, <1>2, <1>8
  <2> QED
    BY <2>1, <2>3, <1>2 DEF FileInv
<1>d. AheadInv'
  BY <1>2, <1>8 DEF KeyInv, AheadInv
<1>e. KeysAreFresh'
  BY <1>2 DEF KeyInv, KeysAreFresh
<1> QED
  BY <1>a, <1>b, <1>c, <1>d, <1>e DEF KeyInv

\* A sender is done, and its message has left or not; if it is not done saving,
\* the file may be spoilt, and nothing has left.
Leaves(s) ==
  /\ s \in AtWork
  /\ senders' = [senders EXCEPT ![s] = IdleSender]
  /\ UNCHANGED <<envelope, incarnations, raced>>
  /\ \/ /\ senders[s].at = "post"
        /\ posted' \in {posted, posted \cup senders[s].message}
        /\ sent' = sent
     \/ posted' = posted /\ sent' \in {sent, NoGroup}

\* A send that comes to an end, well or not, leaves.
LEMMA LeavesOf ==
  ASSUME NEW s \in Sender, Post(s) \/ FailSend(s)
  PROVE  Leaves(s)
<1>1. CASE Post(s)
  BY <1>1 DEF Post, Leaves, AtWork, reading, keys
<1>2. CASE FailSend(s)
  BY <1>2 DEF FailSend, Leaves, AtWork, reading, keys
<1> QED
  BY <1>1, <1>2

\* What leaves has a key that the file is ahead of.
LEMMA LeavesKeeps ==
  ASSUME MlsTypeOK, KeyInv, NEW s \in Sender, Leaves(s)
  PROVE  KeyInv'
<1> DEFINE g == senders[s].group
<1>1. SendTypes
  BY TypesInGroups
<1>2. UNCHANGED <<envelope, incarnations, raced>> /\ s \in AtWork
  BY DEF Leaves
<1>3. /\ senders'[s].at = "idle"
      /\ \A t \in Sender : t # s => senders'[t] = senders[t]
  BY <1>1 DEF Leaves, SendTypes, IdleSender
<1>4. AtWork' = AtWork \ {s}
  BY <1>3 DEF AtWork
<1>5. \A t \in AtWork' : t \in AtWork /\ t # s /\ senders'[t] = senders[t]
  BY <1>3, <1>4 DEF AtWork
<1>6. /\ posted \subseteq posted'
      /\ \A n \in posted' \ posted : n \in senders[s].message /\ senders[s].at = "post"
      /\ posted' # posted => sent' = sent
      /\ sent' \in {sent, NoGroup}
  BY DEF Leaves
<1>7. \A n \in posted' : n \in MlsMessage
  BY <1>1, <1>6 DEF SendTypes, SenderState
<1>8. \A n \in posted' \ posted :
        /\ envelope[n].of = g.of /\ envelope[n].key < g.next
        /\ \A l \in posted' \ posted : l = n
  BY <1>2, <1>6 DEF KeyInv, HeldInv
<1>9. NoGroup.of = 0
  BY DEF NoGroup
<1>a. HeldInv'
  <2>1. ASSUME NEW t \in AtWork', NEW k \in senders'[t].message
        PROVE  /\ envelope'[k].of = senders'[t].group.of
               /\ envelope'[k].key < senders'[t].group.next
               /\ k \notin posted'
               /\ \A l \in senders'[t].message : l = k
    BY <2>1, <1>2, <1>5, <1>6 DEF KeyInv, HeldInv
  <2>2. \A t, u \in AtWork' : \A k \in senders'[t].message :
          k \in senders'[u].message => t = u
    BY <1>5 DEF KeyInv, HeldInv
  <2>3. \A t \in AtWork' : senders'[t].group.of \in 1 .. incarnations'
    BY <1>2, <1>5 DEF KeyInv, HeldInv
  <2>4. \A t \in AtWork' : senders'[t].group.of \notin raced' => Alone(t)'
    BY <1>2, <1>5 DEF KeyInv, HeldInv, Alone
  <2>5. \A t \in AtWork' : senders'[t].message # {}
    BY <1>5 DEF KeyInv, HeldInv
  <2> QED
    BY <2>1, <2>2, <2>3, <2>4, <2>5 DEF HeldInv
<1>b. NumberInv'
  <2>1. sent'.of \in 0 .. incarnations' /\ (sent' # NoGroup => sent'.of # 0)
    BY <1>1, <1>2, <1>6, <1>9 DEF KeyInv, NumberInv, SendTypes
  <2>2. ASSUME NEW n \in posted' PROVE envelope'[n].of \in 1 .. incarnations'
    <3>1. CASE n \in posted
      BY <3>1, <1>2 DEF KeyInv, NumberInv
    <3>2. CASE n \notin posted
      BY <2>2, <3>2, <1>2, <1>8 DEF KeyInv, HeldInv
    <3> QED
      BY <3>1, <3>2
  <2>3. \A t \in AtWork' : \A k \in senders'[t].message : envelope'[k].of # 0
    BY <1>2, <1>5 DEF KeyInv, NumberInv
  <2> QED
    BY <2>1, <2>2, <2>3 DEF NumberInv
<1>c. FileInv'
  <2>1. ASSUME NEW n \in posted', envelope[n].of \notin raced, sent'.of = envelope[n].of
        PROVE  envelope[n].key < sent'.next
    <3>1. sent' = sent
      BY <2>1, <1>6, <1>8, <1>9 DEF KeyInv, NumberInv
    <3>2. CASE n \in posted
      BY <2>1, <3>1, <3>2 DEF KeyInv, FileInv
    <3>3. CASE n \notin posted
      BY <2>1, <3>1, <3>3, <1>2, <1>6, <1>8 DEF KeyInv, FileInv
    <3> QED
      BY <3>2, <3>3
  <2>2. ASSUME NEW t \in AtWork', senders'[t].at = "post", senders'[t].group.of \notin raced,
               sent'.of = senders'[t].group.of
        PROVE  sent'.next = senders'[t].group.next
    BY <2>2, <1>2, <1>5 DEF KeyInv, HeldInv, Alone
  <2> QED
    BY <2>1, <2>2, <1>2 DEF FileInv
<1>d. AheadInv'
  <2> SUFFICES ASSUME NEW t \in AtWork', NEW k \in senders'[t].message, NEW n \in posted',
                      envelope[n].of = envelope[k].of, envelope[n].of \notin raced
               PROVE  envelope[n].key < envelope[k].key
    BY <1>2 DEF AheadInv
  <2>1. t \in AtWork /\ t # s /\ k \in senders[t].message
    BY <1>5
  <2>2. senders[t].group.of \notin raced
    BY <2>1 DEF KeyInv, HeldInv
  <2> QED
    BY <2>1, <2>2, <1>2 DEF KeyInv, HeldInv, Alone
<1>e. KeysAreFresh'
  <2> SUFFICES ASSUME NEW x \in posted', NEW y \in posted', x # y,
                      envelope[x].of = envelope[y].of, envelope[x].of \notin raced
               PROVE  envelope[x].key # envelope[y].key
    BY <1>2 DEF KeysAreFresh
  <2>1. ASSUME NEW n \in posted, NEW k \in posted' \ posted,
               envelope[n].of = envelope[k].of, envelope[n].of \notin raced
        PROVE  envelope[n].key # envelope[k].key
    <3>1. envelope[n].key < envelope[k].key
      BY <2>1, <1>2, <1>6 DEF KeyInv, AheadInv
    <3>2. envelope[n].key \in Nat /\ envelope[k].key \in Nat
      BY <1>1, <1>7, <2>1, <1>6 DEF SendTypes, Envelopes
    <3> QED
      BY <3>1, <3>2
  <2>2. CASE x \in posted /\ y \in posted
    BY <2>2 DEF KeyInv, KeysAreFresh
  <2>3. CASE x \notin posted /\ y \notin posted
    BY <2>3, <1>8
  <2> QED
    BY <2>1, <2>2, <2>3
<1> QED
  BY <1>a, <1>b, <1>c, <1>d, <1>e DEF KeyInv

\* So after every step.
LEMMA KeyInvStep == MlsTypeOK /\ KeyInv /\ [MlsNext]_mlsVars => KeyInv'
<1> SUFFICES ASSUME MlsTypeOK, KeyInv, [MlsNext]_mlsVars PROVE KeyInv'
  OBVIOUS
<1>1. CASE \E s \in Sender : \/ \E m \in MlsMessage : Seal(s, m)
                            \/ SaveSent(s) \/ Post(s) \/ FailSend(s)
  BY <1>1, SealKeeps, SaveSentKeeps, LeavesOf, LeavesKeeps
<1>2. CASE UNCHANGED sending
  BY <1>2, KeyInvStutters
<1>3. CASE \E m \in MlsMessage : Arrive(m)
  BY <1>3, <1>2 DEF Arrive
<1>4. CASE \E r \in Reader : \/ \E c \in Client, m \in MlsMessage : Open(r, c, m)
                            \/ SaveJoined(r) \/ Cache(r) \/ FailRead(r)
  BY <1>4, <1>2 DEF Open, SaveJoined, Cache, FailRead
<1>5. CASE \/ \E mode \in {"force", "keep"} : Publish(mode)
           \/ SaveDevice \/ FailDevice \/ TrustPackage
  BY <1>5, <1>2 DEF Publish, SaveDevice, FailDevice, TrustPackage
<1>6. CASE UNCHANGED mlsVars
  BY <1>6, <1>2 DEF mlsVars
<1> QED
  BY <1>1, <1>3, <1>4, <1>5, <1>6 DEF MlsNext

\* No key seals two messages that left, wherever a client died or a write failed,
\* unless two clients were sending at once.
THEOREM KeysStayFresh == MlsSpec => []KeysAreFresh
<1>1. KeyInv => KeysAreFresh
  BY DEF KeyInv
<1> QED
  BY <1>1, KeyInvInit, KeyInvStep, MlsTypeCorrect, PTL DEF MlsSpec

-----------------------------------------------------------------------------
(* Nothing is stranded.                                                    *)

\* Incarnations of which the property speaks, and conversations of which it does.
Clean(i) == i \notin raced \cup harmed
OneGroup == audience \/ incarnations <= 1

\* Messages whose plaintext is in the cache or with a client that will cache it.
Working == {r \in Reader : readers[r].at # "idle"}
Opened == {m \in MlsMessage : m \in cached \/ \E r \in Working : m \in readers[r].message}

\* What is opened has arrived, and what has arrived was sent; a client that saves
\* a group saves that of its message.
ArrivedInv ==
  /\ stored \subseteq posted /\ cached \subseteq stored
  /\ \A r \in Working : \E m \in stored :
       /\ readers[r].message = {m}
       /\ readers[r].at = "save" => readers[r].group.of = envelope[m].of

\* An audience's message has an incarnation of its own, a welcome goes with the
\* first message of one, and what was sealed has left or is about to.
SealedInv ==
  /\ \A m \in MlsMessage : envelope[m].of <= incarnations
  /\ audience => \A m, n \in MlsMessage :
       envelope[m].of = envelope[n].of /\ envelope[m].of # 0 => m = n
  /\ \A m \in MlsMessage : envelope[m].welcome # 0 => envelope[m].key = 0
  /\ \A m \in MlsMessage : envelope[m].of # 0 /\ Clean(envelope[m].of) =>
       m \in posted \/ \E s \in AtWork : m \in senders[s].message

\* A key that the recipient has used up, in the file or in a client's copy that it
\* may still write, is that of a message opened.
UsedBy(g) ==
  Clean(g.of) /\ OneGroup =>
    \A k \in g.used : \E m \in Opened : envelope[m].of = g.of /\ envelope[m].key = k
UsedInv ==
  /\ UsedBy(joined)
  /\ \A r \in Working : readers[r].at = "save" => UsedBy(readers[r].group)

\* In a direct conversation, a message opened means that the file has the group.
JoinedInv ==
  /\ ~audience /\ incarnations <= 1 /\ 1 \notin harmed
  /\ cached # {} \/ \E r \in Working : readers[r].at = "cache" \/ readers[r].goesOn
  => joined.of = 1

StrandInv == ArrivedInv /\ SealedInv /\ UsedInv /\ JoinedInv

\* Nothing has arrived yet.
LEMMA StrandInit == MlsInit => StrandInv
<1> SUFFICES ASSUME MlsInit PROVE StrandInv
  OBVIOUS
<1>1. /\ Working = {} /\ cached = {} /\ stored = {} /\ joined.used = {}
      /\ incarnations = 0
      /\ \A m \in MlsMessage : envelope[m].of = 0 /\ envelope[m].welcome = 0
  BY DEF MlsInit, Working, IdleReader, NoGroup, NoEnvelope
<1>2. ArrivedInv /\ SealedInv /\ UsedInv /\ JoinedInv
  BY <1>1 DEF ArrivedInv, SealedInv, UsedInv, UsedBy, JoinedInv
<1> QED
  BY <1>2 DEF StrandInv

\* What clients that read know of is not touched by what clients send.
LEMMA SendingKeeps ==
  ASSUME MlsTypeOK, KeyInv, ArrivedInv, UsedInv, JoinedInv,
         UNCHANGED <<stored, reading, audience>>,
         posted \subseteq posted', harmed \subseteq harmed', raced \subseteq raced',
         \A m \in posted : envelope'[m] = envelope[m],
         incarnations' \in Nat, incarnations <= incarnations'
  PROVE  ArrivedInv' /\ UsedInv' /\ JoinedInv'
<1>1. /\ UNCHANGED <<joined, cached, readers>> /\ Working' = Working /\ Opened' = Opened
      /\ incarnations \in Nat
  BY DEF reading, Working, Opened, MlsTypeOK
<1>2. Opened \subseteq stored /\ stored \subseteq posted
  BY DEF Opened, ArrivedInv
<1>3. \A m \in stored : envelope'[m] = envelope[m]
  BY <1>2
<1>4. ArrivedInv'
  BY <1>1, <1>3 DEF ArrivedInv
<1>5. OneGroup' => OneGroup
  BY <1>1 DEF OneGroup
<1>6. \A i : Clean(i)' => Clean(i)
  BY DEF Clean
<1>7. ASSUME NEW g, UsedBy(g), Clean(g.of)', OneGroup'
      PROVE  \A k \in g.used : \E m \in Opened' : envelope'[m].of = g.of
                                                  /\ envelope'[m].key = k
  <2>1. \A k \in g.used : \E m \in Opened : envelope[m].of = g.of /\ envelope[m].key = k
    BY <1>5, <1>6, <1>7 DEF UsedBy
  <2> QED
    BY <1>1, <1>2, <1>3, <2>1
<1>8. UsedInv'
  <2>1. UsedBy(joined)'
    BY <1>1, <1>7 DEF UsedInv, UsedBy
  <2>2. ASSUME NEW r \in Working, readers[r].at = "save" PROVE UsedBy(readers[r].group)'
    BY <1>1, <1>7, <2>2 DEF UsedInv, UsedBy
  <2> QED
    BY <1>1, <2>1, <2>2 DEF UsedInv
<1>9. JoinedInv'
  BY <1>1 DEF JoinedInv
<1> QED
  BY <1>4, <1>8, <1>9

\* A message is sealed in a group of its own or in one that the file has.
LEMMA SealStrands ==
  ASSUME MlsTypeOK, KeyInv, StrandInv, NEW s \in Sender, NEW m \in MlsMessage, Seal(s, m)
  PROVE  StrandInv'
<1>1. SendTypes /\ trusted \in Nat
  BY TypesInGroups DEF OtherTypes
<1>2. /\ UNCHANGED <<audience, posted, stored, reading, harmed>>
      /\ raced \subseteq raced'
      /\ incarnations \in Nat /\ incarnations' \in Nat /\ incarnations <= incarnations'
  BY <1>1 DEF Seal, SendTypes
<1>3. /\ envelope'[m] = [of |-> Group.of, key |-> Group.next,
                         welcome |-> IF Continues THEN 0 ELSE trusted]
      /\ \A k \in MlsMessage : k # m => envelope'[k] = envelope[k]
      /\ envelope[m].of = 0
  BY <1>1 DEF Seal, SendTypes, NoEnvelope
<1>4. m \notin posted /\ posted \subseteq MlsMessage
  BY <1>1, <1>3 DEF KeyInv, NumberInv, SendTypes
<1>5. ArrivedInv' /\ UsedInv' /\ JoinedInv'
  BY <1>2, <1>3, <1>4, SendingKeeps DEF StrandInv
<1>6. /\ senders'[s].at = "save" /\ senders'[s].message = {m}
      /\ \A t \in Sender : t # s => senders'[t] = senders[t]
      /\ senders[s].at = "idle"
  BY <1>1 DEF Seal, SendTypes
<1>7. \A t \in AtWork : t \in AtWork' /\ senders'[t] = senders[t]
  BY <1>6 DEF AtWork
<1>8. s \in AtWork'
  BY <1>6 DEF AtWork
<1>9. /\ Continues => /\ ~audience /\ envelope'[m].welcome = 0
                      /\ envelope'[m].of \in 0 .. incarnations
      /\ ~Continues => /\ envelope'[m].of = incarnations + 1 /\ envelope'[m].key = 0
                       /\ incarnations' = incarnations + 1
  <2>1. CASE Continues
    BY <1>3, <2>1 DEF KeyInv, NumberInv, Continues, Group
  <2>2. CASE ~Continues
    <3>1. Group.of = incarnations + 1 /\ Group.next = 0
      BY <2>2 DEF Group, NoGroup
    <3> QED
      BY <1>3, <2>2, <3>1 DEF Seal
  <2> QED
    BY <2>1, <2>2
<1>a. \A k \in MlsMessage : envelope[k].of \in Nat /\ envelope[k].of <= incarnations
  BY <1>1 DEF SendTypes, Envelopes, StrandInv, SealedInv
<1>b. SealedInv'
  <2>1. \A k \in MlsMessage : envelope'[k].of <= incarnations'
    BY <1>2, <1>3, <1>9, <1>a
  <2>2. ASSUME audience, NEW k \in MlsMessage, NEW n \in MlsMessage,
               envelope'[k].of = envelope'[n].of, envelope'[k].of # 0
        PROVE  k = n
    <3>1. envelope'[m].of = incarnations + 1
      BY <1>9, <2>2
    <3>2. \A l \in MlsMessage : l # m => envelope'[l].of # incarnations + 1
      BY <1>2, <1>3, <1>a
    <3> QED
      BY <1>3, <2>2, <3>1, <3>2 DEF StrandInv, SealedInv
  <2>3. \A k \in MlsMessage : envelope'[k].welcome # 0 => envelope'[k].key = 0
    BY <1>3, <1>9 DEF StrandInv, SealedInv
  <2>4. ASSUME NEW k \in MlsMessage, envelope'[k].of # 0,
               envelope'[k].of \notin raced' \cup harmed'
        PROVE  k \in posted' \/ \E t \in AtWork' : k \in senders'[t].message
    <3>1. CASE k = m
      BY <1>6, <1>8, <3>1
    <3>2. CASE k # m
      <4>1. envelope[k].of # 0 /\ Clean(envelope[k].of)
        BY <1>2, <1>3, <2>4, <3>2 DEF Clean
      <4> QED
        BY <1>2, <1>7, <4>1 DEF StrandInv, SealedInv
    <3> QED
      BY <3>1, <3>2
  <2> QED
    BY <1>2, <2>1, <2>2, <2>3, <2>4 DEF SealedInv, Clean
<1> QED
  BY <1>5, <1>b DEF StrandInv

\* A sender saves; or it is done, and its message has left or a fault is recorded.
LEMMA SendStrands ==
  ASSUME MlsTypeOK, KeyInv, StrandInv, NEW s \in Sender,
         SaveSent(s) \/ Post(s) \/ FailSend(s)
  PROVE  StrandInv'
<1>1. SendTypes
  BY TypesInGroups
<1>2. /\ UNCHANGED <<envelope, audience, incarnations, raced, stored, reading>>
      /\ s \in AtWork /\ posted \subseteq posted' /\ harmed \subseteq harmed'
      /\ \A t \in Sender : t # s => senders'[t] = senders[t]
      /\ incarnations \in Nat
  BY <1>1 DEF SaveSent, Post, FailSend, AtWork, SendTypes
<1>3. \/ senders'[s].at = "post" /\ senders'[s].message = senders[s].message
      \/ senders[s].message \subseteq posted'
      \/ senders[s].group.of \in harmed'
  <2>1. CASE SaveSent(s)
    BY <1>1, <2>1 DEF SaveSent, SendTypes, SenderState
  <2>2. CASE Post(s) \/ FailSend(s)
    BY <2>2 DEF Post, FailSend
  <2> QED
    BY <2>1, <2>2
<1>4. ArrivedInv' /\ UsedInv' /\ JoinedInv'
  BY <1>2, SendingKeeps DEF StrandInv
<1>5. ASSUME NEW k \in MlsMessage, envelope[k].of # 0, Clean(envelope[k].of)'
      PROVE  k \in posted' \/ \E t \in AtWork' : k \in senders'[t].message
  <2>1. Clean(envelope[k].of)
    BY <1>2, <1>5 DEF Clean
  <2>2. CASE k \in posted
    BY <1>2, <2>2
  <2>3. CASE k \notin posted
    <3>1. PICK t \in AtWork : k \in senders[t].message
      BY <1>5, <2>1, <2>3 DEF StrandInv, SealedInv
    <3>2. CASE t # s
      BY <1>2, <3>1, <3>2 DEF AtWork
    <3>3. CASE t = s
      <4>1. envelope[k].of = senders[s].group.of
        BY <3>1, <3>3 DEF KeyInv, HeldInv
      <4>2. senders[s].group.of \notin harmed'
        BY <1>2, <1>5, <4>1 DEF Clean
      <4>3. senders'[s].at = "post" => s \in AtWork'
        BY DEF AtWork
      <4> QED
        BY <1>3, <3>1, <3>3, <4>2, <4>3
    <3> QED
      BY <3>2, <3>3
  <2> QED
    BY <2>2, <2>3
<1>6. SealedInv'
  BY <1>2, <1>5 DEF StrandInv, SealedInv
<1> QED
  BY <1>4, <1>6 DEF StrandInv

\* An arrival adds to what has arrived, and to nothing else.
LEMMA ArriveStrands ==
  ASSUME StrandInv, NEW m \in MlsMessage, Arrive(m)
  PROVE  StrandInv'
<1>1. /\ m \in posted /\ stored' = stored \cup {m}
      /\ UNCHANGED <<audience, envelope, posted, senders, incarnations, raced, joined, cached,
                     readers, harmed>>
  BY DEF Arrive, sending, reading
<1>2. Working' = Working /\ Opened' = Opened /\ AtWork' = AtWork
  BY <1>1 DEF Working, Opened, AtWork
<1>3. SealedInv'
  BY <1>1, <1>2, Zenon DEF StrandInv, SealedInv, Clean
<1>4. UsedInv' /\ JoinedInv'
  BY <1>1, <1>2 DEF StrandInv, UsedInv, UsedBy, JoinedInv, Clean, OneGroup
<1>5. ArrivedInv'
  <2>1. \A r \in Working : \E k \in stored' :
          /\ readers[r].message = {k}
          /\ readers[r].at = "save" => readers[r].group.of = envelope[k].of
    BY <1>1 DEF StrandInv, ArrivedInv
  <2> QED
    BY <1>1, <1>2, <2>1 DEF StrandInv, ArrivedInv
<1> QED
  BY <1>3, <1>4, <1>5 DEF StrandInv


\* What clients send is not touched by what clients read.
LEMMA ReadingKeeps ==
  ASSUME SealedInv, UNCHANGED sending, harmed \subseteq harmed'
  PROVE  SealedInv'
<1>1. UNCHANGED <<audience, envelope, posted, incarnations, raced>> /\ AtWork' = AtWork
      /\ UNCHANGED senders
  BY DEF sending, AtWork
<1>2. \A i : i \notin raced' \cup harmed' => Clean(i)
  BY <1>1 DEF Clean
<1>3. \A m \in MlsMessage : envelope'[m].of # 0 /\ envelope'[m].of \notin raced' \cup harmed' =>
        m \in posted' \/ \E s \in AtWork' : m \in senders'[s].message
  BY <1>1, <1>2 DEF SealedInv
<1> QED
  BY <1>1, <1>3 DEF SealedInv, Clean

\* What reading a message does to a group.
LEMMA Reads ==
  ASSUME MlsTypeOK, NEW g \in Groups, NEW m \in MlsMessage
  PROVE  /\ Without(g, m).of = g.of
         /\ Without(g, m).used = g.used \cup {envelope[m].key}
         /\ JoinedBy(m).of = envelope[m].of
         /\ JoinedBy(m).used = {envelope[m].key}
<1>1. ASSUME NEW h \in Groups
      PROVE  /\ Without(h, m).of = h.of
             /\ Without(h, m).used = h.used \cup {envelope[m].key}
  BY DEF Without, Groups
<1>2. envelope[m].of \in Nat
  BY DEF MlsTypeOK
<1>3. /\ [NoGroup EXCEPT !.of = envelope[m].of] \in Groups
      /\ [NoGroup EXCEPT !.of = envelope[m].of].of = envelope[m].of
      /\ [NoGroup EXCEPT !.of = envelope[m].of].used = {}
  BY <1>2, GroupTypes DEF NoGroup
<1>4. JoinedBy(m).of = envelope[m].of /\ JoinedBy(m).used = {envelope[m].key}
  BY <1>1, <1>3 DEF JoinedBy
<1> QED
  BY <1>1, <1>4

\* UsedBy(g) in the next state, whichever copy g is.
UsedNext(g) ==
  g.of \notin raced' \cup harmed' /\ (audience' \/ incarnations' <= 1) =>
    \A k \in g.used : \E m \in Opened' : envelope'[m].of = g.of /\ envelope'[m].key = k

\* UsedInv in the next state, by copies.
LEMMA UsedInvNext ==
  UsedInv' <=> /\ UsedNext(joined')
               /\ \A r \in Working' : readers'[r].at = "save" => UsedNext(readers'[r].group)
BY DEF UsedInv, UsedBy, UsedNext, Clean, OneGroup

\* A copy of a group whose used keys are accounted for stays so while nothing that
\* is opened is lost.
LEMMA StaysUsed ==
  ASSUME UNCHANGED <<audience, incarnations, envelope, raced>>, harmed \subseteq harmed',
         Opened \subseteq Opened', NEW g, UsedBy(g)
  PROVE  UsedNext(g)
BY DEF UsedBy, UsedNext, Clean, OneGroup

\* A client that opens a message has it from then on, and used up its key.
LEMMA OpenStrands ==
  ASSUME MlsTypeOK, KeyInv, StrandInv,
         NEW r \in Reader, NEW c \in Client, NEW m \in MlsMessage, Open(r, c, m)
  PROVE  StrandInv'
<1>1. ReadTypes
  BY TypesInGroups
<1>2. /\ UNCHANGED <<sending, stored, joined, cached>> /\ harmed \subseteq harmed'
      /\ m \in stored /\ readers[r].at = "idle"
  BY DEF Open
<1>3. /\ UNCHANGED <<audience, envelope, posted, incarnations, raced>>
  BY <1>2 DEF sending
<1>4. \A q \in Reader : q # r => readers'[q] = readers[q]
  BY <1>1 DEF Open, ReadTypes
<1>5. \/ /\ envelope[m].of = joined.of
         /\ readers'[r] = [at |-> "save", goesOn |-> c = "desk", message |-> {m},
                           group |-> Without(joined, m)]
      \/ /\ readers'[r] = [at |-> AfterJoin(c), goesOn |-> FALSE, message |-> {m},
                           group |-> JoinedBy(m)]
         /\ c = "desk" => envelope[m].of \in harmed'
  BY <1>1 DEF Open, ReadTypes, Has
<1>6. /\ readers'[r].message = {m} /\ readers'[r].at \in {"save", "cache"}
      /\ readers'[r].group.of = envelope[m].of
      /\ readers'[r].group.used \subseteq joined.used \cup {envelope[m].key}
      /\ \/ envelope[m].of = joined.of
         \/ readers'[r].group.used = {envelope[m].key}
      /\ readers'[r].goesOn => joined.of = envelope[m].of
      /\ readers'[r].at = "cache" => envelope[m].of \in harmed'
  BY <1>1, <1>5, Reads DEF AfterJoin, ReadTypes
<1>7. Working' = Working \cup {r} /\ r \notin Working
  BY <1>2, <1>4, <1>6 DEF Working
<1>8. m \in Opened' /\ Opened \subseteq Opened'
  BY <1>2, <1>4, <1>6, <1>7 DEF Opened, Working
<1>9. envelope[m].of \in 1 .. incarnations /\ incarnations \in Nat
  BY <1>2 DEF StrandInv, ArrivedInv, KeyInv, NumberInv, MlsTypeOK
<1>a. ArrivedInv'
  <2>1. ASSUME NEW q \in Working'
        PROVE  \E k \in stored : /\ readers'[q].message = {k}
                                 /\ readers'[q].at = "save" =>
                                      readers'[q].group.of = envelope[k].of
    <3>1. CASE q = r
      BY <1>2, <1>6, <3>1
    <3>2. CASE q # r
      BY <1>4, <1>7, <3>2 DEF StrandInv, ArrivedInv, Working
    <3> QED
      BY <3>1, <3>2
  <2> QED
    BY <1>2, <1>3, <2>1 DEF StrandInv, ArrivedInv
<1>b. SealedInv'
  BY <1>2, ReadingKeeps DEF StrandInv
<1>c. UsedInv'
  <2>1. UsedNext(joined)
    BY <1>2, <1>3, <1>8, StaysUsed DEF StrandInv, UsedInv
  <2>2. ASSUME NEW q \in Working', readers'[q].at = "save" PROVE UsedNext(readers'[q].group)
    <3>1. CASE q = r
      <4>1. ASSUME envelope[m].of \notin raced' \cup harmed',
                   audience' \/ incarnations' <= 1, NEW k \in readers'[r].group.used
            PROVE  \E n \in Opened' : envelope'[n].of = envelope[m].of /\ envelope'[n].key = k
        <5>1. CASE k = envelope[m].key
          BY <1>3, <1>8, <5>1
        <5>2. CASE k # envelope[m].key
          <6>1. k \in joined.used /\ envelope[m].of = joined.of
            BY <1>6, <4>1, <5>2
          <6> QED
            BY <2>1, <4>1, <6>1 DEF UsedNext
        <5> QED
          BY <5>1, <5>2
      <4> QED
        BY <1>6, <3>1, <4>1 DEF UsedNext
    <3>2. CASE q # r
      <4>1. q \in Working /\ readers'[q] = readers[q]
        BY <1>4, <1>7, <3>2 DEF Working
      <4>2. UsedBy(readers[q].group)
        BY <2>2, <4>1 DEF StrandInv, UsedInv
      <4> QED
        BY <1>2, <1>3, <1>8, <4>1, <4>2, StaysUsed
    <3> QED
      BY <3>1, <3>2
  <2> QED
    BY <1>2, <2>1, <2>2, UsedInvNext
<1>d. JoinedInv'
  <2> SUFFICES ASSUME ~audience, incarnations <= 1, 1 \notin harmed',
                      \/ cached # {}
                      \/ \E q \in Working' : readers'[q].at = "cache" \/ readers'[q].goesOn
               PROVE  joined.of = 1
    BY <1>2, <1>3 DEF JoinedInv
  <2>1. envelope[m].of = 1 /\ 1 \notin harmed
    BY <1>2, <1>9
  <2>2. CASE readers'[r].at = "cache" \/ readers'[r].goesOn
    BY <1>6, <2>1, <2>2
  <2>3. CASE \/ cached # {}
             \/ \E q \in Working : readers[q].at = "cache" \/ readers[q].goesOn
    BY <2>1, <2>3 DEF StrandInv, JoinedInv
  <2> QED
    BY <1>4, <1>7, <2>2, <2>3 DEF Working
<1> QED
  BY <1>a, <1>b, <1>c, <1>d DEF StrandInv


\* A client writes its copy over the file, perhaps an older one.
LEMMA SaveJoinedStrands ==
  ASSUME MlsTypeOK, KeyInv, StrandInv, NEW r \in Reader, SaveJoined(r)
  PROVE  StrandInv'
<1>1. ReadTypes
  BY TypesInGroups
<1>2. /\ UNCHANGED <<sending, stored, cached, harmed>> /\ readers[r].at = "save"
      /\ joined' = IF readers[r].goesOn /\ joined = NoGroup THEN joined
                                                           ELSE readers[r].group
  BY DEF SaveJoined
<1>3. UNCHANGED <<audience, envelope, posted, incarnations, raced>>
  BY <1>2 DEF sending
<1>4. /\ readers'[r].at = "cache" /\ ~readers'[r].goesOn
      /\ readers'[r].message = readers[r].message
      /\ \A q \in Reader : q # r => readers'[q] = readers[q]
  BY <1>1 DEF SaveJoined, ReadTypes, ReaderState
<1>5. Working' = Working /\ r \in Working
  BY <1>2, <1>4 DEF Working
<1>6. Opened' = Opened
  <2>1. \A q \in Working : readers'[q].message = readers[q].message
    BY <1>4 DEF Working
  <2> QED
    BY <1>2, <1>5, <2>1 DEF Opened
<1>7. readers[r].group.of \in 1 .. incarnations /\ incarnations \in Nat
  <2>1. PICK m \in stored : readers[r].group.of = envelope[m].of
    BY <1>2, <1>5 DEF StrandInv, ArrivedInv
  <2> QED
    BY <2>1 DEF StrandInv, ArrivedInv, KeyInv, NumberInv, MlsTypeOK
<1>a. ArrivedInv'
  <2>1. ASSUME NEW q \in Working
        PROVE  \E k \in stored : /\ readers'[q].message = {k}
                                 /\ readers'[q].at = "save" =>
                                      readers'[q].group.of = envelope[k].of
    BY <1>4 DEF StrandInv, ArrivedInv, Working
  <2> QED
    BY <1>2, <1>3, <1>5, <2>1 DEF StrandInv, ArrivedInv
<1>b. SealedInv'
  BY <1>2, ReadingKeeps DEF StrandInv
<1>c. UsedInv'
  <2>1. UsedNext(joined) /\ UsedNext(readers[r].group)
    BY <1>2, <1>3, <1>5, <1>6, StaysUsed DEF StrandInv, UsedInv
  <2>2. UsedNext(joined')
    BY <1>2, <2>1
  <2>3. ASSUME NEW q \in Working, readers'[q].at = "save" PROVE UsedNext(readers'[q].group)
    <3>1. readers'[q] = readers[q] /\ UsedBy(readers[q].group)
      BY <1>4, <2>3 DEF StrandInv, UsedInv, Working
    <3> QED
      BY <1>2, <1>3, <1>6, <3>1, StaysUsed
  <2> QED
    BY <1>5, <2>2, <2>3, UsedInvNext
<1>d. JoinedInv'
  <2> SUFFICES ASSUME ~audience, incarnations <= 1, 1 \notin harmed PROVE joined'.of = 1
    BY <1>2, <1>3 DEF JoinedInv
  <2>1. readers[r].group.of = 1
    BY <1>7
  <2>2. readers[r].goesOn => joined.of = 1
    BY <1>5 DEF StrandInv, JoinedInv
  <2> QED
    BY <1>2, <2>1, <2>2
<1> QED
  BY <1>a, <1>b, <1>c, <1>d DEF StrandInv

\* A client's message goes into the cache.
LEMMA CacheStrands ==
  ASSUME MlsTypeOK, StrandInv, NEW r \in Reader, Cache(r)
  PROVE  StrandInv'
<1>1. ReadTypes
  BY TypesInGroups
<1>2. /\ UNCHANGED <<sending, stored, joined, harmed>> /\ readers[r].at = "cache"
      /\ cached' = cached \cup readers[r].message
  BY DEF Cache
<1>3. UNCHANGED <<audience, envelope, posted, incarnations, raced>>
  BY <1>2 DEF sending
<1>4. /\ readers'[r].at = "idle"
      /\ \A q \in Reader : q # r => readers'[q] = readers[q]
  BY <1>1 DEF Cache, ReadTypes, IdleReader
<1>5. /\ r \in Working /\ Working' = Working \ {r}
      /\ \A q \in Working' : q \in Working /\ readers'[q] = readers[q]
  BY <1>2, <1>4 DEF Working
<1>6. Opened \subseteq Opened'
  BY <1>2, <1>5 DEF Opened
<1>7. readers[r].message \subseteq stored
  BY <1>5 DEF StrandInv, ArrivedInv
<1>a. ArrivedInv'
  BY <1>2, <1>3, <1>5, <1>7 DEF StrandInv, ArrivedInv
<1>b. SealedInv'
  BY <1>2, ReadingKeeps DEF StrandInv
<1>c. UsedInv'
  <2>1. UsedNext(joined)
    BY <1>2, <1>3, <1>6, StaysUsed DEF StrandInv, UsedInv
  <2>2. ASSUME NEW q \in Working', readers'[q].at = "save" PROVE UsedNext(readers'[q].group)
    <3>1. readers'[q] = readers[q] /\ UsedBy(readers[q].group)
      BY <1>5, <2>2 DEF StrandInv, UsedInv
    <3> QED
      BY <1>2, <1>3, <1>6, <3>1, StaysUsed
  <2> QED
    BY <1>2, <2>1, <2>2, UsedInvNext
<1>d. JoinedInv'
  BY <1>2, <1>3, <1>5 DEF StrandInv, JoinedInv
<1> QED
  BY <1>a, <1>b, <1>c, <1>d DEF StrandInv

\* A client that fails loses its message; then the fault is recorded of every
\* copy that counted on it.
LEMMA FailReadStrands ==
  ASSUME MlsTypeOK, KeyInv, StrandInv, NEW r \in Reader, FailRead(r)
  PROVE  StrandInv'
<1>1. ReadTypes
  BY TypesInGroups
<1>2. /\ UNCHANGED <<sending, stored, cached>> /\ readers[r].at # "idle"
      /\ harmed' = harmed \cup {readers[r].group.of, joined.of}
      /\ joined' = joined \/ (joined' = NoGroup /\ readers[r].at = "save")
  BY DEF FailRead
<1>3. UNCHANGED <<audience, envelope, posted, incarnations, raced>>
  BY <1>2 DEF sending
<1>4. /\ \/ readers'[r] = IdleReader
         \/ /\ readers'[r].at = "cache" /\ ~readers'[r].goesOn
            /\ readers'[r].message = readers[r].message
      /\ \A q \in Reader : q # r => readers'[q] = readers[q]
  BY <1>1 DEF FailRead, ReadTypes, ReaderState
<1>5. /\ r \in Working /\ Working' \subseteq Working
      /\ \A q \in Working' : /\ q \in Working /\ readers'[q].message = readers[q].message
                             /\ q # r => readers'[q] = readers[q]
                             /\ q = r => readers'[q].at = "cache" /\ ~readers'[q].goesOn
      /\ \A q \in Working : q # r => q \in Working' /\ readers'[q] = readers[q]
  BY <1>2, <1>4 DEF Working, IdleReader
<1>6. \A m \in Opened : m \in Opened' \/ m \in readers[r].message
  BY <1>2, <1>5 DEF Opened
<1>7. PICK x \in stored : /\ readers[r].message = {x}
                          /\ readers[r].at = "save" => readers[r].group.of = envelope[x].of
  BY <1>5 DEF StrandInv, ArrivedInv
<1>8. /\ x \in MlsMessage /\ envelope[x].of \in 1 .. incarnations /\ incarnations \in Nat
  BY <1>7 DEF StrandInv, ArrivedInv, KeyInv, NumberInv, MlsTypeOK
<1>a. ArrivedInv'
  <2>1. ASSUME NEW q \in Working'
        PROVE  \E k \in stored : /\ readers'[q].message = {k}
                                 /\ readers'[q].at = "save" =>
                                      readers'[q].group.of = envelope[k].of
    <3>1. PICK k \in stored : /\ readers[q].message = {k}
                              /\ readers[q].at = "save" => readers[q].group.of = envelope[k].of
      BY <1>5, <2>1 DEF StrandInv, ArrivedInv
    <3> QED
      BY <1>5, <2>1, <3>1
  <2> QED
    BY <1>2, <1>3, <2>1 DEF StrandInv, ArrivedInv
<1>b. SealedInv'
  BY <1>2, ReadingKeeps DEF StrandInv
<1>c. UsedInv'
  <2>1. UsedNext(joined')
    <3>1. joined'.of \in harmed' \/ joined'.used = {}
      BY <1>2 DEF NoGroup
    <3> QED
      BY <3>1 DEF UsedNext
  <2>2. ASSUME NEW q \in Working', readers'[q].at = "save" PROVE UsedNext(readers'[q].group)
    <3> DEFINE g == readers[q].group
    <3>1. /\ q \in Working /\ q # r /\ readers'[q] = readers[q]
      BY <1>5, <2>2
    <3>2. UsedBy(g)
      BY <2>2, <3>1 DEF StrandInv, UsedInv
    <3>3. PICK y \in stored : readers[q].message = {y} /\ g.of = envelope[y].of
      BY <2>2, <3>1 DEF StrandInv, ArrivedInv
    <3>4. y \in Opened' /\ y \in MlsMessage
      <4>1. y \in MlsMessage
        BY <1>1 DEF ReadTypes
      <4> QED
        BY <2>2, <3>1, <3>3, <4>1 DEF Opened
    <3>5. ASSUME g.of \notin raced' \cup harmed', audience' \/ incarnations' <= 1,
                 NEW k \in g.used
          PROVE  \E n \in Opened' : envelope'[n].of = g.of /\ envelope'[n].key = k
      <4>1. Clean(g.of) /\ OneGroup
        BY <1>2, <1>3, <3>5 DEF Clean, OneGroup
      <4>2. PICK n \in Opened : envelope[n].of = g.of /\ envelope[n].key = k
        BY <3>2, <3>5, <4>1 DEF UsedBy
      <4>3. CASE n \in Opened'
        BY <1>3, <4>2, <4>3
      <4>4. CASE n \notin Opened'
        <5>1. n = x
          <6>1. n \in readers[r].message
            BY <1>6, <4>2, <4>4
          <6> QED
            BY <1>7, <6>1
        <5>2. readers[r].at # "save"
          <6> SUFFICES ASSUME readers[r].at = "save" PROVE FALSE
            OBVIOUS
          <6>1. readers[r].group.of = g.of
            BY <1>7, <4>2, <5>1
          <6> QED
            BY <1>2, <3>5, <6>1
        <5>3. CASE audience
          <6>1. n = y
            BY <1>8, <3>3, <3>4, <4>2, <5>1, <5>3 DEF StrandInv, SealedInv
          <6> QED
            BY <3>4, <4>4, <6>1
        <5>4. CASE ~audience
          <6>1. incarnations <= 1 /\ envelope[x].of = 1 /\ g.of = 1
            BY <1>3, <1>8, <3>5, <4>2, <5>1, <5>4
          <6>2. readers[r].at = "cache" /\ 1 \notin harmed
            BY <1>1, <1>2, <3>5, <5>2, <6>1 DEF ReadTypes, ReaderState
          <6>3. joined.of = 1
            BY <1>5, <5>4, <6>1, <6>2 DEF StrandInv, JoinedInv
          <6> QED
            BY <1>2, <3>5, <6>1, <6>3
        <5> QED
          BY <5>3, <5>4
      <4> QED
        BY <4>3, <4>4
    <3> QED
      BY <3>1, <3>5 DEF UsedNext
  <2> QED
    BY <2>1, <2>2, UsedInvNext
<1>d. JoinedInv'
  <2> SUFFICES ASSUME ~audience, incarnations <= 1, 1 \notin harmed',
                      \/ cached # {}
                      \/ \E q \in Working' : readers'[q].at = "cache" \/ readers'[q].goesOn
               PROVE  joined'.of = 1
    BY <1>2, <1>3 DEF JoinedInv
  <2>a. envelope[x].of = 1
    BY <1>8
  <2>b. 1 \notin harmed /\ joined.of # 1 /\ readers[r].group.of # 1
    BY <1>2
  <2>1. envelope[x].of = 1 /\ 1 \notin harmed /\ joined.of # 1 /\ readers[r].at # "save"
    BY <1>7, <2>a, <2>b
  <2>2. readers[r].at = "cache"
    BY <1>1, <1>2, <2>1 DEF ReadTypes, ReaderState
  <2> QED
    BY <1>5, <2>1, <2>2 DEF StrandInv, JoinedInv
<1> QED
  BY <1>a, <1>b, <1>c, <1>d DEF StrandInv

\* A message that has arrived is not stranded: while no client is reading, the
\* recipient is in its group and has its key, or the message that lets it in has
\* left the sender and is yet to be read.
LEMMA NoneStranded ==
  ASSUME MlsTypeOK, KeyInv, StrandInv
  PROVE  NothingIsStranded
<1> SUFFICES ASSUME NEW m \in stored \ cached,
                    \A r \in Reader : readers[r].at = "idle",
                    envelope[m].of \notin raced \cup harmed,
                    audience \/ incarnations = 1
             PROVE  IF joined.of = envelope[m].of
                    THEN envelope[m].key + Window < joined.next \/ Has(joined, m)
                    ELSE \A w \in Welcomes(envelope[m].of) :
                           CanJoin(w) => w \in posted \ cached
  BY DEF NothingIsStranded
<1> DEFINE i == envelope[m].of
<1>1. /\ m \in posted /\ m \in MlsMessage /\ Working = {} /\ Opened \subseteq cached
      /\ Clean(i) /\ OneGroup
  BY DEF StrandInv, ArrivedInv, MlsTypeOK, Working, Opened, Clean, OneGroup
<1>2. i \in 1 .. incarnations /\ incarnations \in Nat
  BY <1>1 DEF KeyInv, NumberInv, MlsTypeOK
<1>3. /\ \A n \in MlsMessage : envelope[n].key \in Nat
      /\ joined.next \in Nat /\ Window \in Nat
  BY MlsAssumption DEF MlsTypeOK, Groups
<1>4. ASSUME joined.of = i PROVE envelope[m].key + Window < joined.next \/ Has(joined, m)
  <2>1. envelope[m].key \notin joined.used
    <3> SUFFICES ASSUME envelope[m].key \in joined.used PROVE FALSE
      OBVIOUS
    <3>1. PICK n \in Opened : envelope[n].of = i /\ envelope[n].key = envelope[m].key
      BY <1>1, <1>4 DEF StrandInv, UsedInv, UsedBy
    <3>2. n \in posted /\ n # m
      BY <1>1, <3>1 DEF StrandInv, ArrivedInv
    <3> QED
      BY <1>1, <3>1, <3>2 DEF KeyInv, KeysAreFresh, Clean
  <2>2. \/ envelope[m].key + Window < joined.next
        \/ envelope[m].key >= joined.next
        \/ joined.next - envelope[m].key <= Window
    BY <1>1, <1>3
  <2> QED
    BY <1>4, <2>1, <2>2 DEF Has
<1>5. ASSUME joined.of # i, NEW w \in Welcomes(i) PROVE w \in posted \ cached
  <2>1. w \in MlsMessage /\ envelope[w].of = i /\ envelope[w].key = 0
    BY <1>5 DEF Welcomes, StrandInv, SealedInv
  <2>2. w \in posted
    <3> SUFFICES ASSUME w \notin posted PROVE FALSE
      OBVIOUS
    <3>1. PICK s \in AtWork : w \in senders[s].message
      BY <1>1, <1>2, <2>1 DEF StrandInv, SealedInv
    <3>2. envelope[m].key < envelope[w].key
      BY <1>1, <2>1, <3>1 DEF KeyInv, AheadInv, Clean
    <3> QED
      BY <1>1, <1>3, <2>1, <3>2
  <2>3. w \notin cached
    <3>1. CASE audience
      BY <1>1, <1>2, <2>1, <3>1 DEF StrandInv, SealedInv
    <3>2. CASE ~audience
      <4>1. i = 1 /\ incarnations <= 1
        BY <1>2, <3>2
      <4> QED
        BY <1>1, <1>5, <3>2, <4>1 DEF StrandInv, JoinedInv, Clean
    <3> QED
      BY <3>1, <3>2
  <2> QED
    BY <2>2, <2>3
<1> QED
  BY <1>4, <1>5


\* In whatever order messages arrive and are opened, and by whichever clients, one
\* that can still be read stays so.
THEOREM NothingGetsStranded == MlsSpec => []NothingIsStranded
<1>1. MlsTypeOK /\ KeyInv /\ StrandInv /\ [MlsNext]_mlsVars => StrandInv'
  <2> SUFFICES ASSUME MlsTypeOK, KeyInv, StrandInv, [MlsNext]_mlsVars PROVE StrandInv'
    OBVIOUS
  <2>1. CASE \E s \in Sender : \E m \in MlsMessage : Seal(s, m)
    BY <2>1, SealStrands
  <2>2. CASE \E s \in Sender : SaveSent(s) \/ Post(s) \/ FailSend(s)
    BY <2>2, SendStrands
  <2>3. CASE \E m \in MlsMessage : Arrive(m)
    BY <2>3, ArriveStrands
  <2>4. CASE \E r \in Reader : \E c \in Client, m \in MlsMessage : Open(r, c, m)
    BY <2>4, OpenStrands
  <2>5. CASE \E r \in Reader : SaveJoined(r) \/ Cache(r) \/ FailRead(r)
    BY <2>5, SaveJoinedStrands, CacheStrands, FailReadStrands
  <2>6. CASE \/ \E mode \in {"force", "keep"} : Publish(mode)
             \/ SaveDevice \/ FailDevice \/ TrustPackage \/ UNCHANGED mlsVars
    <3>1. UNCHANGED <<audience, envelope, posted, senders, incarnations, raced, stored,
                      joined, cached, readers, harmed>>
      BY <2>6 DEF Publish, SaveDevice, FailDevice, TrustPackage, mlsVars, sending, reading
    <3>2. Working' = Working /\ Opened' = Opened /\ AtWork' = AtWork
      BY <3>1 DEF Working, Opened, AtWork
    <3>3. ArrivedInv' /\ JoinedInv'
      BY <3>1, <3>2 DEF StrandInv, ArrivedInv, JoinedInv
    <3>4. SealedInv'
      BY <3>1, <3>2 DEF StrandInv, SealedInv, Clean
    <3>5. UsedInv'
      BY <3>1, <3>2 DEF StrandInv, UsedInv, UsedBy, Clean, OneGroup
    <3> QED
      BY <3>3, <3>4, <3>5 DEF StrandInv
  <2> QED
    BY <2>1, <2>2, <2>3, <2>4, <2>5, <2>6 DEF MlsNext
<1>2. MlsSpec => [](MlsTypeOK /\ KeyInv)
  <2>1. MlsTypeOK /\ KeyInv /\ [MlsNext]_mlsVars => KeyInv'
    BY KeyInvStep
  <2> QED
    BY <2>1, KeyInvInit, MlsTypeCorrect, PTL DEF MlsSpec
<1>3. MlsTypeOK /\ KeyInv /\ StrandInv => NothingIsStranded
  BY NoneStranded
<1> QED
  BY <1>1, <1>2, <1>3, StrandInit, PTL DEF MlsSpec


=============================================================================
