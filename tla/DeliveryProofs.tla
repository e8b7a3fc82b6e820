--------------------------- MODULE DeliveryProofs ---------------------------
(***************************************************************************)
(* What is proved of the delivery pipeline, for any number of rows,        *)
(* messages and overlapping invocations, and any value of the limits.      *)
(***************************************************************************)
EXTENDS Delivery, TLAPS

\* The state of an action is typed after it: one step per action of Next.
\* (All of the model; the column values are those of the table's CHECK.)
THEOREM TypeCorrect == Spec => []TypeOK
<1> USE DeliveryAssumption
    DEF TypeOK, Open, Status, ErrorMessage, MessageState, Phase, OwnerAction,
        rows, queue, run, requests, history, bounds
<1>0. AnyDelivery \in Delivery
  BY DEF AnyDelivery
<1>1. Init => TypeOK
  BY <1>0 DEF Init
<1>2. TypeOK /\ [Next]_vars => TypeOK'
  <2> SUFFICES ASSUME TypeOK, [Next]_vars PROVE TypeOK'
    OBVIOUS
  <2>1. ASSUME NEW d \in Delivery, Owner(d) PROVE TypeOK'
    <3>1. CASE InsertRow(d) BY <3>1 DEF InsertRow
    <3>2. CASE ExpungeRow(d) BY <3>2 DEF ExpungeRow
    <3>3. CASE SetAllowed(d) BY <3>3 DEF SetAllowed
    <3>4. CASE \E action \in OwnerAction : OwnerCheck(action, d)
      BY <3>4 DEF OwnerCheck
    <3>5. CASE OwnerRetry(d)
      <4>1. CASE ~Exists(d) BY <3>5, <4>1 DEF OwnerRetry
      <4>2. CASE Exists(d)
        <5>1. delivered_at' = [delivered_at EXCEPT ![d] = FALSE]
          BY <3>5, <4>2 DEF OwnerRetry
        <5>2. delivered_at' \in [Delivery -> BOOLEAN]
          BY <5>1
        <5>3. retry_count' \in [Delivery -> Nat] /\ reopened' \in [Delivery -> Nat]
          BY <3>5, <4>2 DEF OwnerRetry
        <5>4. QED BY <3>5, <4>2, <5>2, <5>3 DEF OwnerRetry
      <4>3. QED BY <4>1, <4>2
    <3>6. CASE OwnerCancel(d) BY <3>6 DEF OwnerCancel
    <3>7. QED BY <2>1, <3>1, <3>2, <3>3, <3>4, <3>5, <3>6 DEF Owner
  <2>2. ASSUME NEW d \in Delivery, Enqueue(d) PROVE TypeOK'
    <3>1. CASE EnqueueCheck(d) BY <3>1 DEF EnqueueCheck
    <3>2. CASE EnqueueFail(d) BY <3>2 DEF EnqueueFail
    <3>3. ASSUME NEW m \in Message, EnqueueSend(d, m) PROVE TypeOK'
      BY <3>3 DEF EnqueueSend
    <3>4. QED BY <2>2, <3>1, <3>2, <3>3 DEF Enqueue
  <2>3. ASSUME NEW w \in Worker, Start(w) PROVE TypeOK'
    <3>1. ASSUME NEW m \in Message, Lease(w, m) PROVE TypeOK'
      BY <3>1 DEF Lease, Begin
    <3>2. ASSUME NEW d \in Delivery, AdminProcess(w, d) PROVE TypeOK'
      BY <3>2 DEF AdminProcess, Begin
    <3>3. QED BY <2>3, <3>1, <3>2 DEF Start
  <2>4. ASSUME NEW w \in Worker, Redeliver(w), faults' \in Nat PROVE TypeOK'
    BY <2>4, <1>0 DEF Redeliver, End, AfterRetry
  <2>5. ASSUME NEW w \in Worker, Work(w) PROVE TypeOK'
    <3>1. CASE Select(w) BY <3>1 DEF Select
    <3>2. CASE CheckHost(w) BY <3>2 DEF CheckHost
    <3>3. CASE Post(w) BY <3>3 DEF Post
    <3>4. CASE MarkDelivered(w)
      <4>1. CASE ~Exists(job[w]) BY <3>4, <4>1 DEF MarkDelivered, UpdateRow
      <4>2. CASE Exists(job[w])
        <5>1. delivered_at' = [delivered_at EXCEPT ![job[w]] = TRUE]
          BY <3>4, <4>2 DEF MarkDelivered, UpdateRow
        <5>2. QED BY <3>4, <4>2, <5>1 DEF MarkDelivered, UpdateRow
      <4>3. QED BY <4>1, <4>2
    <3>5. CASE MarkRefused(w) BY <3>5, SMTT(30) DEF MarkRefused, UpdateRow, NewStatus
    <3>6. CASE MarkBlocked(w) BY <3>6 DEF MarkBlocked, UpdateRow, NewStatus
    <3>7. CASE Again(w) BY <3>7, <2>4 DEF Again
    <3>8. CASE Ack(w) BY <3>8, <1>0 DEF Ack, End
    <3>9. QED BY <2>5, <3>1, <3>2, <3>3, <3>4, <3>5, <3>6, <3>7, <3>8 DEF Work
  <2>6. ASSUME NEW w \in Worker, Break(w) PROVE TypeOK'
    <3>1. CASE LoseUpdate(w) BY <3>1 DEF LoseUpdate
    <3>2. CASE Fail(w) BY <3>2 DEF Fail
    <3>3. CASE Crash(w) BY <3>3, <2>4 DEF Crash
    <3>4. QED BY <2>6, <3>1, <3>2, <3>3 DEF Break
  <2>7. CASE UNCHANGED vars BY <2>7 DEF vars
  <2>8. QED BY <2>1, <2>2, <2>3, <2>5, <2>6, <2>7 DEF Next
<1>3. QED BY <1>1, <1>2, PTL DEF Spec

-----------------------------------------------------------------------------
(* An invocation about to write "delivered" has seen a 2xx.                *)

AcceptedInv ==
  /\ DeliveredMeansAccepted
  /\ \A w \in Worker : pc[w] = "sent" => job[w] \in accepted

\* What an invocation has seen and what a row says agree, at every step.
LEMMA AcceptedIsInvariant == Spec => []AcceptedInv
<1> USE DEF TypeOK, AcceptedInv, DeliveredMeansAccepted, Open, Status,
            rows, queue, run, requests, history, bounds
<1>1. Init => AcceptedInv
  BY DEF Init
<1>2. TypeOK /\ AcceptedInv /\ [Next]_vars => AcceptedInv'
  <2> SUFFICES ASSUME TypeOK, AcceptedInv, [Next]_vars PROVE AcceptedInv'
    OBVIOUS
  <2>1. ASSUME NEW d \in Delivery, Owner(d) PROVE AcceptedInv'
    <3>1. CASE InsertRow(d) BY <3>1 DEF InsertRow
    <3>2. CASE ExpungeRow(d) BY <3>2 DEF ExpungeRow
    <3>3. CASE SetAllowed(d) BY <3>3 DEF SetAllowed
    <3>4. CASE \E action \in OwnerAction : OwnerCheck(action, d)
      BY <3>4 DEF OwnerCheck
    <3>5. CASE OwnerRetry(d) BY <3>5 DEF OwnerRetry
    <3>6. CASE OwnerCancel(d) BY <3>6 DEF OwnerCancel
    <3>7. QED BY <2>1, <3>1, <3>2, <3>3, <3>4, <3>5, <3>6 DEF Owner
  <2>2. ASSUME NEW d \in Delivery, Enqueue(d) PROVE AcceptedInv'
    <3>1. CASE EnqueueCheck(d) BY <3>1 DEF EnqueueCheck
    <3>2. CASE EnqueueFail(d) BY <3>2 DEF EnqueueFail
    <3>3. ASSUME NEW m \in Message, EnqueueSend(d, m) PROVE AcceptedInv'
      BY <3>3 DEF EnqueueSend
    <3>4. QED BY <2>2, <3>1, <3>2, <3>3 DEF Enqueue
  <2>3. ASSUME NEW w \in Worker, Start(w) PROVE AcceptedInv'
    <3>1. ASSUME NEW m \in Message, Lease(w, m) PROVE AcceptedInv'
      BY <3>1 DEF Lease, Begin
    <3>2. ASSUME NEW d \in Delivery, AdminProcess(w, d) PROVE AcceptedInv'
      BY <3>2 DEF AdminProcess, Begin
    <3>3. QED BY <2>3, <3>1, <3>2 DEF Start
  <2>4. ASSUME NEW w \in Worker, Redeliver(w) PROVE AcceptedInv'
    BY <2>4 DEF Redeliver, End
  <2>5. ASSUME NEW w \in Worker, Work(w) PROVE AcceptedInv'
    <3>1. CASE Select(w) BY <3>1 DEF Select
    <3>2. CASE CheckHost(w) BY <3>2 DEF CheckHost
    <3>3. CASE Post(w) BY <3>3 DEF Post
    <3>4. CASE MarkDelivered(w) BY <3>4 DEF MarkDelivered, UpdateRow
    <3>5. CASE MarkRefused(w) BY <3>5 DEF MarkRefused, UpdateRow, NewStatus
    <3>6. CASE MarkBlocked(w) BY <3>6 DEF MarkBlocked, UpdateRow, NewStatus
    <3>7. CASE Again(w) BY <3>7, <2>4 DEF Again
    <3>8. CASE Ack(w) BY <3>8 DEF Ack, End
    <3>9. QED BY <2>5, <3>1, <3>2, <3>3, <3>4, <3>5, <3>6, <3>7, <3>8 DEF Work
  <2>6. ASSUME NEW w \in Worker, Break(w) PROVE AcceptedInv'
    <3>1. CASE LoseUpdate(w) BY <3>1 DEF LoseUpdate
    <3>2. CASE Fail(w) BY <3>2 DEF Fail
    <3>3. CASE Crash(w) BY <3>3, <2>4 DEF Crash
    <3>4. QED BY <2>6, <3>1, <3>2, <3>3 DEF Break
  <2>7. CASE UNCHANGED vars BY <2>7 DEF vars
  <2>8. QED BY <2>1, <2>2, <2>3, <2>5, <2>6, <2>7 DEF Next
<1>3. QED BY <1>1, <1>2, TypeCorrect, PTL DEF Spec

\* A row says delivered, or keeps a delivered_at, only if an inbox took the
\* activity, whatever invocations, owners and crashes race for the row.
THEOREM DeliveredIsAccepted == Spec => []DeliveredMeansAccepted
<1>1. AcceptedInv => DeliveredMeansAccepted
  BY DEF AcceptedInv
<1>2. QED BY <1>1, AcceptedIsInvariant, PTL

-----------------------------------------------------------------------------
(* What a row or an invocation has counted, a failed POST or an owner's    *)
(* retry pays for.                                                         *)

Paid(d, n) == d \notin blocked => n <= failures[d] + reopened[d]

CountInv ==
  /\ NoEarlyGiveUp
  /\ \A d \in Delivery : Paid(d, retry_count[d])
  /\ \A w \in Worker :
       /\ pc[w] \in {"check", "block", "post", "sent"} => Paid(job[w], snapshot[w])
       /\ pc[w] = "refused" => Paid(job[w], snapshot[w] + 1)

\* No row is given up for HTTP failures before RetryLimit + 1 attempts did
\* fail, however stale the counts that overlapping attempts write.
THEOREM GivesUpLate == Spec => []NoEarlyGiveUp
<1> USE DeliveryAssumption
    DEF TypeOK, CountInv, NoEarlyGiveUp, Paid, Open, Status,
        rows, queue, run, requests, history, bounds
<1>1. Init => CountInv
  BY DEF Init
<1>2. TypeOK /\ CountInv /\ [Next]_vars => CountInv'
  <2> SUFFICES ASSUME TypeOK, CountInv, [Next]_vars PROVE CountInv'
    OBVIOUS
  <2>1. ASSUME NEW d \in Delivery, Owner(d) PROVE CountInv'
    <3>1. CASE InsertRow(d) BY <3>1 DEF InsertRow
    <3>2. CASE ExpungeRow(d) BY <3>2 DEF ExpungeRow
    <3>3. CASE SetAllowed(d) BY <3>3 DEF SetAllowed
    <3>4. CASE \E action \in OwnerAction : OwnerCheck(action, d)
      BY <3>4 DEF OwnerCheck
    <3>5. CASE OwnerRetry(d)
      <4>1. CASE UNCHANGED <<status, retry_count, error_message, reopened>>
        BY <3>5, <4>1 DEF OwnerRetry
      <4>2. CASE /\ status' = [status EXCEPT ![d] = "queued"]
                 /\ retry_count' = [retry_count EXCEPT ![d] = @ + 1]
                 /\ error_message' = [error_message EXCEPT ![d] = "none"]
                 /\ reopened' = [reopened EXCEPT ![d] = @ + 1]
        <5>1. UNCHANGED <<pc, job, snapshot, failures, blocked>>
          BY <3>5 DEF OwnerRetry
        <5>2. \A e \in Delivery : failures[e] \in Nat /\ reopened[e] \in Nat
          BY DEF TypeOK
        <5>3. ASSUME NEW e \in Delivery, NEW n \in Nat, Paid(e, n) PROVE Paid(e, n)'
          BY <4>2, <5>1, <5>2, <5>3
        <5>4. ASSUME NEW e \in Delivery PROVE Paid(e, retry_count[e])'
          BY <4>2, <5>1, <5>2
        <5>5. NoEarlyGiveUp'
          BY <4>2, <5>1, <5>2
        <5>6. QED BY <5>1, <5>3, <5>4, <5>5
      <4>3. QED BY <3>5, <4>1, <4>2 DEF OwnerRetry
    <3>6. CASE OwnerCancel(d) BY <3>6 DEF OwnerCancel
    <3>7. QED BY <2>1, <3>1, <3>2, <3>3, <3>4, <3>5, <3>6 DEF Owner
  <2>2. ASSUME NEW d \in Delivery, Enqueue(d) PROVE CountInv'
    <3>1. CASE EnqueueCheck(d) BY <3>1 DEF EnqueueCheck
    <3>2. CASE EnqueueFail(d) BY <3>2 DEF EnqueueFail
    <3>3. ASSUME NEW m \in Message, EnqueueSend(d, m) PROVE CountInv'
      BY <3>3 DEF EnqueueSend
    <3>4. QED BY <2>2, <3>1, <3>2, <3>3 DEF Enqueue
  <2>3. ASSUME NEW w \in Worker, Start(w) PROVE CountInv'
    <3>1. ASSUME NEW m \in Message, Lease(w, m) PROVE CountInv'
      BY <3>1 DEF Lease, Begin
    <3>2. ASSUME NEW d \in Delivery, AdminProcess(w, d) PROVE CountInv'
      BY <3>2 DEF AdminProcess, Begin
    <3>3. QED BY <2>3, <3>1, <3>2 DEF Start
  <2>4. ASSUME NEW w \in Worker, Redeliver(w) PROVE CountInv'
    BY <2>4 DEF Redeliver, End
  <2>5. ASSUME NEW w \in Worker, Work(w) PROVE CountInv'
    <3>1. CASE Select(w) BY <3>1 DEF Select
    <3>2. CASE CheckHost(w) BY <3>2 DEF CheckHost
    <3>3. CASE Post(w) BY <3>3 DEF Post
    <3>4. CASE MarkDelivered(w) BY <3>4 DEF MarkDelivered, UpdateRow
    <3>5. CASE MarkRefused(w) BY <3>5 DEF MarkRefused, UpdateRow, NewStatus
    <3>6. CASE MarkBlocked(w) BY <3>6 DEF MarkBlocked, UpdateRow, NewStatus
    <3>7. CASE Again(w) BY <3>7, <2>4 DEF Again
    <3>8. CASE Ack(w) BY <3>8 DEF Ack, End
    <3>9. QED BY <2>5, <3>1, <3>2, <3>3, <3>4, <3>5, <3>6, <3>7, <3>8 DEF Work
  <2>6. ASSUME NEW w \in Worker, Break(w) PROVE CountInv'
    <3>1. CASE LoseUpdate(w) BY <3>1 DEF LoseUpdate
    <3>2. CASE Fail(w) BY <3>2 DEF Fail
    <3>3. CASE Crash(w) BY <3>3, <2>4 DEF Crash
    <3>4. QED BY <2>6, <3>1, <3>2, <3>3 DEF Break
  <2>7. CASE UNCHANGED vars BY <2>7 DEF vars
  <2>8. QED BY <2>1, <2>2, <2>3, <2>5, <2>6, <2>7 DEF Next
<1>3. CountInv => NoEarlyGiveUp
  OBVIOUS
<1>4. QED BY <1>1, <1>2, <1>3, TypeCorrect, PTL DEF Spec

-----------------------------------------------------------------------------
(* The messages and their carriers, and the message that a row the queue   *)
(* has taken over still has coming.                                        *)

Holding ==
  /\ \A w \in Worker : pc[w] = "idle" => carrier[w] = NoMessage
  /\ \A w \in Worker : carrier[w] # NoMessage =>
       mstate[carrier[w]] = "leased" /\ mfor[carrier[w]] = job[w]
  /\ \A v, w \in Worker :
       carrier[v] = carrier[w] /\ carrier[v] # NoMessage => v = w

\* m will bring d to an invocation again, or is with one that has not
\* decided to ack it.
Brings(m, d) ==
  /\ mfor[m] = d /\ Live(m)
  /\ \A w \in Worker : carrier[w] = m => pc[w] # "ack"

CarryInv ==
  /\ Holding
  /\ \A d \in carried : status[d] \in Open => \E m \in Message : Brings(m, d)
  /\ \A d \in carried \cup enqueuing : status[d] # "none"

\* Invocations hold their messages, and these bring the rows that are carried.
LEMMA CarryIsInvariant == Spec => []CarryInv
<1> USE DeliveryAssumption
    DEF TypeOK, CarryInv, Holding, Brings, Live, Open, Status, MessageState,
        rows, queue, run, requests, history, bounds
<1>1. Init => CarryInv
  BY DEF Init
<1>2. TypeOK /\ CarryInv /\ [Next]_vars => CarryInv'
  <2> SUFFICES ASSUME TypeOK, CarryInv, [Next]_vars PROVE CarryInv'
    OBVIOUS
  <2>1. ASSUME NEW d \in Delivery, Owner(d) PROVE CarryInv'
    <3>1. CASE InsertRow(d) BY <3>1 DEF InsertRow
    <3>2. CASE ExpungeRow(d) BY <3>2 DEF ExpungeRow
    <3>3. CASE SetAllowed(d) BY <3>3 DEF SetAllowed
    <3>4. CASE \E action \in OwnerAction : OwnerCheck(action, d)
      BY <3>4 DEF OwnerCheck
    <3>5. CASE OwnerRetry(d) BY <3>5 DEF OwnerRetry
    <3>6. CASE OwnerCancel(d) BY <3>6 DEF OwnerCancel, Exists
    <3>7. QED BY <2>1, <3>1, <3>2, <3>3, <3>4, <3>5, <3>6 DEF Owner
  <2>2. ASSUME NEW d \in Delivery, Enqueue(d) PROVE CarryInv'
    <3>1. CASE EnqueueCheck(d) BY <3>1 DEF EnqueueCheck
    <3>2. CASE EnqueueFail(d) BY <3>2 DEF EnqueueFail
    <3>3. ASSUME NEW m \in Message, EnqueueSend(d, m) PROVE CarryInv'
      <4>1. Holding' BY <3>3 DEF EnqueueSend
      <4>2. Brings(m, d)' BY <3>3 DEF EnqueueSend
      <4>3. ASSUME NEW e \in Delivery, NEW n \in Message, Brings(n, e)
            PROVE  Brings(n, e)'
        BY <3>3, <4>3 DEF EnqueueSend
      <4>4. QED BY <3>3, <4>1, <4>2, <4>3 DEF EnqueueSend
    <3>4. QED BY <2>2, <3>1, <3>2, <3>3 DEF Enqueue
  <2>3. ASSUME NEW w \in Worker, Start(w) PROVE CarryInv'
    <3>1. ASSUME NEW m \in Message, Lease(w, m) PROVE CarryInv'
      BY <3>1 DEF Lease, Begin
    <3>2. ASSUME NEW d \in Delivery, AdminProcess(w, d) PROVE CarryInv'
      BY <3>2 DEF AdminProcess, Begin
    <3>3. QED BY <2>3, <3>1, <3>2 DEF Start
  <2>4. ASSUME NEW w \in Worker, Redeliver(w) PROVE CarryInv'
    BY <2>4 DEF Redeliver, End, AfterRetry
  <2>5. ASSUME NEW w \in Worker, Work(w) PROVE CarryInv'
    <3>1. CASE Select(w) BY <3>1 DEF Select
    <3>2. CASE CheckHost(w) BY <3>2 DEF CheckHost
    <3>3. CASE Post(w) BY <3>3 DEF Post
    <3>4. CASE MarkDelivered(w) BY <3>4 DEF MarkDelivered, UpdateRow, Exists
    <3>5. CASE MarkRefused(w)
      BY <3>5 DEF MarkRefused, UpdateRow, NewStatus, Retryable, Exists
    <3>6. CASE MarkBlocked(w)
      BY <3>6 DEF MarkBlocked, UpdateRow, NewStatus, Exists
    <3>7. CASE Again(w) BY <3>7, <2>4 DEF Again
    <3>8. CASE Ack(w) BY <3>8 DEF Ack, End
    <3>9. QED BY <2>5, <3>1, <3>2, <3>3, <3>4, <3>5, <3>6, <3>7, <3>8 DEF Work
  <2>6. ASSUME NEW w \in Worker, Break(w) PROVE CarryInv'
    <3>1. CASE LoseUpdate(w) BY <3>1 DEF LoseUpdate
    <3>2. CASE Fail(w) BY <3>2 DEF Fail
    <3>3. CASE Crash(w) BY <3>3, <2>4 DEF Crash
    <3>4. QED BY <2>6, <3>1, <3>2, <3>3 DEF Break
  <2>7. CASE UNCHANGED vars BY <2>7 DEF vars
  <2>8. QED BY <2>1, <2>2, <2>3, <2>5, <2>6, <2>7 DEF Next
<1>3. QED BY <1>1, <1>2, TypeCorrect, PTL DEF Spec

\* An open row that the queue has taken over, and nothing has taken back,
\* has a message on its way: acks and statuses agree under every overlap.
THEOREM RowsAreCarried == Spec => []OpenRowIsCarried
<1>1. CarryInv => OpenRowIsCarried
  BY DEF CarryInv, Brings, OpenRowIsCarried
<1>2. QED BY <1>1, CarryIsInvariant, PTL

-----------------------------------------------------------------------------
(* What the queue gives up.                                                *)

\* Whatever carries or works on a row has one, if it is not expunged by now; and
\* a message is new when it is sent.
KnownInv ==
  /\ \A m \in Message : Live(m) => status[mfor[m]] # "none"
  /\ \A m \in Message : mstate[m] = "unsent" => attempts[m] = 0
  /\ \A w \in Worker : pc[w] # "idle" => status[job[w]] # "none"

\* No row is taken for one that was never inserted.
LEMMA KnownIsInvariant == Spec => []KnownInv
<1> USE DeliveryAssumption
    DEF TypeOK, KnownInv, CarryInv, Holding, Live, Open, Status, MessageState, Exists,
        rows, queue, run, requests, history, bounds
<1>1. Init => KnownInv
  BY DEF Init
<1>2. TypeOK /\ CarryInv /\ KnownInv /\ [Next]_vars => KnownInv'
  <2> SUFFICES ASSUME TypeOK, CarryInv, KnownInv, [Next]_vars PROVE KnownInv'
    OBVIOUS
  <2>1. ASSUME NEW d \in Delivery, Owner(d) PROVE KnownInv'
    <3>1. CASE InsertRow(d) BY <3>1 DEF InsertRow
    <3>2. CASE ExpungeRow(d) BY <3>2 DEF ExpungeRow
    <3>3. CASE SetAllowed(d) BY <3>3 DEF SetAllowed
    <3>4. CASE \E action \in OwnerAction : OwnerCheck(action, d)
      BY <3>4 DEF OwnerCheck
    <3>5. CASE OwnerRetry(d) BY <3>5 DEF OwnerRetry
    <3>6. CASE OwnerCancel(d) BY <3>6 DEF OwnerCancel
    <3>7. QED BY <2>1, <3>1, <3>2, <3>3, <3>4, <3>5, <3>6 DEF Owner
  <2>2. ASSUME NEW d \in Delivery, Enqueue(d) PROVE KnownInv'
    <3>1. CASE EnqueueCheck(d) BY <3>1 DEF EnqueueCheck
    <3>2. CASE EnqueueFail(d) BY <3>2 DEF EnqueueFail
    <3>3. ASSUME NEW m \in Message, EnqueueSend(d, m) PROVE KnownInv'
      BY <3>3 DEF EnqueueSend
    <3>4. QED BY <2>2, <3>1, <3>2, <3>3 DEF Enqueue
  <2>3. ASSUME NEW w \in Worker, Start(w) PROVE KnownInv'
    <3>1. ASSUME NEW m \in Message, Lease(w, m) PROVE KnownInv'
      BY <3>1 DEF Lease, Begin
    <3>2. ASSUME NEW d \in Delivery, AdminProcess(w, d) PROVE KnownInv'
      BY <3>2 DEF AdminProcess, Begin
    <3>3. QED BY <2>3, <3>1, <3>2 DEF Start
  <2>4. ASSUME NEW w \in Worker, Redeliver(w) PROVE KnownInv'
    BY <2>4 DEF Redeliver, End, AfterRetry
  <2>5. ASSUME NEW w \in Worker, Work(w) PROVE KnownInv'
    <3>1. CASE Select(w) BY <3>1 DEF Select
    <3>2. CASE CheckHost(w) BY <3>2 DEF CheckHost
    <3>3. CASE Post(w) BY <3>3 DEF Post
    <3>4. CASE MarkDelivered(w) BY <3>4 DEF MarkDelivered, UpdateRow
    <3>5. CASE MarkRefused(w) BY <3>5 DEF MarkRefused, UpdateRow, NewStatus
    <3>6. CASE MarkBlocked(w) BY <3>6 DEF MarkBlocked, UpdateRow, NewStatus
    <3>7. CASE Again(w) BY <3>7, <2>4 DEF Again
    <3>8. CASE Ack(w) BY <3>8 DEF Ack, End
    <3>9. QED BY <2>5, <3>1, <3>2, <3>3, <3>4, <3>5, <3>6, <3>7, <3>8 DEF Work
  <2>6. ASSUME NEW w \in Worker, Break(w) PROVE KnownInv'
    <3>1. CASE LoseUpdate(w) BY <3>1 DEF LoseUpdate
    <3>2. CASE Fail(w) BY <3>2 DEF Fail
    <3>3. CASE Crash(w) BY <3>3, <2>4 DEF Crash
    <3>4. QED BY <2>6, <3>1, <3>2, <3>3 DEF Break
  <2>7. CASE UNCHANGED vars BY <2>7 DEF vars
  <2>8. QED BY <2>1, <2>2, <2>3, <2>5, <2>6, <2>7 DEF Next
<1>3. QED BY <1>1, <1>2, TypeCorrect, CarryIsInvariant, PTL DEF Spec

\* A row's count tells of n attempts, if the row is there.
Counted(d, n) == status[d] = "gone" \/ n <= retry_count[d]
Trying == {"check", "block", "post", "sent", "refused"}

\* Without a fault, the attempts that a message has used up are counted in its row,
\* or in what the invocation will write to it: what the count was when it was read
\* covers every message of the row.
Waits(m) ==
  mstate[m] = "waiting" => attempts[m] <= RetryLimit /\ Counted(mfor[m], attempts[m])
Carries(w) ==
  \A m \in Message : carrier[w] = m /\ pc[w] # "idle" =>
    /\ pc[w] = "select" => \/ status[job[w]] = "gone"
                           \/ attempts[m] <= retry_count[job[w]] + 1
    /\ pc[w] \in Trying => attempts[m] <= snapshot[w] + 1
    /\ pc[w] = "again" => attempts[m] <= RetryLimit /\ Counted(job[w], attempts[m])
Covers(w) ==
  pc[w] \in Trying =>
    \A m \in Message : mstate[m] = "waiting" /\ mfor[m] = job[w] => attempts[m] <= snapshot[w]
BudgetInv ==
  faults = 0 =>
    /\ \A m \in Message : mstate[m] # "dead" /\ Waits(m)
    /\ \A w \in Worker : Carries(w) /\ Covers(w)

\* One invocation at a time, and a queue that tries as often as the code counts
\* (the two limits are 3 in the code and in the queue's configuration).
OneAtATime == \A v, w \in Worker : v = w
LimitsMatch == RetryLimit <= MaxRetries

\* So after every step, if invocations do not overlap.
LEMMA BudgetStep ==
  ASSUME OneAtATime, LimitsMatch, TypeOK, CarryInv, KnownInv, BudgetInv, [Next]_vars
  PROVE  BudgetInv'
<1> USE DeliveryAssumption
    DEF TypeOK, CarryInv, Holding, KnownInv, BudgetInv, Live, Waits, Carries, Covers, Counted,
        Trying, Open, Status, MessageState, Phase, Exists,
        rows, queue, run, requests, history, bounds
<1>1. ASSUME NEW d \in Delivery, Owner(d) PROVE BudgetInv'
  <2>1. CASE InsertRow(d) BY <1>1, <2>1 DEF InsertRow
  <2>2. CASE ExpungeRow(d) BY <2>2 DEF ExpungeRow
  <2>3. CASE SetAllowed(d) BY <2>3 DEF SetAllowed
  <2>4. CASE \E action \in OwnerAction : OwnerCheck(action, d)
    BY <2>4 DEF OwnerCheck
  <2>5. CASE OwnerRetry(d) BY <2>5 DEF OwnerRetry
  <2>6. CASE OwnerCancel(d) BY <2>6 DEF OwnerCancel
  <2>7. QED BY <1>1, <2>1, <2>2, <2>3, <2>4, <2>5, <2>6 DEF Owner
<1>2. ASSUME NEW d \in Delivery, Enqueue(d) PROVE BudgetInv'
  <2>1. CASE EnqueueCheck(d) BY <2>1 DEF EnqueueCheck
  <2>2. CASE EnqueueFail(d) BY <2>2 DEF EnqueueFail
  <2>3. ASSUME NEW m \in Message, EnqueueSend(d, m) PROVE BudgetInv'
    BY <2>3 DEF EnqueueSend
  <2>4. QED BY <1>2, <2>1, <2>2, <2>3 DEF Enqueue
<1>3. ASSUME NEW w \in Worker, Start(w) PROVE BudgetInv'
  <2>1. ASSUME NEW m \in Message, Lease(w, m) PROVE BudgetInv'
    BY <2>1 DEF Lease, Begin
  <2>2. ASSUME NEW d \in Delivery, AdminProcess(w, d) PROVE BudgetInv'
    BY <2>2 DEF AdminProcess, Begin
  <2>3. QED BY <1>3, <2>1, <2>2 DEF Start
<1>4. ASSUME NEW w \in Worker, Work(w) PROVE BudgetInv'
  <2>1. CASE Select(w) BY <2>1 DEF Select
  <2>2. CASE CheckHost(w) BY <2>2 DEF CheckHost
  <2>3. CASE Post(w) BY <2>3 DEF Post
  <2>4. CASE MarkDelivered(w) BY <2>4 DEF MarkDelivered, UpdateRow
  <2>5. CASE MarkRefused(w)
    BY <2>5 DEF MarkRefused, UpdateRow, NewStatus, Retryable, OneAtATime
  <2>6. CASE MarkBlocked(w) BY <2>6 DEF MarkBlocked, UpdateRow, NewStatus, OneAtATime
  <2>7. CASE Again(w)
    BY <2>7 DEF Again, Redeliver, End, AfterRetry, OneAtATime, LimitsMatch
  <2>8. CASE Ack(w) BY <2>8 DEF Ack, End
  <2>9. QED BY <1>4, <2>1, <2>2, <2>3, <2>4, <2>5, <2>6, <2>7, <2>8 DEF Work
<1>5. ASSUME NEW w \in Worker, Break(w) PROVE BudgetInv'
  BY <1>5 DEF Break, LoseUpdate, Fail, Crash
<1>6. CASE UNCHANGED vars BY <1>6 DEF vars
<1>7. QED BY <1>1, <1>2, <1>3, <1>4, <1>5, <1>6 DEF Next

\* Without a fault no message is given up, as long as invocations do not overlap:
\* however many messages a row has, and whatever the owner does to it meanwhile.
THEOREM DeadLettersAreFaults ==
  ASSUME OneAtATime, LimitsMatch
  PROVE  Spec => []DeadLetterNeedsFault
<1>1. Init => BudgetInv
  BY DEF Init, BudgetInv, Waits, Carries, Covers, Trying
<1>2. TypeOK /\ CarryInv /\ KnownInv /\ BudgetInv /\ [Next]_vars => BudgetInv'
  BY BudgetStep
<1>3. TypeOK /\ BudgetInv => DeadLetterNeedsFault
  BY DEF BudgetInv, DeadLetterNeedsFault, TypeOK
<1>4. QED
  BY <1>1, <1>2, <1>3, TypeCorrect, CarryIsInvariant, KnownIsInvariant, PTL DEF Spec

-----------------------------------------------------------------------------
\* While no invocation has read it, nobody starts to send a row the owner cancelled,
\* and only the owner's retry reopens it.
THEOREM CancelHolds == Spec => CancelHoldsWhenIdle
<1> DEFINE Holds == \A d \in Delivery : Cancelled(d) /\ ~InFlight(d) => KeepsCancel(d)
<1>1. TypeOK /\ [Next]_vars => [Holds]_vars
  <2> SUFFICES ASSUME TypeOK, Next, NEW c \in Delivery, Cancelled(c), ~InFlight(c)
               PROVE  KeepsCancel(c)
    OBVIOUS
  <2> USE DEF TypeOK, Cancelled, InFlight, KeepsCancel, Open, Status,
              rows, queue, run, requests, history, bounds
  <2>1. ASSUME NEW d \in Delivery, Owner(d) PROVE KeepsCancel(c)
    <3>1. CASE InsertRow(d) BY <3>1 DEF InsertRow
    <3>2. CASE ExpungeRow(d) BY <3>2 DEF ExpungeRow
    <3>3. CASE SetAllowed(d) BY <3>3 DEF SetAllowed
    <3>4. CASE \E action \in OwnerAction : OwnerCheck(action, d)
      BY <3>4 DEF OwnerCheck
    <3>5. CASE OwnerRetry(d) BY <3>5 DEF OwnerRetry
    <3>6. CASE OwnerCancel(d) BY <3>6 DEF OwnerCancel
    <3>7. QED BY <2>1, <3>1, <3>2, <3>3, <3>4, <3>5, <3>6 DEF Owner
  <2>2. ASSUME NEW d \in Delivery, Enqueue(d) PROVE KeepsCancel(c)
    BY <2>2 DEF Enqueue, EnqueueCheck, EnqueueFail, EnqueueSend
  <2>3. ASSUME NEW w \in Worker, Start(w) PROVE KeepsCancel(c)
    BY <2>3 DEF Start, Lease, AdminProcess, Begin
  <2>4. ASSUME NEW w \in Worker, Redeliver(w) PROVE KeepsCancel(c)
    BY <2>4 DEF Redeliver, End
  <2>5. ASSUME NEW w \in Worker, Work(w) PROVE KeepsCancel(c)
    <3>1. CASE Select(w) BY <3>1 DEF Select
    <3>2. CASE CheckHost(w) BY <3>2 DEF CheckHost
    <3>3. CASE Post(w) BY <3>3 DEF Post
    <3>4. CASE MarkDelivered(w) BY <3>4 DEF MarkDelivered, UpdateRow
    <3>5. CASE MarkRefused(w) BY <3>5 DEF MarkRefused, UpdateRow
    <3>6. CASE MarkBlocked(w) BY <3>6 DEF MarkBlocked, UpdateRow
    <3>7. CASE Again(w) BY <3>7, <2>4 DEF Again
    <3>8. CASE Ack(w) BY <3>8 DEF Ack, End
    <3>9. QED BY <2>5, <3>1, <3>2, <3>3, <3>4, <3>5, <3>6, <3>7, <3>8 DEF Work
  <2>6. ASSUME NEW w \in Worker, Break(w) PROVE KeepsCancel(c)
    BY <2>6, <2>4 DEF Break, LoseUpdate, Fail, Crash
  <2>7. QED BY <2>1, <2>2, <2>3, <2>5, <2>6 DEF Next
<1>2. QED BY <1>1, TypeCorrect, PTL DEF Spec, CancelHoldsWhenIdle

-----------------------------------------------------------------------------
(* The pipeline implements Outbox.  Each step is one step of Outbox or none. *)

Busy == {"check", "block", "post", "sent", "refused"}

StateBar == [d \in Delivery |-> State(status[d])]

Stutters == UNCHANGED <<StateBar, InHand, accepted>>

\* Whom the owner's requests and the invocations other than w keep in hand is
\* kept in hand when w alone lets go, and w's row may be.
LEMMA HandsOff ==
  ASSUME TypeOK, TypeOK', NEW w \in Worker, UNCHANGED owner_ops,
         pc'[w] \notin Busy,
         \A v \in Worker \ {w} : pc'[v] = pc[v] /\ job'[v] = job[v]
  PROVE  /\ InHand' \in {InHand, InHand \ {job[w]}}
         /\ pc[w] \notin Busy => InHand' = InHand
         /\ pc[w] \in Busy => job[w] \in InHand
<1> USE DEF InHand, InFlight, Busy
<1>1. \A d \in Delivery \ {job[w]} : d \in InHand <=> d \in InHand'
  OBVIOUS
<1>2. job[w] \in InHand' => job[w] \in InHand
  OBVIOUS
<1>3. pc[w] \notin Busy /\ job[w] \in InHand => job[w] \in InHand'
  OBVIOUS
<1>4. InHand \subseteq Delivery /\ InHand' \subseteq Delivery
  OBVIOUS
<1>5. pc[w] \in Busy => job[w] \in InHand
  BY DEF TypeOK, run
<1> HIDE DEF InHand, InFlight, Busy
<1>6. CASE job[w] \in InHand' <=> job[w] \in InHand
  <2>1. InHand' = InHand
    BY <1>1, <1>4, <1>6
  <2>2. QED BY <2>1, <1>5
<1>7. CASE ~(job[w] \in InHand' <=> job[w] \in InHand)
  <2>1. InHand' = InHand \ {job[w]}
    BY <1>1, <1>2, <1>4, <1>7
  <2>2. pc[w] \in Busy
    BY <1>2, <1>3, <1>7
  <2>3. QED BY <2>1, <2>2, <1>5
<1>8. QED BY <1>6, <1>7

\* An invocation that ends, or has to, drops its row or had none.
LEMMA LetsGo ==
  ASSUME TypeOK, TypeOK', NEW w \in Worker, UNCHANGED <<status, accepted, owner_ops>>,
         pc'[w] \notin Busy,
         \A v \in Worker \ {w} : pc'[v] = pc[v] /\ job'[v] = job[v]
  PROVE  Promise!Next \/ Stutters
<1>1. /\ InHand' \in {InHand, InHand \ {job[w]}}
      /\ pc[w] \notin Busy => InHand' = InHand
      /\ pc[w] \in Busy => job[w] \in InHand
  BY HandsOff
<1>2. StateBar' = StateBar
  BY DEF StateBar
<1>3. CASE pc[w] \notin Busy
  BY <1>1, <1>2, <1>3 DEF Stutters
<1>4. CASE pc[w] \in Busy
  <2>1. Promise!Drop(job[w])
    BY <1>1, <1>2, <1>4 DEF Promise!Drop, Promise!PutBack, StateBar
  <2>2. job[w] \in Delivery
    BY DEF TypeOK, run
  <2>3. QED BY <2>1, <2>2 DEF Promise!Next
<1>5. QED BY <1>3, <1>4

\* An UPDATE of the row that an invocation has in hand settles it.
LEMMA Settles ==
  ASSUME TypeOK, TypeOK', NEW w \in Worker, NEW st \in {"queued", "retry", "delivered", "failed"},
         NEW rc, NEW err, UpdateRow(job[w], st, rc, err),
         st = "delivered" => job[w] \in accepted,
         pc[w] \in Busy, pc'[w] \notin Busy, UNCHANGED <<accepted, owner_ops>>,
         \A v \in Worker \ {w} : pc'[v] = pc[v] /\ job'[v] = job[v]
  PROVE  Promise!Next \/ Stutters
<1> DEFINE e == job[w]
<1>0. e \in Delivery /\ status \in [Delivery -> Status]
  BY DEF TypeOK, run, rows
<1>1. InHand' \in {InHand, InHand \ {e}} /\ e \in InHand
  BY HandsOff
<1>2. CASE UNCHANGED rows
  BY <1>2, LetsGo DEF rows
<1>3. CASE Exists(e) /\ status' = [status EXCEPT ![e] = st]
  <2>1. State(status[e]) \in {"open", "delivered", "failed"}
    BY <1>0, <1>3 DEF State, Status, Open, Exists
  <2>2. State(st) \in {"open", "delivered", "failed"} /\ (State(st) = "delivered" => st = "delivered")
    BY DEF State, Open
  <2>3. StateBar' = [StateBar EXCEPT ![e] = State(st)]
    BY <1>0, <1>3 DEF StateBar
  <2>4. Promise!Settle(e, State(st))
    BY <1>0, <1>1, <2>1, <2>2, <2>3 DEF Promise!Settle, Promise!Settled, Promise!PutBack, StateBar
  <2>5. QED BY <1>0, <2>2, <2>4 DEF Promise!Next, Promise!Settled
<1>4. QED BY <1>2, <1>3 DEF UpdateRow

\* The owner's UPDATE, with the request's row in hand until then.
LEMMA OwnerSettles ==
  ASSUME TypeOK, TypeOK', NEW d \in Delivery, NEW a \in OwnerAction,
         NEW st \in {"queued", "failed"},
         <<a, d>> \in owner_ops, owner_ops' = owner_ops \ {<<a, d>>},
         \/ UNCHANGED status
         \/ Exists(d) /\ status' = [status EXCEPT ![d] = st],
         UNCHANGED <<accepted, run>>
  PROVE  Promise!Next \/ Stutters
<1>0. status \in [Delivery -> Status]
  BY DEF TypeOK, rows
<1>1. d \in InHand
  BY DEF InHand
<1>2. InHand' \in {InHand, InHand \ {d}}
  <2>1. \A e \in Delivery \ {d} : e \in InHand <=> e \in InHand'
    BY DEF InHand, InFlight, run
  <2>2. InHand \subseteq Delivery /\ InHand' \subseteq Delivery
    BY DEF InHand
  <2>3. QED BY <1>1, <2>1, <2>2
<1>3. CASE UNCHANGED status
  <2>1. Promise!Drop(d)
    BY <1>1, <1>2, <1>3 DEF Promise!Drop, Promise!PutBack
  <2>2. QED BY <2>1 DEF Promise!Next
<1>4. CASE Exists(d) /\ status' = [status EXCEPT ![d] = st]
  <2>1. State(status[d]) \in {"open", "delivered", "failed"}
    BY <1>0, <1>4 DEF State, Status, Open, Exists
  <2>2. State(st) \in {"open", "failed"}
    BY DEF State, Open
  <2>3. StateBar' = [StateBar EXCEPT ![d] = State(st)]
    BY <1>0, <1>4 DEF StateBar
  <2>4. Promise!Settle(d, State(st))
    BY <1>0, <1>1, <1>2, <2>1, <2>2, <2>3
       DEF Promise!Settle, Promise!Settled, Promise!PutBack, StateBar
  <2>5. QED BY <2>2, <2>4 DEF Promise!Next, Promise!Settled
<1>5. QED BY <1>3, <1>4

\* The pipeline keeps the promise of Outbox: a delivery that nobody has in hand
\* changes only as Outbox says, whatever overlaps, is redelivered or crashes.
THEOREM KeepsPromise == Spec => PromiseKept
<1>1. Init => Promise!Init
  <2> SUFFICES ASSUME Init PROVE Promise!Init
    OBVIOUS
  <2>1. InHand = {}
    BY DEF Init, InHand, InFlight
  <2>2. StateBar = [d \in Delivery |-> "none"]
    BY DEF Init, StateBar, State, Open
  <2>3. QED BY <2>1, <2>2 DEF Init, StateBar, Promise!Init
<1>2. TypeOK /\ TypeOK' /\ AcceptedInv /\ [Next]_vars => [Promise!Next]_(Promise!vars)
  <2> SUFFICES ASSUME TypeOK, TypeOK', AcceptedInv, [Next]_vars
               PROVE  Promise!Next \/ Stutters
    BY DEF Promise!vars, Stutters, StateBar
  <2>0. /\ status \in [Delivery -> Status]
        /\ pc \in [Worker -> Phase] /\ job \in [Worker -> Delivery]
    BY DEF TypeOK, rows, run
  <2>1. ASSUME UNCHANGED <<status, pc, job, owner_ops, accepted>> PROVE Stutters
    BY <2>1 DEF Stutters, StateBar, InHand, InFlight
  <2>2. ASSUME NEW d \in Delivery, Owner(d) PROVE Promise!Next \/ Stutters
    <3>1. CASE InsertRow(d)
      <4>1. UNCHANGED <<InHand, accepted>>
        BY <3>1 DEF InsertRow, InHand, InFlight, run, requests, history
      <4>2. StateBar[d] = "none" /\ StateBar' = [StateBar EXCEPT ![d] = "open"]
        BY <2>0, <3>1 DEF InsertRow, StateBar, State, Open
      <4>3. Promise!Enter(d)
        BY <4>1, <4>2 DEF Promise!Enter, StateBar
      <4>4. QED BY <4>3 DEF Promise!Next
    <3>2. CASE ExpungeRow(d)
      <4>1. UNCHANGED <<InHand, accepted>>
        BY <3>2 DEF ExpungeRow, InHand, InFlight, run, requests, history
      <4>2. StateBar[d] # "none" /\ StateBar' = [StateBar EXCEPT ![d] = "gone"]
        BY <2>0, <3>2 DEF ExpungeRow, Exists, StateBar, State, Open
      <4>3. Promise!Expunge(d)
        BY <4>1, <4>2 DEF Promise!Expunge, StateBar
      <4>4. QED BY <4>3 DEF Promise!Next
    <3>3. CASE SetAllowed(d)
      BY <3>3, <2>1 DEF SetAllowed, rows, run, requests, history
    <3>4. ASSUME NEW a \in OwnerAction, OwnerCheck(a, d) PROVE Promise!Next
      <4>1. InHand' = InHand \cup {d} /\ UNCHANGED accepted
        BY <3>4 DEF OwnerCheck, InHand, InFlight, run, history
      <4>2. StateBar[d] \in {"open", "failed"} /\ StateBar' = StateBar
        BY <2>0, <3>4 DEF OwnerCheck, Exists, StateBar, State, Status, Open, rows
      <4>3. Promise!TakeUp(d)
        BY <4>1, <4>2 DEF Promise!TakeUp, StateBar
      <4>4. QED BY <4>3 DEF Promise!Next
    <3>5. CASE OwnerRetry(d)
      BY <3>5, OwnerSettles DEF OwnerRetry, OwnerAction, rows
    <3>6. CASE OwnerCancel(d)
      BY <3>6, OwnerSettles DEF OwnerCancel, OwnerAction, rows, history
    <3>7. QED BY <2>2, <3>1, <3>2, <3>3, <3>4, <3>5, <3>6 DEF Owner
  <2>3. ASSUME NEW d \in Delivery, Enqueue(d) PROVE Stutters
    BY <2>3, <2>1 DEF Enqueue, EnqueueCheck, EnqueueFail, EnqueueSend,
                      rows, run, requests, history
  <2>4. ASSUME NEW w \in Worker, Start(w) PROVE Stutters
    <3>1. /\ UNCHANGED <<status, accepted, owner_ops>> /\ pc[w] = "idle"
          /\ \E d \in Delivery : job' = [job EXCEPT ![w] = d]
          /\ pc' = [pc EXCEPT ![w] = "select"]
      BY <2>4 DEF Start, Lease, AdminProcess, Begin, TypeOK, queue, rows, requests, history
    <3>2. InHand' = InHand
      BY <2>0, <3>1 DEF InHand, InFlight
    <3>3. QED BY <3>1, <3>2 DEF Stutters, StateBar
  <2>5. ASSUME NEW w \in Worker, Redeliver(w) PROVE Promise!Next \/ Stutters
    BY <2>0, <2>5, LetsGo DEF Redeliver, End, Busy, rows, requests
  <2>6. ASSUME NEW w \in Worker, Work(w) PROVE Promise!Next \/ Stutters
    <3>0. job[w] \in Delivery /\ (pc[w] = "sent" => job[w] \in accepted)
      BY <2>0 DEF AcceptedInv
    <3>1. CASE Select(w)
      <4>1. CASE status[job[w]] \in Open /\ pc' = [pc EXCEPT ![w] = "check"]
        <5>1. InHand' = InHand \cup {job[w]}
          BY <2>0, <3>0, <3>1, <4>1 DEF Select, InHand, InFlight, run, requests
        <5>2. StateBar[job[w]] = "open" /\ StateBar' = StateBar /\ UNCHANGED accepted
          BY <3>0, <3>1, <4>1 DEF Select, StateBar, State, rows, history
        <5>3. Promise!TakeUp(job[w])
          BY <5>1, <5>2 DEF Promise!TakeUp, StateBar
        <5>4. QED BY <3>0, <5>3 DEF Promise!Next
      <4>2. CASE pc' = [pc EXCEPT ![w] = "ack"]
        BY <2>0, <3>1, <4>2, LetsGo DEF Select, Busy, rows, requests, history
      <4>3. QED BY <3>1, <4>1, <4>2 DEF Select
    <3>2. CASE CheckHost(w)
      <4>1. /\ pc[w] = "check" /\ pc' \in {[pc EXCEPT ![w] = "post"], [pc EXCEPT ![w] = "block"]}
            /\ UNCHANGED <<status, job, accepted, owner_ops>>
        BY <3>2 DEF CheckHost, rows, requests, history
      <4>2. \A d \in Delivery : InFlight(d) <=> InFlight(d)'
        BY <2>0, <4>1 DEF InFlight
      <4>3. QED BY <4>1, <4>2 DEF Stutters, StateBar, InHand
    <3>3. CASE Post(w)
      <4>1. /\ pc[w] = "post" /\ pc' \in {[pc EXCEPT ![w] = "sent"], [pc EXCEPT ![w] = "refused"]}
            /\ UNCHANGED <<status, job, owner_ops>>
            /\ accepted' \in {accepted, accepted \cup {job[w]}}
        BY <3>3 DEF Post, rows, requests
      <4>2. \A d \in Delivery : InFlight(d) <=> InFlight(d)'
        BY <2>0, <4>1 DEF InFlight
      <4>3. StateBar' = StateBar /\ InHand' = InHand
        BY <4>1, <4>2 DEF StateBar, InHand
      <4>4. CASE accepted' = accepted
        BY <4>3, <4>4 DEF Stutters
      <4>5. CASE accepted' = accepted \cup {job[w]}
        <5>1. job[w] \in InHand
          BY <3>0, <4>1 DEF InHand, InFlight
        <5>2. Promise!Accept(job[w])
          BY <4>3, <4>5, <5>1 DEF Promise!Accept, StateBar
        <5>3. QED BY <3>0, <5>2 DEF Promise!Next
      <4>6. QED BY <4>1, <4>4, <4>5
    <3>4. CASE MarkDelivered(w)
      BY <2>0, <3>0, <3>4, Settles DEF MarkDelivered, Busy, requests, history
    <3>5. CASE MarkRefused(w)
      <4>1. NewStatus(snapshot[w]) \in {"queued", "retry", "delivered", "failed"} \ {"delivered"}
        BY DEF NewStatus
      <4>2. QED BY <2>0, <3>5, <4>1, Settles DEF MarkRefused, Busy, requests
    <3>6. CASE MarkBlocked(w)
      <4>1. NewStatus(RetryLimit) \in {"queued", "retry", "delivered", "failed"} \ {"delivered"}
        BY DEF NewStatus
      <4>2. QED BY <2>0, <3>6, <4>1, Settles DEF MarkBlocked, Busy, requests
    <3>7. CASE Again(w) BY <3>7, <2>5 DEF Again
    <3>8. CASE Ack(w)
      BY <2>0, <3>8, LetsGo DEF Ack, End, Busy, rows, requests, history
    <3>9. QED BY <2>6, <3>1, <3>2, <3>3, <3>4, <3>5, <3>6, <3>7, <3>8 DEF Work
  <2>7. ASSUME NEW w \in Worker, Break(w) PROVE Promise!Next \/ Stutters
    <3>1. CASE LoseUpdate(w)
      BY <2>0, <3>1, LetsGo DEF LoseUpdate, Busy, rows, requests
    <3>2. CASE Fail(w)
      BY <2>0, <3>2, LetsGo DEF Fail, Busy, rows, requests, history
    <3>3. CASE Crash(w) BY <3>3, <2>5 DEF Crash
    <3>4. QED BY <2>7, <3>1, <3>2, <3>3 DEF Break
  <2>8. CASE UNCHANGED vars
    BY <2>8, <2>1 DEF vars, rows, run, requests, history
  <2>9. QED BY <2>2, <2>3, <2>4, <2>6, <2>7, <2>8 DEF Next
<1>3. QED
  BY <1>1, <1>2, TypeCorrect, AcceptedIsInvariant, PTL
     DEF Spec, PromiseKept, Promise!Spec

=============================================================================
