------------------------------ MODULE Delivery ------------------------------
(***************************************************************************)
(* The delivery pipeline: rows of the D1 table `deliveries`, the           *)
(* Cloudflare queue that carries their ids, the invocations of             *)
(* `process_delivery` that POST them to remote inboxes (started by a queue *)
(* message or by an administrator's request), and the owner who retries,   *)
(* cancels or expunges rows meanwhile.                                     *)
(*                                                                         *)
(* Every `await` of the code is a point where other invocations run, so a  *)
(* handler is cut there: what it read before the await is kept in `job`    *)
(* and `snapshot`, and the UPDATE that follows is by id only, as in the    *)
(* code.  Bodies, signatures and headers are left out; what can fail while *)
(* they are built is a fault.  A batch of messages is treated as so many   *)
(* invocations.                                                            *)
(***************************************************************************)
EXTENDS Naturals

CONSTANTS
  Delivery,     \* ids of delivery rows
  Message,      \* messages the queue can ever hold
  Worker,       \* invocations of process_delivery that can overlap
  NoMessage,    \* the carrier of an administrator's invocation
  RetryLimit,   \* `retry_count >= 3` makes a failure final
  MaxRetries,   \* `max_retries` of the queue's consumer
  MaxReopens,   \* bound: owner retries of one row
  MaxAdmin,     \* bound: administrator's process requests
  MaxFaults     \* bound: crashes, database errors and lost UPDATEs

ASSUME DeliveryAssumption ==
  /\ Delivery # {} /\ NoMessage \notin Message
  /\ RetryLimit \in Nat /\ MaxRetries \in Nat
  /\ MaxReopens \in Nat /\ MaxAdmin \in Nat /\ MaxFaults \in Nat

VARIABLES
  status, retry_count, error_message, delivered_at,  \* columns of a row
  allowed,      \* rows whose host closed_network and the allowlist let through
  mstate, mfor, attempts,        \* the queue
  enqueuing,    \* /deliveries/enqueue requests past their status check
  owner_ops,    \* owner actions past their status check
  pc, job, carrier, snapshot,    \* the invocations
  \* History, read by no code: what the inboxes did and what went wrong.
  accepted,     \* rows some inbox has answered or processed with a 2xx
  failures,     \* POSTs of a row the sender saw fail
  reopened,     \* owner retries of a row
  blocked,      \* rows ever failed for a host that was not allowed
  carried,      \* rows the queue has taken over and nothing has taken back
  faults, adminCalls

rows == <<status, retry_count, error_message, delivered_at>>
queue == <<mstate, mfor, attempts>>
run == <<pc, job, carrier, snapshot>>
requests == <<enqueuing, owner_ops>>
history == <<accepted, failures, reopened, blocked, carried>>
bounds == <<faults, adminCalls>>
vars == <<rows, allowed, queue, requests, run, history, bounds>>

-----------------------------------------------------------------------------
(* The values.  "none" is a row not inserted yet, "gone" one expunged.     *)

Open == {"queued", "retry"}
Status == Open \cup {"none", "delivered", "failed", "gone"}
ErrorMessage == {"none", "http", "not_allowlisted", "cancelled"}
MessageState == {"unsent", "waiting", "leased", "acked", "dead"}
Phase == {"idle", "select", "check", "block", "post", "sent", "refused",
          "ack", "again"}
OwnerAction == {"retry", "cancel"}

\* What the locals of an invocation that is not running are worth.
AnyDelivery == CHOOSE d \in Delivery : TRUE

Exists(d) == status[d] \notin {"none", "gone"}

\* Mutants of the two definitions below: a limit off by one, an ack one attempt
\* early, a retry too many.
NewStatusEarly(rc) == IF rc + 1 >= RetryLimit THEN "failed" ELSE "retry"
RetryableLess(rc) == rc + 1 < RetryLimit
RetryableMore(rc) == rc <= RetryLimit

\* update_delivery_status: what a failed attempt makes of the row.
NewStatus(rc) == IF rc >= RetryLimit THEN "failed" ELSE "retry"

\* The report's `retryable`, from the same reading of retry_count.
Retryable(rc) == rc < RetryLimit

TypeOK ==
  /\ status \in [Delivery -> Status]
  /\ retry_count \in [Delivery -> Nat]
  /\ error_message \in [Delivery -> ErrorMessage]
  /\ delivered_at \in [Delivery -> BOOLEAN]
  /\ allowed \subseteq Delivery
  /\ mstate \in [Message -> MessageState]
  /\ mfor \in [Message -> Delivery]
  /\ attempts \in [Message -> Nat]
  /\ enqueuing \subseteq Delivery
  /\ owner_ops \subseteq OwnerAction \X Delivery
  /\ pc \in [Worker -> Phase]
  /\ job \in [Worker -> Delivery]
  /\ carrier \in [Worker -> Message \cup {NoMessage}]
  /\ snapshot \in [Worker -> Nat]
  /\ accepted \subseteq Delivery
  /\ failures \in [Delivery -> Nat]
  /\ reopened \in [Delivery -> Nat]
  /\ blocked \subseteq Delivery
  /\ carried \subseteq Delivery
  /\ faults \in Nat /\ adminCalls \in Nat

Init ==
  /\ status = [d \in Delivery |-> "none"]
  /\ retry_count = [d \in Delivery |-> 0]
  /\ error_message = [d \in Delivery |-> "none"]
  /\ delivered_at = [d \in Delivery |-> FALSE]
  /\ allowed = Delivery
  /\ mstate = [m \in Message |-> "unsent"]
  /\ mfor = [m \in Message |-> AnyDelivery]
  /\ attempts = [m \in Message |-> 0]
  /\ enqueuing = {} /\ owner_ops = {}
  /\ pc = [w \in Worker |-> "idle"]
  /\ job = [w \in Worker |-> AnyDelivery]
  /\ carrier = [w \in Worker |-> NoMessage]
  /\ snapshot = [w \in Worker |-> 0]
  /\ accepted = {} /\ blocked = {} /\ carried = {}
  /\ failures = [d \in Delivery |-> 0]
  /\ reopened = [d \in Delivery |-> 0]
  /\ faults = 0 /\ adminCalls = 0

-----------------------------------------------------------------------------
(* Rows appear, are handed to the queue and may be expunged.               *)

\* insert_delivery_rows: one INSERT, for a host allowed when it was looked up.
InsertRow(d) ==
  /\ status[d] = "none"
  /\ d \in allowed
  /\ status' = [status EXCEPT ![d] = "queued"]
  /\ UNCHANGED <<retry_count, error_message, delivered_at, allowed, queue,
                 requests, run, history, bounds>>

\* owner_delete_e2ee_message: DELETE FROM deliveries, whoever is using the row.
ExpungeRow(d) ==
  /\ Exists(d)
  /\ status' = [status EXCEPT ![d] = "gone"]
  /\ UNCHANGED <<retry_count, error_message, delivered_at, allowed, queue,
                 requests, run, history, bounds>>

\* handle_enqueue_delivery up to its status check ...
EnqueueCheck(d) ==
  /\ status[d] \in Open
  /\ enqueuing' = enqueuing \cup {d}
  /\ UNCHANGED <<rows, allowed, queue, owner_ops, run, history, bounds>>

\* ... and its send, which may find the row in any state by now.
EnqueueSend(d, m) ==
  /\ d \in enqueuing
  /\ mstate[m] = "unsent"
  /\ enqueuing' = enqueuing \ {d}
  /\ mstate' = [mstate EXCEPT ![m] = "waiting"]
  /\ mfor' = [mfor EXCEPT ![m] = d]
  /\ carried' = carried \cup {d}
  /\ UNCHANGED <<rows, allowed, attempts, owner_ops, run, accepted, failures,
                 reopened, blocked, bounds>>

\* The send fails, or the request is abandoned.
EnqueueFail(d) ==
  /\ d \in enqueuing
  /\ enqueuing' = enqueuing \ {d}
  /\ UNCHANGED <<rows, allowed, queue, owner_ops, run, history, bounds>>

\* The owner edits closed_network or the allowlist.
SetAllowed(d) ==
  /\ allowed' = IF d \in allowed THEN allowed \ {d} ELSE allowed \cup {d}
  /\ UNCHANGED <<rows, queue, requests, run, history, bounds>>

-----------------------------------------------------------------------------
(* The queue: a message is leased to one invocation, and a message that is *)
(* not acked is delivered again, at most MaxRetries times; then it goes to *)
(* the dead-letter queue, which nothing reads.                             *)

Begin(w, d, m) ==
  /\ pc[w] = "idle"
  /\ pc' = [pc EXCEPT ![w] = "select"]
  /\ job' = [job EXCEPT ![w] = d]
  /\ carrier' = [carrier EXCEPT ![w] = m]
  /\ UNCHANGED <<rows, allowed, mfor, requests, snapshot, history, faults>>

\* The consumer `main` takes a message of its batch.
Lease(w, m) ==
  /\ mstate[m] = "waiting"
  /\ Begin(w, mfor[m], m)
  /\ mstate' = [mstate EXCEPT ![m] = "leased"]
  /\ attempts' = [attempts EXCEPT ![m] = @ + 1]
  /\ UNCHANGED adminCalls

\* handle_process_delivery, for an id the administrator read from the table.
AdminProcess(w, d) ==
  /\ status[d] # "none"
  /\ adminCalls < MaxAdmin
  /\ Begin(w, d, NoMessage)
  /\ adminCalls' = adminCalls + 1
  /\ UNCHANGED <<mstate, attempts>>

\* The queue takes back a message that was not acked.
AfterRetry(m) == IF attempts[m] <= MaxRetries THEN "waiting" ELSE "dead"

\* Invocation w ends, and its locals with it.
End(w) ==
  /\ pc' = [pc EXCEPT ![w] = "idle"]
  /\ job' = [job EXCEPT ![w] = AnyDelivery]
  /\ carrier' = [carrier EXCEPT ![w] = NoMessage]
  /\ snapshot' = [snapshot EXCEPT ![w] = 0]

\* It ends and its message, if it has one, is not acked.
Redeliver(w) ==
  /\ End(w)
  /\ \/ carrier[w] = NoMessage /\ UNCHANGED <<mstate, carried>>
     \/ /\ carrier[w] # NoMessage
        /\ mstate' = [mstate EXCEPT ![carrier[w]] = AfterRetry(carrier[w])]
        /\ carried' = IF AfterRetry(carrier[w]) = "dead"
                      THEN carried \ {job[w]} ELSE carried
  /\ UNCHANGED <<rows, allowed, mfor, attempts, requests, accepted, failures,
                 reopened, blocked, adminCalls>>

\* main: msg.retry(), on an Err or a retryable report.
Again(w) == pc[w] = "again" /\ Redeliver(w) /\ UNCHANGED faults

\* main: msg.ack(), on success or on a report that is not retryable.
Ack(w) ==
  /\ pc[w] = "ack"
  /\ End(w)
  /\ mstate' = IF carrier[w] = NoMessage THEN mstate
               ELSE [mstate EXCEPT ![carrier[w]] = "acked"]
  /\ UNCHANGED <<rows, allowed, mfor, attempts, requests, history, bounds>>

-----------------------------------------------------------------------------
(* process_delivery, from one await to the next.                           *)

\* Mutant of Select: the SELECT without its status filter.
SelectAny(w) ==
  /\ pc[w] = "select"
  /\ pc' = [pc EXCEPT ![w] = "check"]
  /\ snapshot' = [snapshot EXCEPT ![w] = retry_count[job[w]]]
  /\ UNCHANGED <<rows, allowed, queue, requests, job, carrier, history, bounds>>

\* The SELECT, which finds only open rows.
Select(w) ==
  /\ pc[w] = "select"
  /\ \/ /\ status[job[w]] \in Open
        /\ pc' = [pc EXCEPT ![w] = "check"]
        /\ snapshot' = [snapshot EXCEPT ![w] = retry_count[job[w]]]
     \/ /\ status[job[w]] \notin Open
        /\ pc' = [pc EXCEPT ![w] = "ack"]
        /\ UNCHANGED snapshot
  /\ UNCHANGED <<rows, allowed, queue, requests, job, carrier, history, bounds>>

\* is_federation_host_allowed.  A failed read of closed_network counts as an
\* open network.
CheckHost(w) ==
  /\ pc[w] = "check"
  /\ \/ /\ pc' = [pc EXCEPT ![w] = IF job[w] \in allowed THEN "post" ELSE "block"]
        /\ UNCHANGED faults
     \/ /\ faults < MaxFaults
        /\ pc' = [pc EXCEPT ![w] = "post"]
        /\ faults' = faults + 1
  /\ UNCHANGED <<rows, allowed, queue, requests, job, carrier, snapshot,
                 history, adminCalls>>

\* deliver_to_inbox: the inbox takes the activity or not, and a sender that
\* gets no 2xx back cannot tell.
Post(w) ==
  /\ pc[w] = "post"
  /\ \/ /\ pc' = [pc EXCEPT ![w] = "sent"]
        /\ accepted' = accepted \cup {job[w]}
        /\ UNCHANGED failures
     \/ /\ pc' = [pc EXCEPT ![w] = "refused"]
        /\ failures' = [failures EXCEPT ![job[w]] = @ + 1]
        /\ accepted' \in {accepted, accepted \cup {job[w]}}
  /\ UNCHANGED <<rows, allowed, queue, requests, job, carrier, snapshot,
                 reopened, blocked, carried, bounds>>

\* update_delivery_status: UPDATE ... WHERE id = ?, a no-op if the row is gone.
UpdateRow(d, st, rc, err) ==
  \/ ~Exists(d) /\ UNCHANGED rows
  \/ /\ Exists(d)
     /\ status' = [status EXCEPT ![d] = st]
     /\ retry_count' = [retry_count EXCEPT ![d] = rc]
     /\ error_message' = [error_message EXCEPT ![d] = err]
     /\ delivered_at' = [delivered_at EXCEPT ![d] = (@ \/ st = "delivered")]

MarkDelivered(w) ==
  LET d == job[w] IN
  /\ pc[w] = "sent"
  /\ UpdateRow(d, "delivered", retry_count[d], error_message[d])
  /\ pc' = [pc EXCEPT ![w] = "ack"]
  /\ UNCHANGED <<allowed, queue, requests, job, carrier, snapshot, history,
                 bounds>>

MarkRefused(w) ==
  LET d == job[w] IN
  /\ pc[w] = "refused"
  /\ UpdateRow(d, NewStatus(snapshot[w]), snapshot[w] + 1, "http")
  /\ pc' = [pc EXCEPT ![w] = IF Retryable(snapshot[w]) THEN "again" ELSE "ack"]
  /\ carried' = IF carrier[w] = NoMessage THEN carried \ {d} ELSE carried
  /\ UNCHANGED <<allowed, queue, requests, job, carrier, snapshot, accepted,
                 failures, reopened, blocked, bounds>>

MarkBlocked(w) ==
  LET d == job[w] IN
  /\ pc[w] = "block"
  /\ UpdateRow(d, NewStatus(RetryLimit), RetryLimit + 1, "not_allowlisted")
  /\ pc' = [pc EXCEPT ![w] = "ack"]
  /\ blocked' = blocked \cup {d}
  /\ UNCHANGED <<allowed, queue, requests, job, carrier, snapshot, accepted,
                 failures, reopened, carried, bounds>>

-----------------------------------------------------------------------------
(* What goes wrong.                                                        *)

\* An UPDATE fails: it is logged and the report is the same.
LoseUpdate(w) ==
  /\ faults < MaxFaults
  /\ pc[w] \in {"sent", "refused", "block"}
  /\ pc' = [pc EXCEPT ![w] = IF pc[w] = "refused" /\ Retryable(snapshot[w])
                             THEN "again" ELSE "ack"]
  /\ carried' = carried \ {job[w]}
  /\ faults' = faults + 1
  /\ UNCHANGED <<rows, allowed, queue, requests, job, carrier, snapshot,
                 accepted, failures, reopened, blocked, adminCalls>>

\* A database read, or building the body, fails: process_delivery is an Err.
Fail(w) ==
  /\ faults < MaxFaults
  /\ pc[w] \in {"select", "check", "post"}
  /\ pc' = [pc EXCEPT ![w] = "again"]
  /\ faults' = faults + 1
  /\ UNCHANGED <<rows, allowed, queue, requests, job, carrier, snapshot,
                 history, adminCalls>>

\* The invocation dies wherever it is.
Crash(w) ==
  /\ faults < MaxFaults
  /\ pc[w] # "idle"
  /\ Redeliver(w)
  /\ faults' = faults + 1

-----------------------------------------------------------------------------
(* owner_update_delivery_status: a status check, then an UPDATE by id.     *)

\* Mutant of OwnerCheck: a delivered row passes.
OwnerCheckAny(action, d) ==
  /\ Exists(d)
  /\ action = "retry" => reopened[d] < MaxReopens
  /\ owner_ops' = owner_ops \cup {<<action, d>>}
  /\ UNCHANGED <<rows, allowed, queue, enqueuing, run, history, bounds>>

OwnerCheck(action, d) ==
  /\ Exists(d)
  /\ status[d] # "delivered"
  /\ action = "retry" => reopened[d] < MaxReopens
  /\ owner_ops' = owner_ops \cup {<<action, d>>}
  /\ UNCHANGED <<rows, allowed, queue, enqueuing, run, history, bounds>>

OwnerRetry(d) ==
  /\ <<"retry", d>> \in owner_ops
  /\ owner_ops' = owner_ops \ {<<"retry", d>>}
  /\ \/ ~Exists(d) /\ UNCHANGED <<rows, reopened, carried>>
     \/ /\ Exists(d)
        /\ status' = [status EXCEPT ![d] = "queued"]
        /\ retry_count' = [retry_count EXCEPT ![d] = @ + 1]
        /\ error_message' = [error_message EXCEPT ![d] = "none"]
        /\ delivered_at' = [delivered_at EXCEPT ![d] = FALSE]
        /\ reopened' = [reopened EXCEPT ![d] = @ + 1]
        /\ carried' = carried \ {d}
  /\ UNCHANGED <<allowed, queue, enqueuing, run, accepted, failures, blocked,
                 bounds>>

OwnerCancel(d) ==
  /\ <<"cancel", d>> \in owner_ops
  /\ owner_ops' = owner_ops \ {<<"cancel", d>>}
  /\ \/ ~Exists(d) /\ UNCHANGED rows
     \/ /\ Exists(d)
        /\ status' = [status EXCEPT ![d] = "failed"]
        /\ error_message' = [error_message EXCEPT ![d] = "cancelled"]
        /\ delivered_at' = [delivered_at EXCEPT ![d] = FALSE]
        /\ UNCHANGED retry_count
  /\ UNCHANGED <<allowed, queue, enqueuing, run, history, bounds>>

-----------------------------------------------------------------------------

Work(w) == \/ Select(w) \/ CheckHost(w) \/ Post(w) \/ MarkDelivered(w)
           \/ MarkRefused(w) \/ MarkBlocked(w) \/ Again(w) \/ Ack(w)

Start(w) == \/ \E m \in Message : Lease(w, m)
            \/ \E d \in Delivery : AdminProcess(w, d)

Break(w) == LoseUpdate(w) \/ Fail(w) \/ Crash(w)

Owner(d) == \/ InsertRow(d) \/ ExpungeRow(d) \/ SetAllowed(d)
            \/ \E action \in OwnerAction : OwnerCheck(action, d)
            \/ OwnerRetry(d) \/ OwnerCancel(d)

Enqueue(d) == \/ EnqueueCheck(d) \/ EnqueueFail(d)
              \/ \E m \in Message : EnqueueSend(d, m)

Next == \/ \E d \in Delivery : Owner(d) \/ Enqueue(d)
        \/ \E w \in Worker : Start(w) \/ Work(w) \/ Break(w)

Spec == Init /\ [][Next]_vars

\* A request that started goes on (each await has a timeout), and the queue
\* goes on delivering the messages it holds.  Nothing makes owners, the
\* enqueue endpoint or an administrator act.
FairSpec ==
  /\ Spec
  /\ \A w \in Worker : WF_vars(Work(w))
  /\ \A m \in Message : SF_vars(\E w \in Worker : Lease(w, m))

-----------------------------------------------------------------------------
(* Properties.                                                             *)

\* A row says delivered, or keeps a delivered_at, only if an inbox did take
\* the activity: however many invocations, owners and crashes race for it.
DeliveredMeansAccepted ==
  \A d \in Delivery :
    status[d] = "delivered" \/ delivered_at[d] => d \in accepted

\* update_delivery_status gives a row up for HTTP failures only after
\* RetryLimit + 1 attempts did fail, of which every owner retry replaces one.
\* Concurrent attempts write stale counts, never counts that run ahead.
NoEarlyGiveUp ==
  \A d \in Delivery :
    status[d] = "failed" /\ error_message[d] = "http" /\ d \notin blocked
      => failures[d] + reopened[d] > RetryLimit

Live(m) == mstate[m] \in {"waiting", "leased"}

\* An open row the queue has taken over still has a message on its way, so
\* someone will try it again: what `main` acks and what
\* update_delivery_status writes agree under every overlap.  A row leaves
\* `carried` by a lost UPDATE, a dead letter, an administrator's failed
\* attempt or an owner retry: those strand it until somebody enqueues it.
OpenRowIsCarried ==
  \A d \in carried :
    status[d] \in Open => \E m \in Message : mfor[m] = d /\ Live(m)

\* Between the owner's cancel and the owner's next retry nobody starts to send
\* the row, and only an invocation that had read it before the cancel can
\* reopen it or mark it delivered.
Cancelled(d) == status[d] = "failed" /\ error_message[d] = "cancelled"
InFlight(d) ==
  \E w \in Worker : job[w] = d /\ pc[w] \in {"check", "block", "post", "sent", "refused"}
KeepsCancel(d) ==
  /\ status'[d] \in {"failed", "queued", "gone"}
  /\ ~InFlight(d)'
  /\ status'[d] = "queued" => reopened'[d] > reopened[d]
CancelHoldsWhenIdle ==
  [][\A d \in Delivery : Cancelled(d) /\ ~InFlight(d) => KeepsCancel(d)]_vars

\* The queue gives up on a message only after something broke: without a
\* fault, one message is enough to carry its row to delivered or failed,
\* because the consumer's max_retries matches the limit of the code.  (As long
\* as invocations do not overlap: overlapping attempts write stale counts and
\* can use up their messages.)
DeadLetterNeedsFault ==
  \A m \in Message : mstate[m] = "dead" => faults > 0

\* A row the queue has taken over is eventually delivered, failed or
\* expunged, or else drops out of `carried` (see OpenRowIsCarried).
CarriedRowSettles ==
  \A d \in Delivery :
    d \in carried ~> d \notin carried \/ status[d] \notin Open

\* The pipeline keeps the promise of Outbox: "delivered deliveries cannot be
\* retried" (deliveries.rs:92), or sent again, by anybody but those who read the
\* row before it was delivered: overlapping invocations, and an owner's request
\* that has checked its status and does not look again.
State(st) == IF st \in Open THEN "open" ELSE st
InHand == {d \in Delivery : InFlight(d) \/ \E a \in OwnerAction : <<a, d>> \in owner_ops}
Promise == INSTANCE Outbox WITH
  state <- [d \in Delivery |-> State(status[d])],
  inHand <- InHand
PromiseKept == Promise!Spec

=============================================================================
