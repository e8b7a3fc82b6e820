------------------------------ MODULE Firehose ------------------------------
(***************************************************************************)
(* The Durable Object `FirehoseSubscription`: its handlers `fetch` (the    *)
(* 30-minute cron) and `alarm` (the watchdog), the read loops they spawn,  *)
(* the checkpoint row in D1, and the index the loops write.                *)
(*                                                                         *)
(* The object runs one turn at a time, but every `await` on D1 or the      *)
(* network lets its other handlers and loops run, so each is cut there.    *)
(* The followed accounts' repositories are one log of changes: change i is *)
(* Jetstream's event with time_us i, and a record's content is the number  *)
(* of the change that made it.                                             *)
(***************************************************************************)
EXTENDS Naturals, Sequences, FiniteSets

CONSTANTS
  Record,       \* records of accounts (one record stands for an account)
  Edge,         \* those that are likes or follows; the others are posts
  Conn,         \* connections that can be open at once
  None,         \* no connection
  FlushEvery,   \* FLUSH_EVERY_MESSAGES
  Budget,       \* daily_budget_seconds
  MaxEvents, MaxTicks, MaxDay, MaxEdits,  \* bounds: changes, seconds, days, follows
  MaxFaults     \* bound: failed calls, dropped connections, restarts, bad frames

ASSUME FirehoseAssumption ==
  /\ Edge \subseteq Record /\ None \notin Conn
  /\ FlushEvery \in Nat \ {0} /\ Budget \in Nat
  /\ MaxEvents \in Nat /\ MaxTicks \in Nat /\ MaxDay \in Nat
  /\ MaxEdits \in Nat /\ MaxFaults \in Nat

VARIABLES
  followed,     \* accepted rows of `following`
  log, deleted, \* the repositories: changes made, and which of them are deletions
  index,        \* per record, the change the D1 index shows
  checkpoint,   \* atproto_firehose_checkpoint
  socket,       \* FirehoseSubscription::socket
  conns,        \* connections, and the read loop of each
  handlers,     \* the two handlers
  armed,        \* an alarm is set
  day,          \* today_utc_date()
  \* History, read by no code.
  touched,      \* records followed or unfollowed since the start
  origin,       \* changes made before the stream was joined without a cursor
  got,          \* events a read loop was given for an account it follows
  failed,       \* events whose handling failed
  overlapped,   \* two read loops have run at once
  used, usedToday,                      \* seconds with a read loop running
  edits, ticks, faults

world == <<followed, touched, log, deleted, day, edits>>
object == <<socket, conns, handlers, armed>>
history == <<origin, got, failed, overlapped>>
clock == <<used, usedToday, ticks>>
vars == <<world, index, checkpoint, object, history, clock, faults>>

-----------------------------------------------------------------------------
Handler == {"fetch", "alarm"}
HandlerAt == {"idle", "tick", "reset", "load", "dids", "connect", "mark", "finish"}
LoopAt == {"none", "unspawned", "read", "handle", "store", "beat", "beatwrite",
           "flush", "write", "refresh"}
CheckpointStatus == {"stopped", "running", "budget_exceeded"}

Fault == faults < MaxFaults /\ faults' = faults + 1

LogLength == Len(log)

\* The last change of r: what getRecord answers with.
Current(r) ==
  LET changes == {i \in 1..LogLength : log[i] = r}
  IN  IF changes = {} THEN 0 ELSE CHOOSE i \in changes : \A j \in changes : j <= i

Present(i) == i # 0 /\ i \notin deleted

\* A handler that is not running, and a connection that does not exist.
IdleHandler == [at |-> "idle", today |-> 0, seq |-> 0, dids |-> {}, conn |-> None]
NoConn == [at |-> "none", open |-> FALSE, wanted |-> {}, dids |-> {},
           next |-> 0, cursor |-> 0, first |-> TRUE, since |-> 0,
           elapsed |-> 0, delta |-> 0, loaded |-> 0, fetched |-> 0]

Looping(c) == conns[c].at \notin {"none", "unspawned"}

TypeOK ==
  /\ followed \subseteq Record /\ touched \subseteq Record
  /\ log \in Seq(Record) /\ deleted \subseteq 1..LogLength
  /\ index \in [Record -> Nat]
  /\ checkpoint \in [last_seq : Nat, status : CheckpointStatus,
                     budget_date : Nat, active : Nat]
  /\ socket \in Conn \cup {None}
  /\ conns \in [Conn -> [at : LoopAt, open : BOOLEAN, wanted : SUBSET Record,
                         dids : SUBSET Record, next : Nat, cursor : Nat,
                         first : BOOLEAN, since : Nat, elapsed : Nat,
                         delta : Nat, loaded : Nat, fetched : Nat]]
  /\ handlers \in [Handler -> [at : HandlerAt, today : Nat, seq : Nat,
                               dids : SUBSET Record, conn : Conn \cup {None}]]
  /\ armed \in BOOLEAN
  /\ overlapped \in BOOLEAN
  /\ {day, origin, used, usedToday, edits, ticks, faults} \subseteq Nat
  /\ got \subseteq Nat /\ failed \subseteq Nat

Init ==
  /\ followed = Record /\ touched = {}
  /\ log = <<>> /\ deleted = {} /\ index = [r \in Record |-> 0]
  /\ checkpoint = [last_seq |-> 0, status |-> "stopped", budget_date |-> 0, active |-> 0]
  /\ socket = None /\ conns = [c \in Conn |-> NoConn]
  /\ handlers = [h \in Handler |-> IdleHandler]
  /\ armed = FALSE /\ day = 1
  /\ origin = 0 /\ got = {} /\ failed = {} /\ overlapped = FALSE
  /\ used = 0 /\ usedToday = 0 /\ edits = 0 /\ ticks = 0 /\ faults = 0

-----------------------------------------------------------------------------
(* The world: records change, the owner follows and unfollows, time passes.*)

Change(r) ==
  /\ LogLength < MaxEvents
  /\ log' = Append(log, r)
  /\ \/ UNCHANGED deleted
     \/ Present(Current(r)) /\ deleted' = deleted \cup {LogLength + 1}
  /\ UNCHANGED <<followed, touched, day, edits, index, checkpoint, object, history, clock, faults>>

SetFollowed(r) ==
  /\ edits < MaxEdits
  /\ edits' = edits + 1
  /\ followed' = IF r \in followed THEN followed \ {r} ELSE followed \cup {r}
  /\ touched' = touched \cup {r}
  /\ UNCHANGED <<log, deleted, day, index, checkpoint, object, history, clock, faults>>

\* A second of the loops' clocks.
Tick ==
  /\ ticks < MaxTicks
  /\ ticks' = ticks + 1
  /\ \E c \in Conn : Looping(c)
  /\ conns' = [c \in Conn |->
       IF Looping(c) THEN [conns[c] EXCEPT !.elapsed = @ + 1] ELSE conns[c]]
  /\ used' = used + 1 /\ usedToday' = usedToday + 1
  /\ UNCHANGED <<world, index, checkpoint, socket, handlers, armed, history, faults>>

Midnight ==
  /\ day < MaxDay
  /\ day' = day + 1
  /\ usedToday' = 0
  /\ UNCHANGED <<followed, touched, log, deleted, edits, index, checkpoint, object,
                 history, used, ticks, faults>>

-----------------------------------------------------------------------------
(* fetch and alarm.                                                        *)

\* The head of ensure_running, which follows what came before in one turn:
\* a connection that is there already is taken to be live.
EnsureRunning(h) == IF socket # None THEN "finish" ELSE "load"

Go(h, at) == handlers' = [handlers EXCEPT ![h] = [IdleHandler EXCEPT !.at = at]]

StartFetch ==
  /\ handlers["fetch"].at = "idle"
  /\ handlers' = [handlers EXCEPT !["fetch"].at = EnsureRunning("fetch"),
                                  !["fetch"].today = day]
  /\ UNCHANGED <<world, index, checkpoint, socket, conns, armed, history, clock, faults>>

StartAlarm ==
  /\ armed /\ armed' = FALSE
  /\ handlers["alarm"].at = "idle"
  /\ handlers' = [handlers EXCEPT !["alarm"].at = "tick", !["alarm"].today = day]
  /\ UNCHANGED <<world, index, checkpoint, socket, conns, history, clock, faults>>

\* watchdog_tick has its checkpoint: a new day, a spent budget, or neither.
WatchdogTick ==
  LET h == "alarm" IN
  /\ handlers[h].at = "tick"
  /\ \/ /\ checkpoint.budget_date # handlers[h].today
        /\ handlers' = [handlers EXCEPT ![h].at = "reset"]
        /\ UNCHANGED <<socket, conns>>
     \/ /\ checkpoint.budget_date = handlers[h].today
        /\ checkpoint.status = "budget_exceeded"
        /\ socket' = None
        /\ conns' = IF socket = None THEN conns
                    ELSE [conns EXCEPT ![socket].open = FALSE]
        /\ Go(h, "finish")
     \/ /\ checkpoint.budget_date = handlers[h].today
        /\ checkpoint.status # "budget_exceeded"
        /\ handlers' = [handlers EXCEPT ![h].at = EnsureRunning(h), ![h].today = day]
        /\ UNCHANGED <<socket, conns>>
  /\ UNCHANGED <<world, index, checkpoint, armed, history, clock, faults>>

ResetDailyBudget ==
  LET h == "alarm" IN
  /\ handlers[h].at = "reset"
  /\ checkpoint' = [checkpoint EXCEPT !.budget_date = handlers[h].today,
                                      !.active = 0, !.status = "stopped"]
  /\ handlers' = [handlers EXCEPT ![h].at = EnsureRunning(h), ![h].today = day]
  /\ UNCHANGED <<world, index, socket, conns, armed, history, clock, faults>>

LoadCheckpoint(h) ==
  /\ handlers[h].at = "load"
  /\ \/ /\ checkpoint.status = "budget_exceeded"
        /\ checkpoint.budget_date = handlers[h].today
        /\ Go(h, "finish")
     \/ /\ ~ /\ checkpoint.status = "budget_exceeded"
             /\ checkpoint.budget_date = handlers[h].today
        /\ handlers' = [handlers EXCEPT ![h].at = "dids", ![h].seq = checkpoint.last_seq]
  /\ UNCHANGED <<world, index, checkpoint, socket, conns, armed, history, clock, faults>>

LoadFollowedDids(h) ==
  /\ handlers[h].at = "dids"
  /\ handlers' = [handlers EXCEPT
       ![h] = IF followed = {} THEN [IdleHandler EXCEPT !.at = "finish"]
              ELSE [@ EXCEPT !.at = "connect", !.dids = followed]]
  /\ UNCHANGED <<world, index, checkpoint, socket, conns, armed, history, clock, faults>>

\* Mutant of StartAt: the connection never asks for a replay.
StartAtEnd(seq) == LogLength + 1

\* Jetstream replays from a cursor, inclusively; without one it starts live.
StartAt(seq) == IF seq > 0 THEN seq ELSE LogLength + 1

\* c names no connection, or one that nobody reads or remembers.
Free(c) == /\ ~Looping(c) /\ socket # c
           /\ \A h \in Handler : handlers[h].conn # c

Connect(h, c) ==
  /\ handlers[h].at = "connect"
  /\ Free(c)
  /\ conns' = [conns EXCEPT ![c] =
       [NoConn EXCEPT !.at = "unspawned", !.open = TRUE, !.wanted = handlers[h].dids,
                      !.dids = handlers[h].dids, !.next = StartAt(handlers[h].seq)]]
  /\ socket' = c
  /\ handlers' = [handlers EXCEPT ![h] = [IdleHandler EXCEPT !.at = "mark", !.conn = c]]
  /\ origin' = IF handlers[h].seq > 0 THEN origin ELSE LogLength
  /\ UNCHANGED <<world, index, checkpoint, armed, got, failed, overlapped, clock, faults>>

\* mark_running, and the read loop is spawned.
MarkRunning(h) ==
  LET c == handlers[h].conn IN
  /\ handlers[h].at = "mark"
  /\ checkpoint' = [checkpoint EXCEPT !.status = "running"]
  /\ conns' = [conns EXCEPT ![c].at = "read"]
  /\ overlapped' = (overlapped \/ \E b \in Conn \ {c} : Looping(b))
  /\ Go(h, "finish")
  /\ UNCHANGED <<world, index, socket, armed, origin, got, failed, clock, faults>>

\* set_alarm, and the response.
Finish(h) ==
  /\ handlers[h].at = "finish"
  /\ armed' = TRUE
  /\ handlers' = [handlers EXCEPT ![h] = IdleHandler]
  /\ UNCHANGED <<world, index, checkpoint, socket, conns, history, clock, faults>>

\* An await of the handler fails: alarm logs it and sets the next alarm,
\* fetch returns the error.
FailHandler(h) ==
  /\ Fault
  /\ handlers[h].at \in {"tick", "reset", "load", "dids", "connect", "mark"}
  /\ handlers' = [handlers EXCEPT
       ![h] = [IdleHandler EXCEPT !.at = IF h = "alarm" THEN "finish" ELSE "idle"]]
  /\ UNCHANGED <<world, index, checkpoint, socket, conns, armed, history, clock>>

Handle(h) == \/ LoadCheckpoint(h) \/ LoadFollowedDids(h)
             \/ (\E c \in Conn : Connect(h, c)) \/ MarkRunning(h) \/ Finish(h)
             \/ h = "alarm" /\ (WatchdogTick \/ ResetDailyBudget)

-----------------------------------------------------------------------------
(* run_jetstream_loop on connection c.                                     *)

Loop(c, l) == conns' = [conns EXCEPT ![c] = l]

\* Mutant of Counted: last_flush_at is not moved.
CountedAgain(l) ==
  IF l.since + 1 >= FlushEvery
  THEN [l EXCEPT !.since = 0, !.at = "flush", !.delta = l.elapsed]
  ELSE [l EXCEPT !.since = @ + 1, !.at = "read"]

\* The count of messages towards the next flush.
Counted(l) ==
  IF l.since + 1 >= FlushEvery
  THEN [l EXCEPT !.since = 0, !.at = "flush", !.delta = l.elapsed, !.elapsed = 0]
  ELSE [l EXCEPT !.since = @ + 1, !.at = "read"]

\* A message is dealt with: the first one is followed by a heartbeat flush.
Processed(l) == IF l.first THEN [l EXCEPT !.at = "beat", !.first = FALSE] ELSE Counted(l)

\* The server sends the next event of the accounts the URL names.
Receive(c) ==
  LET l == conns[c]
      due == {i \in l.next..LogLength : log[i] \in l.wanted}
  IN
  /\ l.at = "read" /\ l.open /\ due # {}
  /\ LET i == CHOOSE j \in due : \A k \in due : j <= k
         seen == [l EXCEPT !.next = i + 1, !.cursor = i]
     IN \/ /\ log[i] \in l.dids
           /\ Loop(c, [seen EXCEPT !.at = "handle"])
           /\ got' = got \cup {i}
        \/ /\ log[i] \notin l.dids
           /\ Loop(c, Processed(seen))
           /\ UNCHANGED got
  /\ UNCHANGED <<world, index, checkpoint, socket, handlers, armed, origin,
                 failed, overlapped, clock, faults>>

\* A text frame that does not parse: counted, the cursor stays.
ReceiveBadFrame(c) ==
  /\ Fault
  /\ conns[c].at = "read" /\ conns[c].open
  /\ Loop(c, Processed(conns[c]))
  /\ UNCHANGED <<world, index, checkpoint, socket, handlers, armed, history, clock>>

\* handle_commit_event up to its proof: the record as it is now.
FetchRecord(c) ==
  /\ conns[c].at = "handle"
  /\ Loop(c, [conns[c] EXCEPT !.at = "store", !.fetched = Current(log[conns[c].cursor])])
  /\ UNCHANGED <<world, index, checkpoint, socket, handlers, armed, history, clock, faults>>

\* Mutant of Written: the event's own content is stored.
WrittenAsSent(l, r) == l.cursor

\* Mutant of Written: a post that is there already is not updated either.
WrittenUnlessThere(l, r) ==
  IF Present(index[r]) /\ Present(l.fetched) THEN index[r] ELSE l.fetched

\* apply_index_write: posts are upserted or marked deleted, likes and
\* follows are deleted or, unless there already, inserted.
Written(l, r) ==
  IF r \in Edge /\ Present(index[r]) /\ Present(l.fetched) THEN index[r] ELSE l.fetched

ApplyIndexWrite(c) ==
  LET l == conns[c] r == log[l.cursor] IN
  /\ l.at = "store"
  /\ index' = [index EXCEPT ![r] = Written(l, r)]
  /\ Loop(c, [Processed(l) EXCEPT !.fetched = 0])
  /\ UNCHANGED <<world, checkpoint, socket, handlers, armed, history, clock, faults>>

\* Resolving, fetching, verifying or storing fails: logged, and the loop goes on.
FailEvent(c) ==
  LET l == conns[c] IN
  /\ Fault
  /\ l.at \in {"handle", "store"}
  /\ failed' = failed \cup {l.cursor}
  /\ Loop(c, [Processed(l) EXCEPT !.fetched = 0])
  /\ UNCHANGED <<world, index, checkpoint, socket, handlers, armed, origin, got,
                 overlapped, clock>>

\* flush_checkpoint reads the row ...
FlushLoad(c) ==
  LET l == conns[c] IN
  /\ l.at \in {"beat", "flush"}
  /\ Loop(c, [l EXCEPT !.at = IF @ = "beat" THEN "beatwrite" ELSE "write",
                       !.loaded = checkpoint.active])
  /\ UNCHANGED <<world, index, checkpoint, socket, handlers, armed, history, clock, faults>>

AfterFlush(l) ==
  IF l.at \in {"beat", "beatwrite"} THEN Counted([l EXCEPT !.loaded = 0])
  ELSE [l EXCEPT !.at = "refresh", !.loaded = 0, !.delta = 0]

BudgetStatus(active) == IF active >= Budget THEN "budget_exceeded" ELSE "running"

\* ... and writes back what it read, plus its own seconds.
FlushWrite(c) ==
  LET l == conns[c] active == l.loaded + l.delta IN
  /\ l.at \in {"beatwrite", "write"}
  /\ checkpoint' = [checkpoint EXCEPT !.last_seq = l.cursor, !.active = active,
                                      !.status = BudgetStatus(active)]
  /\ Loop(c, AfterFlush(l))
  /\ UNCHANGED <<world, index, socket, handlers, armed, history, clock, faults>>

\* load_followed_dids, for the loop's own filter only.
RefreshDids(c) ==
  /\ conns[c].at = "refresh"
  /\ Loop(c, [conns[c] EXCEPT !.at = "read", !.dids = followed])
  /\ UNCHANGED <<world, index, checkpoint, socket, handlers, armed, history, clock, faults>>

\* A flush or the refresh fails: logged, and the loop goes on.
FailFlush(c) ==
  LET l == conns[c] IN
  /\ Fault
  /\ l.at \in {"beat", "beatwrite", "flush", "write", "refresh"}
  /\ Loop(c, IF l.at = "refresh" THEN [l EXCEPT !.at = "read"] ELSE AfterFlush(l))
  /\ UNCHANGED <<world, index, checkpoint, socket, handlers, armed, history, clock>>

\* Mutant of Cleared: the shared handle is left behind.
Kept == socket

\* task_socket.take(), whichever connection is in it.
Cleared == None

\* The stream has ended: the loop returns and the shared handle is cleared.
EndLoop(c) ==
  /\ conns[c].at = "read" /\ ~conns[c].open
  /\ Loop(c, NoConn)
  /\ socket' = Cleared
  /\ UNCHANGED <<world, index, checkpoint, handlers, armed, history, clock, faults>>

ReadLoop(c) == \/ Receive(c) \/ FetchRecord(c) \/ ApplyIndexWrite(c) \/ FlushLoad(c)
               \/ FlushWrite(c) \/ RefreshDids(c) \/ EndLoop(c)

-----------------------------------------------------------------------------
(* The connection drops; the object is evicted or crashes, and an alarm it *)
(* was handling is retried.                                                *)

Drop(c) ==
  /\ Fault
  /\ conns[c].open
  /\ Loop(c, [conns[c] EXCEPT !.open = FALSE])
  /\ UNCHANGED <<world, index, checkpoint, socket, handlers, armed, history, clock>>

Restart ==
  /\ Fault
  /\ socket' = None
  /\ conns' = [c \in Conn |-> NoConn]
  /\ armed' = (armed \/ handlers["alarm"].at # "idle")
  /\ handlers' = [h \in Handler |-> IdleHandler]
  /\ UNCHANGED <<world, index, checkpoint, history, clock>>

-----------------------------------------------------------------------------
Next ==
  \/ \E r \in Record : Change(r) \/ SetFollowed(r)
  \/ Tick \/ Midnight \/ StartFetch \/ StartAlarm \/ Restart
  \/ \E h \in Handler : Handle(h) \/ FailHandler(h)
  \/ \E c \in Conn : \/ ReadLoop(c) \/ ReceiveBadFrame(c) \/ FailEvent(c)
                     \/ FailFlush(c) \/ Drop(c)

Spec == Init /\ [][Next]_vars

\* A handler or loop that started goes on (its calls answer or fail), the
\* runtime fires an alarm that is set.  The cron need never call fetch again.
FairSpec ==
  /\ Spec
  /\ WF_vars(StartAlarm)
  /\ \A h \in Handler : WF_vars(Handle(h))
  /\ \A c \in Conn : WF_vars(ReadLoop(c))

-----------------------------------------------------------------------------
(* Properties.                                                             *)

\* The index shows r as change i or a later one left it.  (Of a like or a
\* follow that is there already, only that it is there.)
Shows(r, i) ==
  \E j \in i..LogLength :
    /\ log[j] = r
    /\ index[r] = j \/ (r \in Edge /\ Present(index[r]) /\ Present(j))

\* The cursor never passes an event that was not stored: whatever crashes,
\* drops and replays come, what a loop was given at or before last_seq, and
\* did not fail on, the index shows.  Of one loop at a time, of accounts
\* followed throughout, and of events since the stream was last joined without
\* a cursor.
CursorMeansStored ==
  overlapped \/ \A i \in got \ failed :
    log[i] \notin touched /\ origin < i /\ i <= checkpoint.last_seq
      => Shows(log[i], i)

\* A replayed or late event never takes the index of a post back to an
\* older state, while one loop runs at a time: the proof is of the record as
\* it is, not of the event.
IndexNeverRegresses ==
  [][overlapped \/ \A r \in Record : index'[r] >= index[r]]_vars

\* No second of a connection is counted twice towards the budget.
SecondsCountedOnce == overlapped \/ checkpoint.active <= used

Connected == \E c \in Conn : Looping(c) /\ conns[c].open
SpentToday == checkpoint.status = "budget_exceeded" /\ checkpoint.budget_date = day
Wedged == /\ socket # None /\ conns[socket].at = "unspawned"
          /\ \A h \in Handler : handlers[h].conn # socket

\* A consumer that has been started reconnects: after a drop, a failed call
\* or a restart the watchdog opens a new connection, unless the day's budget
\* is spent, nobody is followed, or the handle is
\* wedged: mark_running failed after the socket was stored, no loop was spawned,
\* and every later call takes the connection for live (firehose.rs:170).
Reconnects ==
  armed ~> Connected \/ SpentToday \/ followed = {} \/ Wedged

\* "harmless, since every D1 write here is an idempotent upsert/delete": the
\* index of a post never goes back, whatever is replayed and by whom.
ReplayIsHarmless == [][\A r \in Record : index'[r] >= index[r]]_vars

\* One loop at a time keeps the promise of Index: behind last_seq every event it
\* was given and did not fail on, of accounts followed throughout, is covered,
\* whatever is replayed, drops, fails or restarts; a second loop breaks it off.
Covered ==
  IF overlapped THEN {}
  ELSE {i \in got \ failed : log[i] \notin touched /\ origin < i /\ i <= checkpoint.last_seq}
Promise == INSTANCE Index WITH
  shown <- index, covered <- Covered, promised <- ~overlapped
IndexIsKept == Promise!Spec

=============================================================================
