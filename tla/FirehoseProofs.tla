---------------------------- MODULE FirehoseProofs ----------------------------
(***************************************************************************)
(* What is proved of the firehose consumer, for any number of accounts,    *)
(* changes and connections, any budget and flush interval, and any drops,  *)
(* restarts and failed calls: while no two read loops have run at once, no *)
(* second is counted twice, the index never goes back, and the cursor      *)
(* never passes an event that was not stored; so the index is kept as      *)
(* Index promises it.                                                      *)
(***************************************************************************)
EXTENDS Firehose, SequenceTheorems, WellFoundedInduction, TLAPS

-----------------------------------------------------------------------------
(* Least and greatest: what the CHOOSEs of the model pick.                 *)

\* A set of numbers that is not empty has a least one.
LEMMA LeastExists ==
  ASSUME NEW S \in SUBSET Nat, S # {}
  PROVE  \E m \in S : \A k \in S : m <= k
<1>1. PICK m \in S : \A k \in S : ~ (<<k, m>> \in OpToRel(<, Nat))
  BY NatLessThanWellFounded, WFMin
<1>2. \A k \in S : ~ (k < m)
  BY <1>1 DEF OpToRel
<1>3. QED BY <1>2

\* One that is bounded has a greatest one.
LEMMA GreatestExists ==
  ASSUME NEW S \in SUBSET Nat, S # {}, NEW n \in Nat, \A k \in S : k <= n
  PROVE  \E m \in S : \A k \in S : k <= m
<1> DEFINE B == {b \in Nat : \A k \in S : k <= b}
<1>1. B \in SUBSET Nat /\ B # {}
  OBVIOUS
<1> HIDE DEF B
<1>2. PICK m \in B : \A b \in B : m <= b
  BY <1>1, LeastExists
<1>3. m \in Nat /\ \A k \in S : k <= m
  BY <1>2 DEF B
<1>4. ASSUME m \notin S PROVE FALSE
  <2>1. \A k \in S : k \in Nat /\ k < m
    BY <1>3, <1>4
  <2>2. m # 0 /\ m - 1 \in Nat
    <3>1. PICK k \in S : TRUE
      OBVIOUS
    <3>2. QED BY <3>1, <2>1, <1>3
  <2>3. \A k \in S : k <= m - 1
    BY <2>1, <1>3
  <2>4. m - 1 \in B
    BY <2>2, <2>3 DEF B
  <2>5. QED BY <2>4, <1>2, <1>3
<1>5. QED BY <1>3, <1>4

\* getRecord answers with the last change of the record, or says there is none.
LEMMA CurrentIsLast ==
  ASSUME log \in Seq(Record), NEW r
  PROVE  /\ Current(r) \in 0..LogLength
         /\ Current(r) # 0 => log[Current(r)] = r
         /\ \A i \in 1..LogLength : log[i] = r => Current(r) # 0 /\ i <= Current(r)
<1> DEFINE S == {i \in 1..LogLength : log[i] = r}
<1>1. LogLength \in Nat
  BY DEF LogLength
<1>2. S \in SUBSET Nat /\ \A i \in S : i <= LogLength
  BY <1>1
<1>3. CASE S = {}
  BY <1>1, <1>3 DEF Current
<1>4. CASE S # {}
  <2> HIDE DEF S
  <2>1. \E m \in S : \A k \in S : k <= m
    BY <1>1, <1>2, <1>4, GreatestExists
  <2>2. Current(r) = CHOOSE m \in S : \A k \in S : k <= m
    BY <1>4 DEF Current, S
  <2>3. Current(r) \in S /\ \A k \in S : k <= Current(r)
    BY <2>1, <2>2
  <2>4. QED BY <1>1, <2>3 DEF S
<1>5. QED BY <1>3, <1>4

\* The next event is the least that is due.
LEMMA FirstDue ==
  ASSUME NEW due \in SUBSET Nat, due # {}
  PROVE  LET i == CHOOSE j \in due : \A k \in due : j <= k
         IN  i \in due /\ \A k \in due : i <= k
<1>1. \E j \in due : \A k \in due : j <= k
  BY LeastExists
<1>2. QED BY <1>1

-----------------------------------------------------------------------------
(* Types.                                                                  *)

\* A connection's record, and a handler's.
ConnType == [at : LoopAt, open : BOOLEAN, wanted : SUBSET Record,
             dids : SUBSET Record, next : Nat, cursor : Nat,
             first : BOOLEAN, since : Nat, elapsed : Nat,
             delta : Nat, loaded : Nat, fetched : Nat]
HandlerType == [at : HandlerAt, today : Nat, seq : Nat,
                dids : SUBSET Record, conn : Conn \cup {None}]

\* What the object starts with, and restarts with, is typed.
LEMMA StartTypes == NoConn \in ConnType /\ IdleHandler \in HandlerType
BY DEF NoConn, IdleHandler, ConnType, HandlerType, LoopAt, HandlerAt

\* Counting a message and ending a flush keep a connection's record typed.
LEMMA LoopTypes ==
  ASSUME NEW l \in ConnType
  PROVE  /\ Counted(l) \in ConnType /\ Processed(l) \in ConnType
         /\ AfterFlush(l) \in ConnType
<1>1. ASSUME NEW k \in ConnType PROVE Counted(k) \in ConnType
  <2>1. [k EXCEPT !.since = 0, !.at = "flush", !.delta = k.elapsed, !.elapsed = 0] \in ConnType
    BY DEF ConnType, LoopAt
  <2>2. [k EXCEPT !.since = @ + 1, !.at = "read"] \in ConnType
    <3>1. k.since + 1 \in Nat
      BY DEF ConnType
    <3>2. QED BY <3>1 DEF ConnType, LoopAt
  <2>3. QED BY <2>1, <2>2, Zenon DEF Counted
<1>2. Processed(l) \in ConnType
  BY <1>1 DEF Processed, ConnType, LoopAt
<1>3. [l EXCEPT !.loaded = 0] \in ConnType
  BY DEF ConnType
<1>4. [l EXCEPT !.at = "refresh", !.loaded = 0, !.delta = 0] \in ConnType
  BY DEF ConnType, LoopAt
<1>5. QED BY <1>1, <1>2, <1>3, <1>4 DEF AfterFlush

\* What TypeOK says of the log, a connection and a handler.
LEMMA Typed ==
  ASSUME TypeOK
  PROVE  /\ log \in Seq(Record) /\ LogLength \in Nat
         /\ conns \in [Conn -> ConnType] /\ handlers \in [Handler -> HandlerType]
<1>1. log \in Seq(Record)
  BY Zenon DEF TypeOK
<1>2. LogLength \in Nat
  BY <1>1 DEF LogLength
<1>3. QED BY <1>1, <1>2, Zenon DEF TypeOK, ConnType, HandlerType

\* What the loop is given: the first event due of the accounts its URL names.
LEMMA ReceiveGives ==
  ASSUME TypeOK, NEW c \in Conn, Receive(c)
  PROVE  LET l == conns[c]
             seen(i) == [l EXCEPT !.next = i + 1, !.cursor = i]
         IN  \E i \in l.next..LogLength :
               /\ i \in Nat /\ log[i] \in l.wanted
               /\ \A j \in l.next..LogLength : log[j] \in l.wanted => i <= j
               /\ \/ /\ log[i] \in l.dids
                     /\ conns' = [conns EXCEPT ![c] = [seen(i) EXCEPT !.at = "handle"]]
                     /\ got' = got \cup {i}
                  \/ /\ log[i] \notin l.dids
                     /\ conns' = [conns EXCEPT ![c] = Processed(seen(i))]
                     /\ UNCHANGED got
<1> DEFINE l == conns[c]
           due == {i \in l.next..LogLength : log[i] \in l.wanted}
           i == CHOOSE j \in due : \A k \in due : j <= k
<1>1. l.next \in Nat /\ LogLength \in Nat
  BY Typed DEF ConnType
<1>2. due \in SUBSET Nat
  BY <1>1
<1>3. due # {}
  BY DEF Receive
<1>4. i \in due /\ \A k \in due : i <= k
  <2> HIDE DEF due
  <2>1. QED BY <1>2, <1>3, FirstDue
<1>5. \/ /\ log[i] \in l.dids
         /\ conns' = [conns EXCEPT ![c] = [[l EXCEPT !.next = i + 1, !.cursor = i]
                                             EXCEPT !.at = "handle"]]
         /\ got' = got \cup {i}
      \/ /\ log[i] \notin l.dids
         /\ conns' = [conns EXCEPT ![c] = Processed([l EXCEPT !.next = i + 1, !.cursor = i])]
         /\ UNCHANGED got
  BY Zenon DEF Receive, Loop
<1> HIDE DEF i
<1>6. i \in l.next..LogLength /\ i \in Nat /\ log[i] \in l.wanted
  BY <1>1, <1>4
<1>7. \A j \in l.next..LogLength : log[j] \in l.wanted => i <= j
  BY <1>1, <1>4
<1>8. QED BY <1>5, <1>6, <1>7, Zenon

\* TypeOK, by the groups of variables that actions leave alone together.
WorldTyped ==
  /\ followed \subseteq Record /\ touched \subseteq Record
  /\ log \in Seq(Record) /\ deleted \subseteq 1..LogLength
  /\ day \in Nat /\ edits \in Nat
IndexTyped == index \in [Record -> Nat]
CheckpointTyped ==
  checkpoint \in [last_seq : Nat, status : CheckpointStatus, budget_date : Nat, active : Nat]
SocketTyped == socket \in Conn \cup {None}
ConnsTyped == conns \in [Conn -> ConnType]
HandlersTyped == handlers \in [Handler -> HandlerType]
ArmedTyped == armed \in BOOLEAN
HistoryTyped ==
  /\ origin \in Nat /\ got \subseteq Nat /\ failed \subseteq Nat
  /\ overlapped \in BOOLEAN
ClockTyped == used \in Nat /\ usedToday \in Nat /\ ticks \in Nat
AllTyped ==
  /\ WorldTyped /\ IndexTyped /\ CheckpointTyped /\ SocketTyped /\ ConnsTyped
  /\ HandlersTyped /\ ArmedTyped /\ HistoryTyped /\ ClockTyped /\ faults \in Nat

\* Together they are TypeOK, in this state and the next.
LEMMA TypeParts == (TypeOK <=> AllTyped) /\ (TypeOK' <=> AllTyped')
<1>1. /\ {day, origin, used, usedToday, edits, ticks, faults} \subseteq Nat
         <=> /\ day \in Nat /\ origin \in Nat /\ used \in Nat /\ usedToday \in Nat
             /\ edits \in Nat /\ ticks \in Nat /\ faults \in Nat
      /\ {day', origin', used', usedToday', edits', ticks', faults'} \subseteq Nat
         <=> /\ day' \in Nat /\ origin' \in Nat /\ used' \in Nat /\ usedToday' \in Nat
             /\ edits' \in Nat /\ ticks' \in Nat /\ faults' \in Nat
  OBVIOUS
<1>2. QED
  BY <1>1, Zenon
     DEF TypeOK, AllTyped, WorldTyped, IndexTyped, CheckpointTyped, SocketTyped, ConnsTyped,
         HandlersTyped, ArmedTyped, HistoryTyped, ClockTyped, ConnType, HandlerType

\* What an action leaves alone stays typed.
LEMMA TypeFrames ==
  ASSUME AllTyped
  PROVE  /\ UNCHANGED world => WorldTyped'
         /\ UNCHANGED index => IndexTyped'
         /\ UNCHANGED checkpoint => CheckpointTyped'
         /\ UNCHANGED socket => SocketTyped'
         /\ UNCHANGED conns => ConnsTyped'
         /\ UNCHANGED handlers => HandlersTyped'
         /\ UNCHANGED armed => ArmedTyped'
         /\ UNCHANGED history => HistoryTyped'
         /\ UNCHANGED clock => ClockTyped'
         /\ \A c \in Conn, l \in ConnType : Loop(c, l) => ConnsTyped'
         /\ Fault => faults' \in Nat
<1>1. UNCHANGED world => WorldTyped'
  BY Zenon DEF AllTyped, WorldTyped, world, LogLength
<1>2. /\ UNCHANGED index => IndexTyped'
      /\ UNCHANGED checkpoint => CheckpointTyped'
  BY Zenon DEF AllTyped, IndexTyped, CheckpointTyped
<1>3. UNCHANGED history => HistoryTyped'
  BY Zenon DEF AllTyped, HistoryTyped, history
<1>4. UNCHANGED clock => ClockTyped'
  BY Zenon DEF AllTyped, ClockTyped, clock
<1>5. \A c \in Conn, l \in ConnType : Loop(c, l) => ConnsTyped'
  BY DEF AllTyped, ConnsTyped, Loop
<1>6. Fault => faults' \in Nat
  BY DEF AllTyped, Fault
<1>7. UNCHANGED socket => SocketTyped'
  BY Zenon DEF AllTyped, SocketTyped
<1>8. UNCHANGED conns => ConnsTyped'
  BY Zenon DEF AllTyped, ConnsTyped
<1>9. UNCHANGED handlers => HandlersTyped'
  BY Zenon DEF AllTyped, HandlersTyped
<1>10. UNCHANGED armed => ArmedTyped'
  BY Zenon DEF AllTyped, ArmedTyped
<1>11. QED
  BY <1>1, <1>2, <1>3, <1>4, <1>5, <1>6, <1>7, <1>8, <1>9, <1>10

\* What the object starts with is typed.
LEMMA InitTyped == Init => TypeOK
<1> SUFFICES ASSUME Init PROVE AllTyped
  BY TypeParts
<1>1. ConnsTyped /\ HandlersTyped
  BY StartTypes DEF Init, ConnsTyped, HandlersTyped
<1>2. WorldTyped
  BY DEF Init, WorldTyped, LogLength
<1>3. IndexTyped /\ CheckpointTyped /\ SocketTyped
  BY DEF Init, IndexTyped, CheckpointTyped, CheckpointStatus, SocketTyped
<1>4. ArmedTyped /\ HistoryTyped /\ ClockTyped /\ faults \in Nat
  BY DEF Init, ArmedTyped, HistoryTyped, ClockTyped
<1>5. QED BY <1>1, <1>2, <1>3, <1>4 DEF AllTyped

\* Every step leaves it typed: the loops' records, the handlers' locals and the
\* checkpoint row hold what the code puts in them.
LEMMA TypeStep == TypeOK /\ [Next]_vars => TypeOK'
<1> SUFFICES ASSUME AllTyped, [Next]_vars PROVE AllTyped'
  BY TypeParts
<1>a. log \in Seq(Record) /\ LogLength \in Nat
  BY TypeParts, Typed
<1> USE <1>a, TypeFrames DEF AllTyped
<1>1. ASSUME NEW r \in Record, Change(r) PROVE AllTyped'
  <2>1. log' \in Seq(Record) /\ LogLength' = LogLength + 1
    BY <1>1, AppendProperties DEF Change, LogLength
  <2>2. deleted' \subseteq 1..LogLength'
    <3>1. deleted' \subseteq deleted \cup {LogLength + 1}
      BY <1>1 DEF Change
    <3>2. deleted \subseteq 1..LogLength
      BY DEF WorldTyped
    <3>3. QED BY <2>1, <3>1, <3>2
  <2>3. WorldTyped'
    BY <1>1, <2>1, <2>2, Zenon DEF Change, WorldTyped
  <2>4. QED BY <1>1, <2>3, Zenon DEF Change, object
<1>2. ASSUME NEW r \in Record, SetFollowed(r) PROVE AllTyped'
  <2>1. WorldTyped'
    BY <1>2 DEF SetFollowed, WorldTyped, LogLength
  <2>2. QED BY <1>2, <2>1, Zenon DEF SetFollowed, object
<1>3. CASE Tick
  <2>1. ASSUME NEW c \in Conn PROVE [conns[c] EXCEPT !.elapsed = @ + 1] \in ConnType
    <3>1. conns[c] \in ConnType
      BY DEF ConnsTyped
    <3>2. conns[c].elapsed + 1 \in Nat
      BY <3>1 DEF ConnType
    <3>3. QED BY <3>1, <3>2 DEF ConnType
  <2>2. ConnsTyped'
    BY <1>3, <2>1 DEF Tick, ConnsTyped
  <2>3. ClockTyped'
    BY <1>3 DEF Tick, ClockTyped
  <2>4. QED BY <1>3, <2>2, <2>3, Zenon DEF Tick
<1>4. CASE Midnight
  <2>1. WorldTyped' /\ ClockTyped'
    BY <1>4 DEF Midnight, WorldTyped, ClockTyped, LogLength
  <2>2. QED BY <1>4, <2>1, Zenon DEF Midnight, object
<1>5. CASE StartFetch \/ StartAlarm
  <2>1. ASSUME NEW h \in Handler, NEW at \in HandlerAt
        PROVE  [handlers EXCEPT ![h].at = at, ![h].today = day]
                 \in [Handler -> HandlerType]
    BY DEF HandlersTyped, HandlerType, WorldTyped
  <2>2. HandlersTyped'
    <3>1. PICK h \in Handler, at \in HandlerAt :
            handlers' = [handlers EXCEPT ![h].at = at, ![h].today = day]
      BY <1>5 DEF StartFetch, StartAlarm, EnsureRunning, Handler, HandlerAt
    <3>2. QED BY <2>1, <3>1, Zenon DEF HandlersTyped
  <2>3. ArmedTyped'
    BY <1>5, Zenon DEF StartFetch, StartAlarm, ArmedTyped
  <2>4. QED BY <1>5, <2>2, <2>3, Zenon DEF StartFetch, StartAlarm
<1>6. CASE Restart
  <2>1. HandlersTyped' /\ ConnsTyped' /\ SocketTyped'
    BY <1>6, StartTypes DEF Restart, HandlersTyped, ConnsTyped, SocketTyped
  <2>2. ArmedTyped'
    BY <1>6, Zenon DEF Restart, ArmedTyped
  <2>3. QED BY <1>6, <2>1, <2>2, Zenon DEF Restart
<1>7. ASSUME NEW h \in Handler, Handle(h) PROVE AllTyped'
  <2> DEFINE here == handlers[h]
  <2>0. here \in HandlerType
    BY DEF HandlersTyped
  <2>1. ASSUME NEW at \in HandlerAt, Go(h, at) PROVE HandlersTyped'
    BY <2>1, StartTypes DEF Go, HandlersTyped, HandlerType
  <2>2. CASE LoadCheckpoint(h)
    <3>1. HandlersTyped'
      <4>1. CASE Go(h, "finish") BY <4>1, <2>1 DEF HandlerAt
      <4>2. CASE handlers' = [handlers EXCEPT ![h].at = "dids", ![h].seq = checkpoint.last_seq]
        <5>1. checkpoint.last_seq \in Nat
          BY DEF CheckpointTyped
        <5>2. [here EXCEPT !.at = "dids", !.seq = checkpoint.last_seq] \in HandlerType
          BY <5>1, <2>0 DEF HandlerType, HandlerAt
        <5>3. QED BY <4>2, <5>2 DEF HandlersTyped
      <4>3. QED BY <2>2, <4>1, <4>2 DEF LoadCheckpoint
    <3>2. QED BY <2>2, <3>1, Zenon DEF LoadCheckpoint
  <2>3. CASE LoadFollowedDids(h)
    <3>1. HandlersTyped'
      BY <2>3, StartTypes DEF LoadFollowedDids, HandlersTyped, HandlerType, HandlerAt, WorldTyped
    <3>2. QED BY <2>3, <3>1, Zenon DEF LoadFollowedDids
  <2>4. ASSUME NEW c \in Conn, Connect(h, c) PROVE AllTyped'
    <3>1. StartAt(handlers[h].seq) \in Nat
      BY <2>0 DEF StartAt, HandlerType
    <3>2. ConnsTyped'
      BY <2>4, <3>1, <2>0, StartTypes DEF Connect, ConnsTyped, ConnType, LoopAt, HandlerType
    <3>3. HandlersTyped'
      BY <2>4, StartTypes DEF Connect, HandlersTyped, HandlerType, HandlerAt
    <3>4. SocketTyped'
      BY <2>4 DEF Connect, SocketTyped
    <3>5. HistoryTyped'
      BY <2>4, Zenon DEF Connect, HistoryTyped
    <3>6. QED BY <2>4, <3>2, <3>3, <3>4, <3>5, Zenon DEF Connect
  <2>5. CASE MarkRunning(h)
    <3>1. HandlersTyped'
      BY <2>5, <2>1 DEF MarkRunning, HandlerAt
    <3>2. CheckpointTyped'
      BY <2>5 DEF MarkRunning, CheckpointTyped, CheckpointStatus
    <3>3. ConnsTyped'
      <4>1. ASSUME NEW c \in Conn PROVE [conns[c] EXCEPT !.at = "read"] \in ConnType
        <5>1. conns[c] \in ConnType
          BY Zenon DEF ConnsTyped
        <5>2. QED BY <5>1 DEF ConnType, LoopAt
      <4>2. conns' = [conns EXCEPT ![here.conn].at = "read"]
        BY <2>5, Zenon DEF MarkRunning
      <4>3. QED BY <4>1, <4>2 DEF ConnsTyped
    <3>4. HistoryTyped'
      BY <2>5, Zenon DEF MarkRunning, HistoryTyped
    <3>5. QED BY <2>5, <3>1, <3>2, <3>3, <3>4, Zenon DEF MarkRunning
  <2>6. CASE Finish(h)
    <3>1. HandlersTyped'
      BY <2>6, StartTypes DEF Finish, HandlersTyped
    <3>2. ArmedTyped'
      BY <2>6 DEF Finish, ArmedTyped
    <3>3. QED BY <2>6, <3>1, <3>2, Zenon DEF Finish
  <2>7. CASE WatchdogTick
    <3>1. HandlersTyped'
      <4>1. ASSUME NEW g \in Handler, NEW at \in HandlerAt
            PROVE  [handlers EXCEPT ![g].at = at, ![g].today = day] \in [Handler -> HandlerType]
        BY DEF HandlersTyped, HandlerType, WorldTyped
      <4>2. CASE Go("alarm", "finish")
        BY <4>2, StartTypes DEF Go, HandlersTyped, HandlerType, HandlerAt
      <4>3. CASE handlers' = [handlers EXCEPT !["alarm"].at = "reset"]
        BY <4>3 DEF HandlersTyped, HandlerType, HandlerAt
      <4>4. CASE handlers' = [handlers EXCEPT !["alarm"].at = EnsureRunning("alarm"),
                                              !["alarm"].today = day]
        BY <4>4, <4>1 DEF EnsureRunning, HandlersTyped, Handler, HandlerAt
      <4>5. QED BY <2>7, <4>2, <4>3, <4>4, Zenon DEF WatchdogTick
    <3>2. SocketTyped'
      <4>1. socket' \in {socket, None}
        BY <2>7, Zenon DEF WatchdogTick
      <4>2. QED BY <4>1, Zenon DEF SocketTyped
    <3>4. ConnsTyped'
      <4>1. ASSUME NEW c \in Conn PROVE [conns[c] EXCEPT !.open = FALSE] \in ConnType
        <5>1. conns[c] \in ConnType
          BY Zenon DEF ConnsTyped
        <5>2. QED BY <5>1 DEF ConnType
      <4>2. conns' = conns \/ conns' = [conns EXCEPT ![socket].open = FALSE]
        BY <2>7, Zenon DEF WatchdogTick
      <4>3. CASE conns' = [conns EXCEPT ![socket].open = FALSE]
        BY <4>1, <4>3 DEF ConnsTyped
      <4>4. QED BY <4>2, <4>3, Zenon DEF ConnsTyped
    <3>3. QED BY <2>7, <3>1, <3>2, <3>4, Zenon DEF WatchdogTick
  <2>8. CASE ResetDailyBudget
    <3>1. HandlersTyped'
      BY <2>8 DEF ResetDailyBudget, EnsureRunning, HandlersTyped, HandlerType, Handler,
                  HandlerAt, WorldTyped
    <3>2. CheckpointTyped'
      BY <2>8 DEF ResetDailyBudget, CheckpointTyped, CheckpointStatus, HandlersTyped,
                  HandlerType, Handler
    <3>3. QED BY <2>8, <3>1, <3>2, Zenon DEF ResetDailyBudget
  <2>9. QED BY <1>7, <2>2, <2>3, <2>4, <2>5, <2>6, <2>7, <2>8, Zenon DEF Handle
<1>8. ASSUME NEW h \in Handler, FailHandler(h) PROVE AllTyped'
  <2>1. HandlersTyped'
    BY <1>8, StartTypes DEF FailHandler, HandlersTyped, HandlerType, HandlerAt
  <2>2. QED BY <1>8, <2>1, Zenon DEF FailHandler
<1>9. ASSUME NEW c \in Conn, ReadLoop(c) PROVE AllTyped'
  <2>0. conns[c] \in ConnType /\ conns[c].cursor \in Nat
    BY DEF ConnsTyped, ConnType
  <2>1. CASE Receive(c)
    <3> DEFINE seen(i) == [conns[c] EXCEPT !.next = i + 1, !.cursor = i]
    <3>1. PICK i \in Nat :
            \/ /\ conns' = [conns EXCEPT ![c] = [seen(i) EXCEPT !.at = "handle"]]
               /\ got' = got \cup {i}
            \/ /\ conns' = [conns EXCEPT ![c] = Processed(seen(i))]
               /\ UNCHANGED got
      BY <2>1, ReceiveGives, TypeParts
    <3>2. seen(i) \in ConnType
      <4>1. i + 1 \in Nat
        OBVIOUS
      <4>2. QED BY <4>1, <2>0 DEF ConnType
    <3>3. [seen(i) EXCEPT !.at = "handle"] \in ConnType
      BY <3>2 DEF ConnType, LoopAt
    <3> HIDE DEF seen
    <3>4. ConnsTyped'
      BY <3>1, <3>2, <3>3, LoopTypes DEF ConnsTyped
    <3>5. HistoryTyped'
      <4>1. got' \subseteq Nat
        BY <3>1 DEF HistoryTyped
      <4>2. QED BY <2>1, <4>1, Zenon DEF Receive, HistoryTyped
    <3>6. QED BY <2>1, <3>4, <3>5, Zenon DEF Receive
  <2>2. CASE FetchRecord(c)
    <3>1. Current(log[conns[c].cursor]) \in Nat
      BY CurrentIsLast
    <3>2. [conns[c] EXCEPT !.at = "store", !.fetched = Current(log[conns[c].cursor])] \in ConnType
      BY <2>0, <3>1 DEF ConnType, LoopAt
    <3>3. QED BY <2>2, <3>2, Zenon DEF FetchRecord
  <2>3. CASE ApplyIndexWrite(c)
    <3>1. IndexTyped'
      <4>1. Written(conns[c], log[conns[c].cursor]) \in Nat \/ log[conns[c].cursor] \notin Record
        BY <2>0 DEF Written, IndexTyped, ConnType
      <4>2. QED BY <2>3, <4>1 DEF ApplyIndexWrite, IndexTyped
    <3>2. [Processed(conns[c]) EXCEPT !.fetched = 0] \in ConnType
      BY <2>0, LoopTypes DEF ConnType
    <3>3. QED BY <2>3, <3>1, <3>2, Zenon DEF ApplyIndexWrite
  <2>4. CASE FlushLoad(c)
    <3>1. ASSUME NEW at \in LoopAt
          PROVE  [conns[c] EXCEPT !.at = at, !.loaded = checkpoint.active] \in ConnType
      BY <2>0 DEF ConnType, CheckpointTyped
    <3>2. ConnsTyped'
      BY <2>4, <3>1 DEF FlushLoad, LoopAt
    <3>3. QED BY <2>4, <3>2, Zenon DEF FlushLoad
  <2>5. CASE FlushWrite(c)
    <3>1. CheckpointTyped'
      <4>1. ASSUME NEW active \in Nat, NEW status \in CheckpointStatus
            PROVE  [checkpoint EXCEPT !.last_seq = conns[c].cursor, !.active = active,
                                      !.status = status]
                     \in [last_seq : Nat, status : CheckpointStatus, budget_date : Nat,
                          active : Nat]
        BY <2>0 DEF CheckpointTyped
      <4>2. conns[c].loaded + conns[c].delta \in Nat
        BY <2>0 DEF ConnType
      <4>3. BudgetStatus(conns[c].loaded + conns[c].delta) \in CheckpointStatus
        BY DEF BudgetStatus, CheckpointStatus
      <4>4. QED BY <2>5, <4>1, <4>2, <4>3 DEF FlushWrite, CheckpointTyped
    <3>2. QED BY <2>5, <3>1, <2>0, LoopTypes, Zenon DEF FlushWrite
  <2>6. CASE RefreshDids(c)
    <3>1. [conns[c] EXCEPT !.at = "read", !.dids = followed] \in ConnType
      BY <2>0 DEF ConnType, LoopAt, WorldTyped
    <3>2. QED BY <2>6, <3>1, Zenon DEF RefreshDids
  <2>7. CASE EndLoop(c)
    <3>1. SocketTyped'
      BY <2>7 DEF EndLoop, Cleared, SocketTyped
    <3>2. QED BY <2>7, <3>1, StartTypes, Zenon DEF EndLoop
  <2>8. QED BY <1>9, <2>1, <2>2, <2>3, <2>4, <2>5, <2>6, <2>7, Zenon DEF ReadLoop
<1>10. ASSUME NEW c \in Conn,
              ReceiveBadFrame(c) \/ FailEvent(c) \/ FailFlush(c) \/ Drop(c)
       PROVE  AllTyped'
  <2>0. conns[c] \in ConnType /\ conns[c].cursor \in Nat
    BY DEF ConnsTyped, ConnType
  <2>1. CASE ReceiveBadFrame(c)
    BY <2>1, <2>0, LoopTypes, Zenon DEF ReceiveBadFrame
  <2>2. CASE FailEvent(c)
    <3>1. [Processed(conns[c]) EXCEPT !.fetched = 0] \in ConnType
      BY <2>0, LoopTypes DEF ConnType
    <3>2. HistoryTyped'
      BY <2>2, <2>0, Zenon DEF FailEvent, HistoryTyped
    <3>3. QED BY <2>2, <3>1, <3>2, Zenon DEF FailEvent
  <2>3. CASE FailFlush(c)
    <3>1. [conns[c] EXCEPT !.at = "read"] \in ConnType
      BY <2>0 DEF ConnType, LoopAt
    <3>2. QED BY <2>3, <2>0, <3>1, LoopTypes, Zenon DEF FailFlush
  <2>4. CASE Drop(c)
    <3>1. [conns[c] EXCEPT !.open = FALSE] \in ConnType
      BY <2>0 DEF ConnType
    <3>2. QED BY <2>4, <3>1, Zenon DEF Drop
  <2>5. QED BY <1>10, <2>1, <2>2, <2>3, <2>4
<1>11. CASE UNCHANGED vars
  BY <1>11, Zenon DEF vars, object
<1>12. QED
  BY <1>1, <1>2, <1>3, <1>4, <1>5, <1>6, <1>7, <1>8, <1>9, <1>10, <1>11, Zenon
     DEF Next

\* The object's state is typed after every step.
THEOREM FirehoseTypeCorrect == Spec => []TypeOK
<1>1. QED BY InitTyped, TypeStep, PTL DEF Spec

-----------------------------------------------------------------------------
(* Who holds which connection.                                             *)

\* The handler between Connect and MarkRunning, and no other, holds a
\* connection: one of its own, that no loop reads yet.
Held ==
  /\ \A h \in Handler :
       IF handlers[h].at = "mark"
       THEN handlers[h].conn \in Conn /\ conns[handlers[h].conn].at = "unspawned"
       ELSE handlers[h].conn = None
  /\ \A g, h \in Handler :
       g # h /\ handlers[g].conn = handlers[h].conn => handlers[h].conn = None

\* A connection without a loop has run for no time.
Calm == \A c \in Conn : ~Looping(c) => conns[c].elapsed = 0

\* Until `overlapped` says otherwise there is one read loop at most.
OneLoop == ~overlapped => \A b, c \in Conn : Looping(b) /\ Looping(c) => b = c

\* The connections of the next state of a loop's step: c goes on as l, which is
\* a loop's record again or no connection at all.
LoopsOn(c, l) ==
  /\ l \in ConnType /\ Loop(c, l) /\ Looping(c)
  /\ l.at # "unspawned"
  /\ l.at = "none" => l = NoConn

\* k goes on from l: the same connection and filter at the same place.
SamePlace(k, l) ==
  /\ k.open = l.open /\ k.wanted = l.wanted /\ k.dids = l.dids
  /\ k.next = l.next /\ k.cursor = l.cursor

\* k's seconds are l's, and those set aside for the checkpoint wait for a flush.
SameSeconds(k, l) ==
  /\ k.elapsed + k.delta = l.elapsed + l.delta
  /\ k.delta # 0 => k.at = "flush"

\* Counting a message and ending a flush leave the loop where it was in the
\* stream, reading, flushing or refreshing.
LEMMA Counts ==
  ASSUME NEW l \in ConnType
  PROVE  /\ Counted(l).at \in {"flush", "read"} /\ SamePlace(Counted(l), l)
         /\ Processed(l).at \in {"beat", "flush", "read"} /\ SamePlace(Processed(l), l)
         /\ AfterFlush(l).at \in {"flush", "read", "refresh"} /\ SamePlace(AfterFlush(l), l)
         /\ l.delta = 0 => /\ SameSeconds(Counted(l), l) /\ SameSeconds(Processed(l), l)
         /\ AfterFlush(l).loaded = 0
         /\ l.at \in {"beat", "beatwrite"} /\ l.delta = 0 => SameSeconds(AfterFlush(l), l)
         /\ l.at \notin {"beat", "beatwrite"} =>
              AfterFlush(l).elapsed = l.elapsed /\ AfterFlush(l).delta = 0
<1>1. ASSUME NEW k \in ConnType
      PROVE  /\ Counted(k).at \in {"flush", "read"} /\ SamePlace(Counted(k), k)
             /\ k.delta = 0 => SameSeconds(Counted(k), k)
             /\ Counted(k).loaded = k.loaded
  BY DEF Counted, ConnType, SamePlace, SameSeconds
<1>2. /\ Processed(l).at \in {"beat", "flush", "read"} /\ SamePlace(Processed(l), l)
      /\ l.delta = 0 => SameSeconds(Processed(l), l)
  <2>1. CASE l.first BY <2>1 DEF Processed, ConnType, SamePlace, SameSeconds
  <2>2. CASE ~l.first BY <2>2, <1>1 DEF Processed
  <2>3. QED BY <2>1, <2>2
<1>3. CASE l.at \in {"beat", "beatwrite"}
  <2> DEFINE k == [l EXCEPT !.loaded = 0]
  <2>1. k \in ConnType /\ SamePlace(k, l) /\ k.loaded = 0 /\ k.elapsed = l.elapsed /\ k.delta = l.delta
    BY DEF ConnType, SamePlace
  <2>2. AfterFlush(l) = Counted(k)
    BY <1>3 DEF AfterFlush
  <2> HIDE DEF k
  <2>3. QED BY <1>1, <1>2, <1>3, <2>1, <2>2 DEF SamePlace, SameSeconds
<1>4. CASE l.at \notin {"beat", "beatwrite"}
  <2>1. AfterFlush(l) = [l EXCEPT !.at = "refresh", !.loaded = 0, !.delta = 0]
    BY <1>4 DEF AfterFlush
  <2>2. QED BY <1>1, <1>2, <1>4, <2>1 DEF SamePlace, ConnType
<1>5. QED BY <1>3, <1>4

\* Every step of a loop but a drop goes on from a loop's record, and leaves the
\* handlers, the world and `overlapped` alone.
LEMMA LoopSteps ==
  ASSUME TypeOK, NEW c \in Conn,
         ReadLoop(c) \/ ReceiveBadFrame(c) \/ FailEvent(c) \/ FailFlush(c)
  PROVE  /\ \E l : LoopsOn(c, l)
         /\ UNCHANGED <<handlers, overlapped, world, origin>>
<1> DEFINE k == conns[c]
<1>0. k \in ConnType /\ LogLength \in Nat /\ k.cursor \in Nat
  BY Typed DEF ConnType
<1> USE <1>0 DEF LoopsOn, Looping
<1>1. CASE Receive(c)
  <2> DEFINE seen(i) == [k EXCEPT !.next = i + 1, !.cursor = i]
  <2>1. PICK i \in Nat :
          \/ conns' = [conns EXCEPT ![c] = [seen(i) EXCEPT !.at = "handle"]]
          \/ conns' = [conns EXCEPT ![c] = Processed(seen(i))]
    BY <1>1, ReceiveGives, Zenon
  <2>2. seen(i) \in ConnType
    <3>1. i + 1 \in Nat
      OBVIOUS
    <3>2. QED BY <3>1 DEF ConnType
  <2>3. /\ [seen(i) EXCEPT !.at = "handle"] \in ConnType
        /\ [seen(i) EXCEPT !.at = "handle"].at = "handle"
    BY <2>2 DEF ConnType, LoopAt
  <2>4. Processed(seen(i)) \in ConnType /\ Processed(seen(i)).at \in {"beat", "flush", "read"}
    BY <2>2, LoopTypes, Counts, Zenon
  <2> HIDE DEF seen
  <2>5. \E l : LoopsOn(c, l)
    BY <1>1, <2>1, <2>3, <2>4 DEF Loop, Receive
  <2>6. QED BY <1>1, <2>5, Zenon DEF Receive
<1>2. CASE FetchRecord(c)
  <2>1. Current(log[k.cursor]) \in Nat
    BY CurrentIsLast, Typed
  <2> DEFINE l == [k EXCEPT !.at = "store", !.fetched = Current(log[k.cursor])]
  <2>2. l \in ConnType /\ l.at = "store"
    BY <2>1 DEF ConnType, LoopAt
  <2> HIDE DEF l
  <2>3. Loop(c, l) /\ k.at = "handle"
    BY <1>2, Zenon DEF FetchRecord, l
  <2>4. LoopsOn(c, l)
    BY <2>2, <2>3
  <2>5. QED BY <1>2, <2>4, Zenon DEF FetchRecord, history
<1>3. CASE ApplyIndexWrite(c)
  <2>1. /\ [Processed(k) EXCEPT !.fetched = 0] \in ConnType
        /\ [Processed(k) EXCEPT !.fetched = 0].at = Processed(k).at
    BY LoopTypes DEF ConnType
  <2>2. QED BY <1>3, <2>1, Counts DEF ApplyIndexWrite, history
<1>4. CASE FlushLoad(c)
  <2> DEFINE l == [k EXCEPT !.at = IF @ = "beat" THEN "beatwrite" ELSE "write",
                            !.loaded = checkpoint.active]
  <2>1. checkpoint.active \in Nat
    BY DEF TypeOK
  <2>2. l \in ConnType /\ l.at \in {"beatwrite", "write"}
    BY <2>1 DEF ConnType, LoopAt
  <2> HIDE DEF l
  <2>3. Loop(c, l) /\ k.at \in {"beat", "flush"}
    BY <1>4, Zenon DEF FlushLoad, l
  <2>4. LoopsOn(c, l)
    BY <2>2, <2>3
  <2>5. QED BY <1>4, <2>4, Zenon DEF FlushLoad, history
<1>5. CASE FlushWrite(c)
  BY <1>5, LoopTypes, Counts DEF FlushWrite, history
<1>6. CASE RefreshDids(c)
  <2> DEFINE l == [k EXCEPT !.at = "read", !.dids = followed]
  <2>1. followed \in SUBSET Record
    BY DEF TypeOK
  <2>2. l \in ConnType /\ l.at = "read"
    BY <2>1 DEF ConnType, LoopAt
  <2> HIDE DEF l
  <2>3. Loop(c, l) /\ k.at = "refresh"
    BY <1>6, Zenon DEF RefreshDids, l
  <2>4. LoopsOn(c, l)
    BY <2>2, <2>3
  <2>5. QED BY <1>6, <2>4, Zenon DEF RefreshDids, history
<1>7. CASE EndLoop(c)
  BY <1>7, StartTypes DEF EndLoop, NoConn, history
<1>8. CASE ReceiveBadFrame(c)
  BY <1>8, LoopTypes, Counts DEF ReceiveBadFrame, history
<1>9. CASE FailEvent(c)
  <2>1. /\ [Processed(k) EXCEPT !.fetched = 0] \in ConnType
        /\ [Processed(k) EXCEPT !.fetched = 0].at = Processed(k).at
    BY LoopTypes DEF ConnType
  <2>2. QED BY <1>9, <2>1, Counts DEF FailEvent
<1>10. CASE FailFlush(c)
  <2>1. [k EXCEPT !.at = "read"] \in ConnType /\ [k EXCEPT !.at = "read"].at = "read"
    BY DEF ConnType, LoopAt
  <2>2. QED BY <1>10, <2>1, LoopTypes, Counts DEF FailFlush, history
<1>11. QED
  BY <1>1, <1>2, <1>3, <1>4, <1>5, <1>6, <1>7, <1>8, <1>9, <1>10, Zenon DEF ReadLoop

-----------------------------------------------------------------------------
(* The kinds of steps.                                                     *)

\* The same loop, but that the connection may have closed under it.
SameLoop(k, l) ==
  /\ k.at = l.at /\ k.wanted = l.wanted /\ k.dids = l.dids
  /\ k.next = l.next /\ k.cursor = l.cursor
  /\ k.elapsed = l.elapsed /\ k.delta = l.delta /\ k.loaded = l.loaded
  /\ k.fetched = l.fetched

\* A step that moves no loop: connections keep their loops, a handler goes on
\* holding none, and neither the index nor the cursor changes.
Quiet ==
  /\ \A b \in Conn : SameLoop(conns'[b], conns[b])
  /\ \A h \in Handler :
       \/ handlers'[h] = handlers[h]
       \/ /\ handlers'[h].at # "mark" /\ handlers'[h].conn = None
          /\ handlers'[h].seq \in {0, handlers[h].seq, checkpoint.last_seq}
          /\ handlers'[h].at = "connect" => handlers'[h].dids = followed
  /\ UNCHANGED <<index, history, used>>
  /\ checkpoint'.last_seq = checkpoint.last_seq
  /\ checkpoint'.active \in {0, checkpoint.active}

\* A step of the loop on c.
LoopStep(c) == ReadLoop(c) \/ ReceiveBadFrame(c) \/ FailEvent(c) \/ FailFlush(c)

\* The steps of the world, of the handlers but two, and a drop are quiet.
LEMMA QuietSteps ==
  ASSUME TypeOK, Held
  PROVE  /\ \A r \in Record : Change(r) \/ SetFollowed(r) => Quiet
         /\ Midnight \/ StartFetch \/ StartAlarm => Quiet
         /\ \A h \in Handler : LoadCheckpoint(h) \/ LoadFollowedDids(h) => Quiet
         /\ \A h \in Handler : Finish(h) \/ FailHandler(h) => Quiet
         /\ WatchdogTick \/ ResetDailyBudget => Quiet
         /\ \A c \in Conn : Drop(c) => Quiet
         /\ UNCHANGED vars => Quiet
<1> USE Typed DEF Quiet, SameLoop
<1>1. ASSUME NEW r \in Record, Change(r) \/ SetFollowed(r) PROVE Quiet
  BY <1>1 DEF Change, SetFollowed, object, clock
<1>2. CASE Midnight
  BY <1>2 DEF Midnight, object
<1>3. CASE StartFetch \/ StartAlarm
  <2>1. /\ UNCHANGED <<conns, index, checkpoint, history, used>>
    BY <1>3 DEF StartFetch, StartAlarm, clock
  <2>2. ASSUME NEW h \in Handler, NEW at \in {"tick", "finish", "load"},
               handlers[h].at = "idle",
               handlers' = [handlers EXCEPT ![h].at = at, ![h].today = day],
               NEW g \in Handler
        PROVE  \/ handlers'[g] = handlers[g]
               \/ /\ handlers'[g].at # "mark" /\ handlers'[g].conn = None
                  /\ handlers'[g].seq = handlers[g].seq
                  /\ handlers'[g].at # "connect"
    BY <2>2 DEF Held, HandlerType
  <2>3. QED BY <1>3, <2>1, <2>2 DEF StartFetch, StartAlarm, EnsureRunning, Handler
<1>4. ASSUME NEW h \in Handler, NEW at \in HandlerAt, at \notin {"mark", "connect"},
             Go(h, at), UNCHANGED conns,
             UNCHANGED <<index, checkpoint, history, clock>>
      PROVE  Quiet
  BY <1>4 DEF Go, IdleHandler, clock
<1>5. ASSUME NEW h \in Handler, LoadCheckpoint(h) PROVE Quiet
  <2>1. CASE Go(h, "finish")
    BY <1>5, <2>1, <1>4 DEF LoadCheckpoint, HandlerAt
  <2>2. CASE /\ handlers[h].at = "load"
             /\ handlers' = [handlers EXCEPT ![h].at = "dids", ![h].seq = checkpoint.last_seq]
    BY <1>5, <2>2 DEF LoadCheckpoint, Held, HandlerType, clock
  <2>3. QED BY <1>5, <2>1, <2>2 DEF LoadCheckpoint
<1>6. ASSUME NEW h \in Handler, LoadFollowedDids(h) PROVE Quiet
  <2>1. CASE followed = {}
    BY <1>6, <2>1 DEF LoadFollowedDids, IdleHandler, clock
  <2>2. CASE followed # {}
    BY <1>6, <2>2 DEF LoadFollowedDids, Held, HandlerType, clock
  <2>3. QED BY <2>1, <2>2
<1>7. ASSUME NEW h \in Handler, Finish(h) PROVE Quiet
  BY <1>7 DEF Finish, IdleHandler, clock
<1>8. ASSUME NEW h \in Handler, FailHandler(h) PROVE Quiet
  BY <1>8 DEF FailHandler, IdleHandler, clock
<1>9. CASE WatchdogTick
  <2>1. \A b \in Conn : SameLoop(conns'[b], conns[b])
    <3>1. conns' = conns \/ conns' = [conns EXCEPT ![socket].open = FALSE]
      BY <1>9, Zenon DEF WatchdogTick
    <3>2. CASE conns' = conns
      BY <3>2
    <3>3. CASE conns' = [conns EXCEPT ![socket].open = FALSE]
      <4>1. ASSUME NEW b \in Conn PROVE SameLoop([conns[b] EXCEPT !.open = FALSE], conns[b])
        BY DEF ConnType
      <4>2. ASSUME NEW b \in Conn
            PROVE  conns'[b] = conns[b] \/ conns'[b] = [conns[b] EXCEPT !.open = FALSE]
        BY <3>3
      <4>3. QED BY <4>1, <4>2
    <3>4. QED BY <3>1, <3>2, <3>3
  <2>2. UNCHANGED <<index, checkpoint, history, clock>>
    BY <1>9 DEF WatchdogTick
  <2>3. CASE Go("alarm", "finish")
    BY <2>1, <2>2, <2>3 DEF Go, IdleHandler, clock
  <2>4. ASSUME NEW at \in {"reset", "finish", "load"}, NEW today \in Nat,
               handlers' = [handlers EXCEPT !["alarm"].at = at, !["alarm"].today = today]
        PROVE  Quiet
    BY <2>1, <2>2, <2>4, <1>9 DEF WatchdogTick, Held, HandlerType, clock, Handler
  <2>5. CASE handlers' = [handlers EXCEPT !["alarm"].at = "reset"]
    BY <2>1, <2>2, <2>5, <1>9 DEF WatchdogTick, Held, HandlerType, clock, Handler
  <2>6. day \in Nat
    BY DEF TypeOK
  <2>7. QED BY <1>9, <2>3, <2>4, <2>5, <2>6, Zenon DEF WatchdogTick, EnsureRunning
<1>10. CASE ResetDailyBudget
  <2>1. /\ checkpoint'.last_seq = checkpoint.last_seq /\ checkpoint'.active = 0
    BY <1>10 DEF ResetDailyBudget, TypeOK
  <2>2. QED BY <1>10, <2>1 DEF ResetDailyBudget, EnsureRunning, Held, HandlerType, clock, Handler
<1>11. ASSUME NEW c \in Conn, Drop(c) PROVE Quiet
  BY <1>11 DEF Drop, Loop, ConnType, clock
<1>12. CASE UNCHANGED vars
  BY <1>12 DEF vars, object, clock
<1>13. QED
  BY <1>1, <1>2, <1>3, <1>5, <1>6, <1>7, <1>8, <1>9, <1>10, <1>11, <1>12

\* Every other step opens a connection, spawns a loop, moves the loops' clocks
\* or one loop, or starts over.
LEMMA StepKinds ==
  ASSUME TypeOK, Held, [Next]_vars
  PROVE  \/ Quiet \/ Tick \/ Restart
         \/ \E h \in Handler : MarkRunning(h) \/ \E c \in Conn : Connect(h, c)
         \/ \E c \in Conn : LoopStep(c)
BY QuietSteps, Zenon DEF Next, Handle, LoopStep

\* The log only grows, deletions of changes stay as they were made, and an
\* account is touched by whatever follows or unfollows it.
LEMMA WorldGoesOn ==
  ASSUME TypeOK, [Next]_vars
  PROVE  /\ LogLength' \in Nat /\ LogLength <= LogLength'
         /\ \A i \in 1..LogLength : log'[i] = log[i] /\ (i \in deleted' <=> i \in deleted)
         /\ touched \subseteq touched'
         /\ Record \ touched \subseteq followed => Record \ touched' \subseteq followed'
<1>0. log \in Seq(Record) /\ LogLength \in Nat
  BY Typed
<1>1. ASSUME NEW r \in Record, Change(r)
      PROVE  /\ LogLength' = LogLength + 1
             /\ \A i \in 1..LogLength : log'[i] = log[i] /\ (i \in deleted' <=> i \in deleted)
             /\ touched' = touched /\ followed' = followed
  BY <1>0, <1>1, AppendProperties DEF Change, LogLength
<1>2. ASSUME NEW r \in Record, SetFollowed(r)
      PROVE  /\ UNCHANGED <<log, deleted>> /\ touched \subseteq touched'
             /\ Record \ touched \subseteq followed => Record \ touched' \subseteq followed'
  BY <1>2 DEF SetFollowed
<1>3. CASE UNCHANGED <<log, deleted, touched, followed>>
  BY <1>0, <1>3 DEF LogLength
<1>4. ASSUME NEW c \in Conn, LoopStep(c) PROVE UNCHANGED <<log, deleted, touched, followed>>
  BY <1>4, LoopSteps DEF LoopStep, world
<1>5. Tick \/ Restart \/ Midnight => UNCHANGED <<log, deleted, touched, followed>>
  BY DEF Tick, Restart, Midnight, world
<1>6. \/ StartFetch \/ StartAlarm \/ (\E c \in Conn : Drop(c)) \/ UNCHANGED vars
      \/ (\E h \in Handler : FailHandler(h) \/ Handle(h))
      => UNCHANGED <<log, deleted, touched, followed>>
  BY Zenon DEF StartFetch, StartAlarm, Drop, vars, FailHandler, Handle, LoadCheckpoint,
     LoadFollowedDids, Connect, MarkRunning, Finish, WatchdogTick, ResetDailyBudget, world
<1>7. \/ \E r \in Record : Change(r) \/ SetFollowed(r)
      \/ UNCHANGED <<log, deleted, touched, followed>>
  BY <1>4, <1>5, <1>6, Zenon DEF Next, LoopStep
<1>8. QED BY <1>0, <1>1, <1>2, <1>3, <1>7 DEF LogLength

\* What Connect leaves: c open, unread, where the handler's cursor says, and the
\* handler holding it.
LEMMA ConnectSteps ==
  ASSUME TypeOK, Held, NEW h \in Handler, NEW c \in Conn, Connect(h, c)
  PROVE  /\ ~Looping(c) /\ handlers[h].at = "connect"
         /\ \A b \in Conn \ {c} : conns'[b] = conns[b]
         /\ conns'[c].at = "unspawned" /\ conns'[c].cursor = 0
         /\ conns'[c].next = StartAt(handlers[h].seq)
         /\ conns'[c].wanted = handlers[h].dids /\ conns'[c].dids = handlers[h].dids
         /\ conns'[c].elapsed = 0 /\ conns'[c].delta = 0
         /\ \A g \in Handler \ {h} : handlers'[g] = handlers[g] /\ handlers[g].conn # c
         /\ handlers'[h].at = "mark" /\ handlers'[h].conn = c /\ handlers'[h].seq = 0
         /\ UNCHANGED <<world, index, checkpoint, got, failed, overlapped, clock>>
         /\ origin' = IF handlers[h].seq > 0 THEN origin ELSE LogLength
<1> USE Typed
<1>1. /\ handlers[h].at = "connect" /\ Free(c)
      /\ UNCHANGED <<world, index, checkpoint, got, failed, overlapped, clock>>
      /\ origin' = IF handlers[h].seq > 0 THEN origin ELSE LogLength
  BY Zenon DEF Connect
<1>2. /\ conns' = [conns EXCEPT ![c] =
           [NoConn EXCEPT !.at = "unspawned", !.open = TRUE, !.wanted = handlers[h].dids,
                          !.dids = handlers[h].dids, !.next = StartAt(handlers[h].seq)]]
      /\ handlers' = [handlers EXCEPT ![h] = [IdleHandler EXCEPT !.at = "mark", !.conn = c]]
  BY Zenon DEF Connect
<1>3. /\ \A b \in Conn \ {c} : conns'[b] = conns[b]
      /\ conns'[c].at = "unspawned" /\ conns'[c].cursor = 0
      /\ conns'[c].next = StartAt(handlers[h].seq)
      /\ conns'[c].wanted = handlers[h].dids /\ conns'[c].dids = handlers[h].dids
      /\ conns'[c].elapsed = 0 /\ conns'[c].delta = 0
  BY <1>2 DEF NoConn
<1>4. /\ \A g \in Handler \ {h} : handlers'[g] = handlers[g] /\ handlers[g].conn # c
      /\ handlers'[h].at = "mark" /\ handlers'[h].conn = c /\ handlers'[h].seq = 0
  BY <1>1, <1>2 DEF IdleHandler, Free
<1>5. ~Looping(c)
  BY <1>1 DEF Free
<1>6. QED BY <1>1, <1>3, <1>4, <1>5

\* What MarkRunning leaves: the connection it holds is read, and the rest of
\* it is as Connect left it.
LEMMA MarkSteps ==
  ASSUME TypeOK, Held, NEW h \in Handler, MarkRunning(h)
  PROVE  \E c \in Conn :
           /\ c = handlers[h].conn /\ conns[c].at = "unspawned"
           /\ conns' = [conns EXCEPT ![c].at = "read"]
           /\ \A b \in Conn \ {c} : conns'[b] = conns[b]
           /\ conns'[c].at = "read" /\ SamePlace(conns'[c], conns[c])
           /\ conns'[c].elapsed = conns[c].elapsed /\ conns'[c].delta = conns[c].delta
           /\ \A g \in Handler \ {h} : handlers'[g] = handlers[g]
           /\ handlers'[h].at = "finish" /\ handlers'[h].conn = None /\ handlers'[h].seq = 0
           /\ checkpoint'.last_seq = checkpoint.last_seq
           /\ checkpoint'.active = checkpoint.active
           /\ UNCHANGED <<world, index, origin, got, failed, clock>>
           /\ overlapped' = (overlapped \/ \E b \in Conn \ {c} : Looping(b))
<1> DEFINE c == handlers[h].conn
<1> USE Typed
<1>1. c \in Conn /\ conns[c].at = "unspawned"
  BY DEF Held, MarkRunning
<1>2. /\ conns' = [conns EXCEPT ![c].at = "read"]
      /\ Go(h, "finish")
      /\ checkpoint' = [checkpoint EXCEPT !.status = "running"]
      /\ UNCHANGED <<world, index, origin, got, failed, clock>>
      /\ overlapped' = (overlapped \/ \E b \in Conn \ {c} : Looping(b))
  BY Zenon DEF MarkRunning
<1>3. /\ checkpoint'.last_seq = checkpoint.last_seq
      /\ checkpoint'.active = checkpoint.active
  BY <1>2 DEF TypeOK
<1>4. /\ \A b \in Conn \ {c} : conns'[b] = conns[b]
      /\ conns'[c].at = "read" /\ SamePlace(conns'[c], conns[c])
      /\ conns'[c].elapsed = conns[c].elapsed /\ conns'[c].delta = conns[c].delta
  BY <1>1, <1>2 DEF ConnType, SamePlace
<1>5. /\ \A g \in Handler \ {h} : handlers'[g] = handlers[g]
      /\ handlers'[h].at = "finish" /\ handlers'[h].conn = None /\ handlers'[h].seq = 0
  BY <1>2 DEF Go, IdleHandler
<1> HIDE DEF c
<1>6. QED BY <1>1, <1>2, <1>3, <1>4, <1>5, Zenon DEF c

Structure == Held /\ Calm /\ OneLoop

\* Handlers hold what they opened, and two loops do not run unnoticed.
LEMMA StructureStep == ASSUME TypeOK, Structure, [Next]_vars PROVE Structure'
<1> USE Typed
<1>0. Held /\ Calm /\ OneLoop
  BY DEF Structure
<1>1. CASE Quiet
  <2>1. Held' /\ Calm'
    BY <1>0, <1>1 DEF Held, Calm, Quiet, SameLoop, Looping
  <2>2. \A b \in Conn : conns'[b].at = conns[b].at
    BY <1>1 DEF Quiet, SameLoop
  <2>3. overlapped' = overlapped
    BY <1>1 DEF Quiet, history
  <2>4. OneLoop'
    BY <1>0, <2>2, <2>3 DEF OneLoop, Looping
  <2>5. QED BY <2>1, <2>4 DEF Structure
<1>2. CASE Tick
  <2>1. UNCHANGED <<handlers, history>> /\ overlapped' = overlapped
    BY <1>2 DEF Tick, history
  <2>2. ASSUME NEW b \in Conn
        PROVE  /\ conns'[b].at = conns[b].at
               /\ ~Looping(b) => conns'[b].elapsed = conns[b].elapsed
    BY <1>2 DEF Tick, ConnType, Looping
  <2>3. Held' /\ Calm' /\ OneLoop'
    BY <1>0, <2>1, <2>2 DEF Held, Calm, OneLoop, Looping
  <2>4. QED BY <2>3 DEF Structure
<1>3. CASE Restart
  <2>1. /\ \A c \in Conn : conns'[c].at = "none" /\ conns'[c].elapsed = 0
        /\ \A h \in Handler : handlers'[h].at = "idle" /\ handlers'[h].conn = None
    BY <1>3 DEF Restart, NoConn, IdleHandler
  <2>2. QED BY <2>1 DEF Structure, Held, Calm, OneLoop, Looping
<1>4. ASSUME NEW h \in Handler, NEW c \in Conn, Connect(h, c) PROVE Structure'
  <2>1. Held' /\ Calm' /\ OneLoop'
    BY <1>0, <1>4, ConnectSteps, FirehoseAssumption DEF Held, Calm, OneLoop, Looping
  <2>2. QED BY <2>1 DEF Structure
<1>5. ASSUME NEW h \in Handler, MarkRunning(h) PROVE Structure'
  <2>1. PICK c \in Conn :
          /\ c = handlers[h].conn /\ conns[c].at = "unspawned"
          /\ \A b \in Conn \ {c} : conns'[b] = conns[b]
          /\ conns'[c].at = "read"
          /\ \A g \in Handler \ {h} : handlers'[g] = handlers[g]
          /\ handlers'[h].at = "finish" /\ handlers'[h].conn = None
          /\ overlapped' = (overlapped \/ \E b \in Conn \ {c} : Looping(b))
    BY <1>0, <1>5, MarkSteps, Zenon
  <2>2. Held' /\ Calm'
    BY <1>0, <2>1, FirehoseAssumption DEF Held, Calm, Looping
  <2>3. OneLoop'
    <3>1. ~overlapped' => \A b \in Conn \ {c} : ~Looping(b)
      BY <2>1, Zenon
    <3>2. ~overlapped' => \A b \in Conn \ {c} : ~Looping(b)'
      BY <2>1, <3>1 DEF Looping
    <3>3. QED BY <3>2 DEF OneLoop
  <2>4. QED BY <2>2, <2>3 DEF Structure
<1>6. ASSUME NEW c \in Conn, LoopStep(c) PROVE Structure'
  <2>1. PICK l : LoopsOn(c, l)
    BY <1>6, LoopSteps DEF LoopStep
  <2>2. UNCHANGED <<handlers, overlapped>>
    BY <1>6, LoopSteps DEF LoopStep
  <2>3. /\ \A b \in Conn \ {c} : conns'[b] = conns[b]
        /\ Looping(c) /\ conns'[c].at # "unspawned"
        /\ conns'[c].at = "none" => conns'[c].elapsed = 0
    BY <2>1 DEF LoopsOn, Loop, NoConn
  <2>4. Held' /\ Calm' /\ OneLoop'
    BY <1>0, <2>2, <2>3 DEF Held, Calm, OneLoop, Looping
  <2>5. QED BY <2>4 DEF Structure
<1>7. QED BY <1>0, <1>1, <1>2, <1>3, <1>4, <1>5, <1>6, StepKinds

-----------------------------------------------------------------------------
(* The budget.                                                             *)

\* Seconds are set aside for the checkpoint only on the way to it.
Aside == \A c \in Conn : conns[c].delta # 0 => conns[c].at \in {"flush", "write"}

\* What the checkpoint has and what the loop has yet to add to it, or what a
\* flush has read of the checkpoint and is about to add, are seconds that were.
Seconds ==
  ~overlapped =>
    /\ checkpoint.active <= used
    /\ \A c \in Conn :
         /\ Looping(c) => checkpoint.active + conns[c].elapsed + conns[c].delta <= used
         /\ conns[c].at \in {"beatwrite", "write"} =>
              conns[c].loaded + conns[c].elapsed + conns[c].delta <= used

\* What a loop's step does with its seconds: it keeps or loses them, or moves
\* those set aside to the checkpoint.
LEMMA LoopSeconds ==
  ASSUME TypeOK, Aside, NEW c \in Conn, LoopStep(c)
  PROVE  /\ UNCHANGED used
         /\ \A b \in Conn \ {c} : conns'[b] = conns[b]
         /\ conns'[c].delta # 0 => conns'[c].at \in {"flush", "write"}
         /\ \/ /\ conns'[c].elapsed + conns'[c].delta <= conns[c].elapsed + conns[c].delta
               /\ checkpoint'.active = checkpoint.active
               /\ conns'[c].at \in {"beatwrite", "write"} => conns'[c].loaded = checkpoint.active
            \/ /\ conns[c].at \in {"beatwrite", "write"}
               /\ conns'[c].at \notin {"beatwrite", "write"}
               /\ conns'[c].elapsed + conns'[c].delta <= conns[c].elapsed
               /\ checkpoint'.active = conns[c].loaded + conns[c].delta
<1> DEFINE k == conns[c]
           l == conns'[c]
           Apart == \A b \in Conn \ {c} : conns'[b] = conns[b]
<1>0. k \in ConnType /\ (k.delta # 0 => k.at \in {"flush", "write"})
  BY Typed DEF Aside
<1>a. ASSUME NEW m, Loop(c, m) PROVE l = m /\ Apart
  BY <1>a, Typed DEF Loop
<1>1. ASSUME k.at \in {"read", "handle", "store"}, UNCHANGED <<used, checkpoint>>,
             NEW m \in ConnType, NEW n \in ConnType, Loop(c, m),
             n.elapsed = k.elapsed, n.delta = k.delta,
             m = [n EXCEPT !.at = "handle"] \/ m = [n EXCEPT !.at = "store"]
               \/ /\ m.at = Processed(n).at /\ m.elapsed = Processed(n).elapsed
                  /\ m.delta = Processed(n).delta
      PROVE  /\ l.delta # 0 => l.at = "flush"
             /\ l.elapsed + l.delta = k.elapsed + k.delta
             /\ l.at \notin {"beatwrite", "write"}
             /\ Apart
  <2>1. n.delta = 0
    BY <1>0, <1>1
  <2>2. Processed(n).at \in {"beat", "flush", "read"} /\ SameSeconds(Processed(n), n)
    BY <2>1, Counts
  <2>3. QED BY <1>1, <1>a, <2>1, <2>2 DEF SameSeconds, ConnType
<1> DEFINE Keeps ==
      /\ UNCHANGED used /\ Apart /\ (l.delta # 0 => l.at \in {"flush", "write"})
      /\ l.elapsed + l.delta <= k.elapsed + k.delta
      /\ checkpoint'.active = checkpoint.active
      /\ l.at \in {"beatwrite", "write"} => l.loaded = checkpoint.active
<1>b. ASSUME UNCHANGED <<used, checkpoint>>, Apart, l.delta # 0 => l.at = "flush",
             l.elapsed + l.delta = k.elapsed + k.delta, l.at \notin {"beatwrite", "write"}
      PROVE  Keeps
  <2>1. l.elapsed + l.delta <= k.elapsed + k.delta
    BY <1>b, <1>0 DEF ConnType
  <2>2. QED BY <1>b, <2>1
<1>2. CASE Receive(c)
  <2> DEFINE seen(i) == [k EXCEPT !.next = i + 1, !.cursor = i]
  <2>1. PICK i \in Nat :
          \/ conns' = [conns EXCEPT ![c] = [seen(i) EXCEPT !.at = "handle"]]
          \/ conns' = [conns EXCEPT ![c] = Processed(seen(i))]
    BY <1>2, ReceiveGives, Zenon
  <2>2. seen(i) \in ConnType /\ seen(i).elapsed = k.elapsed /\ seen(i).delta = k.delta
    <3>1. i + 1 \in Nat
      OBVIOUS
    <3>2. QED BY <1>0, <3>1 DEF ConnType
  <2>3. [seen(i) EXCEPT !.at = "handle"] \in ConnType /\ Processed(seen(i)) \in ConnType
    BY <2>2, LoopTypes DEF ConnType, LoopAt
  <2>4. k.at = "read" /\ UNCHANGED <<used, checkpoint>>
    BY <1>2 DEF Receive, clock
  <2> HIDE DEF seen
  <2>5. Keeps
    BY <1>1, <1>b, <2>1, <2>2, <2>3, <2>4 DEF Loop
  <2>6. QED BY <2>5
<1>3. CASE FetchRecord(c)
  <2> DEFINE m == [k EXCEPT !.at = "store", !.fetched = Current(log[k.cursor])]
  <2>1. Current(log[k.cursor]) \in Nat
    BY CurrentIsLast, Typed
  <2>2. m.at = "store" /\ m.elapsed = k.elapsed /\ m.delta = k.delta
    BY <1>0 DEF ConnType
  <2> HIDE DEF m
  <2>3. Loop(c, m) /\ k.at = "handle" /\ UNCHANGED <<used, checkpoint>>
    BY <1>3, Zenon DEF FetchRecord, m, clock
  <2>4. QED BY <1>0, <1>a, <1>b, <2>2, <2>3
<1>4. CASE ApplyIndexWrite(c) \/ FailEvent(c)
  <2> DEFINE m == [Processed(k) EXCEPT !.fetched = 0]
  <2>1. /\ m \in ConnType /\ m.at = Processed(k).at /\ m.elapsed = Processed(k).elapsed
        /\ m.delta = Processed(k).delta
    BY <1>0, LoopTypes DEF ConnType
  <2> HIDE DEF m
  <2>2. Loop(c, m) /\ k.at \in {"handle", "store"} /\ UNCHANGED <<used, checkpoint>>
    BY <1>4 DEF ApplyIndexWrite, FailEvent, m, clock
  <2>3. Keeps
    BY <1>0, <1>1, <1>b, <2>1, <2>2
  <2>4. QED BY <2>3
<1>5. CASE ReceiveBadFrame(c)
  <2>1. Processed(k) \in ConnType /\ Loop(c, Processed(k)) /\ k.at = "read"
        /\ UNCHANGED <<used, checkpoint>>
    BY <1>0, <1>5, LoopTypes DEF ReceiveBadFrame, clock
  <2>2. Keeps
    BY <1>0, <1>1, <1>b, <2>1
  <2>3. QED BY <2>2
<1>6. CASE FlushLoad(c)
  <2> DEFINE m == [k EXCEPT !.at = IF @ = "beat" THEN "beatwrite" ELSE "write",
                            !.loaded = checkpoint.active]
  <2>1. /\ m.at = IF k.at = "beat" THEN "beatwrite" ELSE "write"
        /\ m.loaded = checkpoint.active /\ m.elapsed = k.elapsed /\ m.delta = k.delta
    BY <1>0 DEF ConnType
  <2> HIDE DEF m
  <2>2. Loop(c, m) /\ k.at \in {"beat", "flush"} /\ UNCHANGED <<used, checkpoint>>
    BY <1>6, Zenon DEF FlushLoad, m, clock
  <2>3. Keeps
    BY <1>0, <1>a, <2>1, <2>2 DEF ConnType
  <2>4. QED BY <2>3
<1>7. CASE FlushWrite(c)
  <2>1. /\ k.at \in {"beatwrite", "write"} /\ Loop(c, AfterFlush(k)) /\ UNCHANGED used
        /\ checkpoint'.active = k.loaded + k.delta
    BY <1>7 DEF FlushWrite, clock, TypeOK
  <2>2. l = AfterFlush(k) /\ Apart
    BY <1>a, <2>1
  <2>3. k.at = "beatwrite" => k.delta = 0
    BY <1>0
  <2>4. /\ l.at \in {"flush", "read", "refresh"}
        /\ l.delta # 0 => l.at = "flush"
        /\ l.elapsed + l.delta <= k.elapsed
    <3>1. CASE k.at = "beatwrite"
      <4>1. SameSeconds(l, k)
        BY <1>0, <2>2, <2>3, <3>1, Counts
      <4>2. QED BY <1>0, <2>2, <2>3, <3>1, <4>1, Counts DEF SameSeconds, ConnType
    <3>2. CASE k.at = "write"
      BY <1>0, <2>2, <3>2, Counts DEF ConnType
    <3>3. QED BY <2>1, <3>1, <3>2
  <2>5. QED BY <2>1, <2>2, <2>4
<1>8. CASE FailFlush(c)
  <2>1. k.at \in {"beat", "beatwrite", "flush", "write", "refresh"} /\ UNCHANGED <<used, checkpoint>>
    BY <1>8 DEF FailFlush, clock
  <2>2. CASE k.at = "refresh"
    <3>1. l = [k EXCEPT !.at = "read"] /\ Apart
      BY <1>8, <1>a, <2>2 DEF FailFlush
    <3>2. QED BY <1>0, <1>b, <2>1, <2>2, <3>1 DEF ConnType
  <2>3. CASE k.at # "refresh"
    <3>1. l = AfterFlush(k) /\ Apart
      BY <1>8, <1>a, <2>3 DEF FailFlush
    <3>2. CASE k.at \in {"beat", "beatwrite"}
      <4>1. k.delta = 0 /\ SameSeconds(l, k) /\ l.at \in {"flush", "read", "refresh"}
        BY <1>0, <3>1, <3>2, Counts
      <4>2. QED BY <1>b, <2>1, <3>1, <4>1 DEF SameSeconds
    <3>3. CASE k.at \in {"flush", "write"}
      <4>1. l.delta = 0 /\ l.elapsed = k.elapsed /\ l.at \in {"flush", "read", "refresh"}
        BY <1>0, <3>1, <3>3, Counts
      <4>2. Keeps
        BY <1>0, <2>1, <3>1, <4>1 DEF ConnType
      <4>3. QED BY <4>2
    <3>4. QED BY <2>1, <2>3, <3>2, <3>3
  <2>4. QED BY <2>2, <2>3
<1>9. CASE RefreshDids(c)
  <2>1. l = [k EXCEPT !.at = "read", !.dids = followed] /\ Apart /\ k.at = "refresh"
        /\ UNCHANGED <<used, checkpoint>>
    BY <1>9, <1>a, Zenon DEF RefreshDids, clock
  <2>2. QED BY <1>0, <1>b, <2>1 DEF ConnType
<1>10. CASE EndLoop(c)
  <2>1. l = NoConn /\ Apart /\ UNCHANGED <<used, checkpoint>>
    BY <1>10, <1>a, Zenon DEF EndLoop, clock
  <2>2. Keeps
    BY <1>0, <2>1 DEF NoConn, ConnType
  <2>3. QED BY <2>2
<1>11. QED
  BY <1>2, <1>3, <1>4, <1>5, <1>6, <1>7, <1>8, <1>9, <1>10, Zenon DEF LoopStep, ReadLoop

\* No step makes a second out of nothing.
LEMMA SecondsStep ==
  ASSUME TypeOK, TypeOK', Structure, Aside, Seconds, [Next]_vars
  PROVE  Aside' /\ Seconds'
<1> USE Typed
<1>0. /\ Held /\ Calm /\ OneLoop
      /\ checkpoint.active \in Nat /\ used \in Nat
      /\ \A c \in Conn : /\ conns[c].elapsed \in Nat /\ conns[c].delta \in Nat
                         /\ conns[c].loaded \in Nat
  BY DEF Structure, TypeOK
<1>1. CASE Quiet
  <2>1. Aside' BY <1>1 DEF Aside, Quiet, SameLoop
  <2>2. overlapped' = overlapped BY <1>1 DEF Quiet, history
  <2>3. Seconds'
    <3>1. /\ used' = used /\ checkpoint'.active \in {0, checkpoint.active}
          /\ \A b \in Conn :
               /\ conns'[b].at = conns[b].at /\ conns'[b].elapsed = conns[b].elapsed
               /\ conns'[b].delta = conns[b].delta /\ conns'[b].loaded = conns[b].loaded
      BY <1>1, Zenon DEF Quiet, SameLoop
    <3>2. ASSUME ~overlapped, NEW b \in Conn, Looping(b)
          PROVE  checkpoint'.active + conns[b].elapsed + conns[b].delta <= used
      <4>1. checkpoint.active + conns[b].elapsed + conns[b].delta <= used
        BY <3>2, Zenon DEF Seconds
      <4>2. /\ conns[b].elapsed \in Nat /\ conns[b].delta \in Nat
            /\ checkpoint.active \in Nat /\ used \in Nat
            /\ checkpoint'.active \in {0, checkpoint.active}
        BY <1>0, <3>1
      <4>3. QED BY ONLY <4>1, <4>2
    <3>3. ~overlapped => checkpoint'.active <= used
      BY <1>0, <3>1 DEF Seconds
    <3>4. \A b \in Conn : Looping(b)' <=> Looping(b)
      BY <3>1, Zenon DEF Looping
    <3>5. QED BY <2>2, <3>1, <3>2, <3>3, <3>4, Zenon DEF Seconds
  <2>4. QED BY <2>1, <2>3
<1>2. CASE Tick
  <2>1. ASSUME NEW b \in Conn
        PROVE  /\ conns'[b].at = conns[b].at /\ conns'[b].delta = conns[b].delta
               /\ conns'[b].loaded = conns[b].loaded
               /\ Looping(b) => conns'[b].elapsed = conns[b].elapsed + 1
    BY <1>2 DEF Tick, ConnType, Looping
  <2>2. UNCHANGED <<checkpoint, overlapped>> /\ used' = used + 1
    BY <1>2 DEF Tick, history
  <2>3. Aside' BY <2>1 DEF Aside
  <2>4. ASSUME ~overlapped, NEW b \in Conn
        PROVE  /\ conns'[b].at \notin {"none", "unspawned"} =>
                    checkpoint.active + conns'[b].elapsed + conns'[b].delta <= used + 1
               /\ conns'[b].at \in {"beatwrite", "write"} =>
                    conns'[b].loaded + conns'[b].elapsed + conns'[b].delta <= used + 1
    <3>1. CASE Looping(b)
      <4>1. /\ conns'[b].elapsed = conns[b].elapsed + 1 /\ conns'[b].delta = conns[b].delta
            /\ conns'[b].loaded = conns[b].loaded /\ conns'[b].at = conns[b].at
        BY <2>1, <3>1
      <4>2. /\ checkpoint.active + conns[b].elapsed + conns[b].delta <= used
            /\ conns[b].at \in {"beatwrite", "write"} =>
                 conns[b].loaded + conns[b].elapsed + conns[b].delta <= used
        BY <2>4, <3>1 DEF Seconds
      <4>3. /\ conns[b].elapsed \in Nat /\ conns[b].delta \in Nat /\ conns[b].loaded \in Nat
            /\ used \in Nat /\ checkpoint.active \in Nat
        BY <1>0
      <4>4. QED BY ONLY <4>1, <4>2, <4>3
    <3>2. CASE ~Looping(b)
      BY <2>1, <3>2 DEF Looping
    <3>3. QED BY <3>1, <3>2
  <2>5. ~overlapped => checkpoint.active <= used + 1
    BY <1>0 DEF Seconds
  <2>6. Seconds'
    BY <2>2, <2>4, <2>5 DEF Seconds, Looping
  <2>7. QED BY <2>3, <2>6
<1>3. CASE Restart
  <2>1. \A c \in Conn : conns'[c].at = "none" /\ conns'[c].delta = 0
    BY <1>3 DEF Restart, NoConn
  <2>2. UNCHANGED <<checkpoint, overlapped, used>>
    BY <1>3 DEF Restart, history, clock
  <2>3. QED BY <1>0, <2>1, <2>2 DEF Aside, Seconds, Looping
<1>4. ASSUME NEW h \in Handler, NEW c \in Conn, Connect(h, c) PROVE Aside' /\ Seconds'
  <2>1. UNCHANGED used
    BY <1>0, <1>4, ConnectSteps DEF clock
  <2>2. /\ \A b \in Conn \ {c} : conns'[b] = conns[b]
        /\ conns'[c].at = "unspawned" /\ conns'[c].delta = 0
        /\ UNCHANGED <<checkpoint, overlapped>>
    BY <1>0, <1>4, ConnectSteps
  <2>3. Aside'
    BY <2>2 DEF Aside
  <2>4. Seconds'
    BY <2>1, <2>2 DEF Seconds, Looping
  <2>5. QED BY <2>3, <2>4
<1>5. ASSUME NEW h \in Handler, MarkRunning(h) PROVE Aside' /\ Seconds'
  <2>1. PICK c \in Conn :
          /\ conns[c].at = "unspawned"
          /\ \A b \in Conn \ {c} : conns'[b] = conns[b]
          /\ conns'[c].at = "read"
          /\ conns'[c].elapsed = conns[c].elapsed /\ conns'[c].delta = conns[c].delta
          /\ checkpoint'.active = checkpoint.active
          /\ UNCHANGED clock
    BY <1>0, <1>5, MarkSteps, Zenon
  <2>2. overlapped => overlapped'
    BY <1>5 DEF MarkRunning
  <2>3. UNCHANGED used /\ conns[c].elapsed = 0 /\ conns[c].delta = 0
    BY <1>0, <2>1 DEF clock, Calm, Aside, Looping
  <2>4. Aside'
    BY <2>1, <2>3 DEF Aside
  <2>5. Seconds'
    <3>1. ~overlapped' => ~overlapped
      BY <2>2
    <3>2. \A b \in Conn \ {c} : Looping(b)' <=> Looping(b)
      BY <2>1, Zenon DEF Looping
    <3>3. ~overlapped => checkpoint.active <= used
      BY Zenon DEF Seconds
    <3>4. ~overlapped => checkpoint'.active + conns'[c].elapsed + conns'[c].delta <= used'
      BY <1>0, <2>1, <2>3, <3>3
    <3>5. QED BY <2>1, <2>3, <3>1, <3>2, <3>3, <3>4 DEF Seconds
  <2>6. QED BY <2>4, <2>5
<1>6. ASSUME NEW c \in Conn, LoopStep(c) PROVE Aside' /\ Seconds'
  <2>1. /\ UNCHANGED used
        /\ \A b \in Conn \ {c} : conns'[b] = conns[b]
        /\ conns'[c].delta # 0 => conns'[c].at \in {"flush", "write"}
        /\ \/ /\ conns'[c].elapsed + conns'[c].delta <= conns[c].elapsed + conns[c].delta
              /\ checkpoint'.active = checkpoint.active
              /\ conns'[c].at \in {"beatwrite", "write"} => conns'[c].loaded = checkpoint.active
           \/ /\ conns[c].at \in {"beatwrite", "write"}
              /\ conns'[c].at \notin {"beatwrite", "write"}
              /\ conns'[c].elapsed + conns'[c].delta <= conns[c].elapsed
              /\ checkpoint'.active = conns[c].loaded + conns[c].delta
    BY <1>6, LoopSeconds
  <2>2. UNCHANGED overlapped /\ Looping(c)
    BY <1>6, LoopSteps DEF LoopStep, LoopsOn
  <2>3. Aside'
    BY <2>1 DEF Aside
  <2>4. ASSUME ~overlapped, NEW b \in Conn \ {c} PROVE ~Looping(b)
    BY <1>0, <2>2, <2>4 DEF OneLoop
  <2>5. conns'[c].elapsed \in Nat /\ conns'[c].delta \in Nat /\ checkpoint'.active \in Nat
    <3>1. conns' \in [Conn -> ConnType]
      BY TypeParts DEF AllTyped, ConnsTyped
    <3>2. checkpoint'.active \in Nat
      BY DEF TypeOK
    <3>3. QED BY <3>1, <3>2 DEF ConnType
  <2>6. ASSUME ~overlapped
        PROVE  /\ checkpoint'.active <= used
               /\ checkpoint'.active + conns'[c].elapsed + conns'[c].delta <= used
               /\ conns'[c].at \in {"beatwrite", "write"} =>
                    conns'[c].loaded + conns'[c].elapsed + conns'[c].delta <= used
    <3>1. CASE conns[c].at \notin {"beatwrite", "write"} \/ checkpoint'.active = checkpoint.active
      <4>1. /\ conns'[c].elapsed + conns'[c].delta <= conns[c].elapsed + conns[c].delta
            /\ checkpoint'.active = checkpoint.active
            /\ conns'[c].at \in {"beatwrite", "write"} => conns'[c].loaded = checkpoint.active
        BY <2>1, <3>1, <1>0, <2>5
      <4>2. checkpoint.active + conns[c].elapsed + conns[c].delta <= used
        BY <2>2, <2>6 DEF Seconds
      <4>3. /\ conns[c].elapsed \in Nat /\ conns[c].delta \in Nat /\ used \in Nat
            /\ checkpoint.active \in Nat
        BY <1>0
      <4>4. QED BY ONLY <2>5, <4>1, <4>2, <4>3
    <3>2. CASE /\ conns[c].at \in {"beatwrite", "write"}
               /\ conns'[c].at \notin {"beatwrite", "write"}
               /\ conns'[c].elapsed + conns'[c].delta <= conns[c].elapsed
               /\ checkpoint'.active = conns[c].loaded + conns[c].delta
      <4>1. conns[c].loaded + conns[c].elapsed + conns[c].delta <= used
        BY <2>6, <3>2 DEF Seconds
      <4>2. /\ conns[c].elapsed \in Nat /\ conns[c].delta \in Nat /\ used \in Nat
            /\ conns[c].loaded \in Nat
        BY <1>0
      <4>3. conns[c].loaded + conns[c].delta <= used
        BY <4>1, <4>2
      <4>4. conns[c].loaded + conns[c].delta + conns'[c].elapsed + conns'[c].delta <= used
        <5>1. conns'[c].elapsed + conns'[c].delta <= conns[c].elapsed
          BY <3>2
        <5>2. QED BY ONLY <2>5, <4>1, <4>2, <5>1
      <4>5. QED BY <3>2, <4>3, <4>4
    <3>3. QED BY <2>1, <3>1, <3>2
  <2>7. Seconds'
    BY <2>1, <2>2, <2>4, <2>6 DEF Seconds, Looping
  <2>8. QED BY <2>3, <2>7
<1>7. QED BY <1>0, <1>1, <1>2, <1>3, <1>4, <1>5, <1>6, StepKinds

-----------------------------------------------------------------------------
(* Places in the stream.                                                   *)

\* A step in which no connection moves in the stream: its loop goes on, is
\* spawned or is gone, and what the handlers remember of the cursor is the
\* checkpoint's.
Stays ==
  /\ \A b \in Conn :
       \/ conns'[b].at = "none"
       \/ /\ \/ conns'[b].at = conns[b].at
             \/ conns'[b].at = "read" /\ conns[b].at = "unspawned"
          /\ conns'[b].wanted = conns[b].wanted /\ conns'[b].dids = conns[b].dids
          /\ conns'[b].next = conns[b].next /\ conns'[b].cursor = conns[b].cursor
          /\ conns'[b].fetched = conns[b].fetched
  /\ \A h \in Handler :
       \/ handlers'[h] = handlers[h]
       \/ /\ handlers'[h].seq \in {0, handlers[h].seq, checkpoint.last_seq}
          /\ handlers'[h].at = "connect" => handlers'[h].dids = followed
  /\ UNCHANGED <<index, origin, got, failed>>
  /\ checkpoint'.last_seq = checkpoint.last_seq
  /\ overlapped => overlapped'

\* The steps that move no loop, the clocks, a spawn and a restart are such.
LEMMA StayingSteps ==
  ASSUME TypeOK, Held
  PROVE  /\ Quiet \/ Tick \/ Restart => Stays
         /\ \A h \in Handler : MarkRunning(h) => Stays
<1> USE Typed
<1>1. Quiet => Stays
  BY DEF Quiet, Stays, SameLoop, history
<1>2. Tick => Stays
  BY DEF Tick, Stays, ConnType, history
<1>3. Restart => Stays
  BY DEF Restart, Stays, NoConn, IdleHandler, history
<1>4. ASSUME NEW h \in Handler, MarkRunning(h) PROVE Stays
  <2>1. PICK c \in Conn :
          /\ conns[c].at = "unspawned"
          /\ \A b \in Conn \ {c} : conns'[b] = conns[b]
          /\ conns'[c].at = "read" /\ SamePlace(conns'[c], conns[c])
          /\ conns' = [conns EXCEPT ![c].at = "read"]
          /\ \A g \in Handler \ {h} : handlers'[g] = handlers[g]
          /\ handlers'[h].at = "finish" /\ handlers'[h].seq = 0
          /\ checkpoint'.last_seq = checkpoint.last_seq
          /\ UNCHANGED <<index, origin, got, failed>>
    BY <1>4, MarkSteps, Zenon
  <2>2. conns'[c].fetched = conns[c].fetched
    BY <2>1 DEF ConnType
  <2>3. overlapped => overlapped'
    BY <1>4 DEF MarkRunning
  <2>4. ASSUME NEW b \in Conn
        PROVE  /\ \/ conns'[b].at = conns[b].at
                  \/ conns'[b].at = "read" /\ conns[b].at = "unspawned"
               /\ conns'[b].wanted = conns[b].wanted /\ conns'[b].dids = conns[b].dids
               /\ conns'[b].next = conns[b].next /\ conns'[b].cursor = conns[b].cursor
               /\ conns'[b].fetched = conns[b].fetched
    <3>1. CASE b = c
      BY <2>1, <2>2, <3>1, Zenon DEF SamePlace
    <3>2. CASE b # c
      BY <2>1, <3>2
    <3>3. QED BY <3>1, <3>2
  <2>5. \A g \in Handler :
          \/ handlers'[g] = handlers[g]
          \/ handlers'[g].seq = 0 /\ handlers'[g].at # "connect"
    BY <2>1
  <2>6. QED BY <2>1, <2>3, <2>4, <2>5 DEF Stays
<1>5. QED BY <1>1, <1>2, <1>3, <1>4

\* The steps of a loop, as moves in the stream.  Only c's record changes.
Only(c) ==
  /\ \A b \in Conn \ {c} : conns'[b] = conns[b]
  /\ Looping(c) /\ conns'[c].at # "unspawned"
  /\ UNCHANGED <<handlers, overlapped, origin>>

\* c is done with the message it had, and has moved no further.
Rests(c) ==
  /\ Only(c) /\ conns'[c].at \notin {"none", "handle", "store"}
  /\ conns'[c].wanted = conns[c].wanted
  /\ conns'[c].next = conns[c].next /\ conns'[c].cursor = conns[c].cursor

\* It has not changed its filter either.
KeepsFilter(c) == Rests(c) /\ conns'[c].dids = conns[c].dids

\* It was given event i, to handle or to pass over.
Given(c, i) ==
  /\ Only(c) /\ conns[c].at = "read"
  /\ i \in Nat /\ i \in conns[c].next..LogLength /\ log[i] \in conns[c].wanted
  /\ \A j \in conns[c].next..LogLength : log[j] \in conns[c].wanted => i <= j
  /\ conns'[c].next = i + 1 /\ conns'[c].cursor = i
  /\ conns'[c].wanted = conns[c].wanted /\ conns'[c].dids = conns[c].dids
  /\ \/ conns'[c].at = "handle" /\ got' = got \cup {i}
     \/ /\ conns'[c].at \notin {"none", "handle", "store"}
        /\ log[i] \notin conns[c].dids /\ UNCHANGED got
  /\ UNCHANGED <<index, checkpoint, failed>>

\* It has the record as it is now.
HasFetched(c) ==
  /\ Only(c) /\ conns[c].at = "handle" /\ conns'[c].at = "store"
  /\ conns'[c].fetched = Current(log[conns[c].cursor])
  /\ SamePlace(conns'[c], conns[c])
  /\ UNCHANGED <<index, checkpoint, got, failed>>

\* It has stored the record, or failed to handle the event.
HasStored(c) ==
  /\ KeepsFilter(c) /\ conns[c].at = "store"
  /\ index' = [index EXCEPT ![log[conns[c].cursor]] = Written(conns[c], log[conns[c].cursor])]
  /\ UNCHANGED <<checkpoint, got, failed>>
HasFailed(c) ==
  /\ KeepsFilter(c) /\ conns[c].at \in {"handle", "store"}
  /\ failed' = failed \cup {conns[c].cursor}
  /\ UNCHANGED <<index, checkpoint, got>>

\* It is between messages, and may write its cursor or read the accounts again.
Tends(c) ==
  /\ Rests(c) /\ conns[c].at \notin {"handle", "store"}
  /\ conns'[c].dids \in {conns[c].dids, followed}
  /\ checkpoint'.last_seq \in {checkpoint.last_seq, conns[c].cursor}
  /\ UNCHANGED <<index, got, failed>>

\* It is over.
HasEnded(c) ==
  /\ Only(c) /\ conns[c].at = "read" /\ conns'[c].at = "none"
  /\ UNCHANGED <<index, checkpoint, got, failed>>

\* Every step of a loop is one of these.
LEMMA LoopMoves ==
  ASSUME TypeOK, NEW c \in Conn, LoopStep(c)
  PROVE  \/ \E i : Given(c, i)
         \/ HasFetched(c) \/ HasStored(c) \/ HasFailed(c) \/ Tends(c) \/ HasEnded(c)
<1> DEFINE k == conns[c]
<1>0. k \in ConnType
  BY Typed
<1>1. /\ \A b \in Conn \ {c} : conns'[b] = conns[b]
      /\ Looping(c) /\ conns'[c].at # "unspawned"
      /\ UNCHANGED <<handlers, overlapped, origin>>
  BY LoopSteps, Typed DEF LoopStep, LoopsOn, Loop
<1>2. Only(c)
  BY <1>1 DEF Only
<1>a. ASSUME NEW m, Loop(c, m) PROVE conns'[c] = m
  BY <1>a, Typed DEF Loop
<1>3. CASE Receive(c)
  <2> DEFINE seen(i) == [k EXCEPT !.next = i + 1, !.cursor = i]
  <2>1. PICK i \in k.next..LogLength :
          /\ i \in Nat /\ log[i] \in k.wanted
          /\ \A j \in k.next..LogLength : log[j] \in k.wanted => i <= j
          /\ \/ /\ log[i] \in k.dids
                /\ conns' = [conns EXCEPT ![c] = [seen(i) EXCEPT !.at = "handle"]]
                /\ got' = got \cup {i}
             \/ /\ log[i] \notin k.dids
                /\ conns' = [conns EXCEPT ![c] = Processed(seen(i))]
                /\ UNCHANGED got
    BY <1>3, ReceiveGives, Zenon
  <2>2. /\ seen(i) \in ConnType /\ seen(i).next = i + 1 /\ seen(i).cursor = i
        /\ seen(i).wanted = k.wanted /\ seen(i).dids = k.dids
    <3>1. i + 1 \in Nat
      BY <2>1
    <3>2. QED BY <1>0, <2>1, <3>1 DEF ConnType
  <2>3. /\ [seen(i) EXCEPT !.at = "handle"].at = "handle"
        /\ SamePlace([seen(i) EXCEPT !.at = "handle"], seen(i))
    BY <2>2 DEF ConnType, SamePlace
  <2> HIDE DEF seen
  <2>4. /\ Processed(seen(i)).at \in {"beat", "flush", "read"}
        /\ SamePlace(Processed(seen(i)), seen(i))
    BY <2>2, Counts
  <2>5. k.at = "read" /\ UNCHANGED <<index, checkpoint, failed>>
    BY <1>3 DEF Receive
  <2>6. /\ conns'[c].next = i + 1 /\ conns'[c].cursor = i
        /\ conns'[c].wanted = k.wanted /\ conns'[c].dids = k.dids
        /\ \/ conns'[c].at = "handle" /\ got' = got \cup {i}
           \/ /\ conns'[c].at \notin {"none", "handle", "store"}
              /\ log[i] \notin k.dids /\ UNCHANGED got
    BY <1>a, <2>1, <2>2, <2>3, <2>4 DEF SamePlace, Loop
  <2>7. QED BY <1>2, <2>1, <2>5, <2>6 DEF Given
<1>4. CASE FetchRecord(c)
  <2> DEFINE m == [k EXCEPT !.at = "store", !.fetched = Current(log[k.cursor])]
  <2>1. m.at = "store" /\ m.fetched = Current(log[k.cursor]) /\ SamePlace(m, k)
    BY <1>0 DEF ConnType, SamePlace
  <2> HIDE DEF m
  <2>2. /\ Loop(c, m) /\ k.at = "handle" /\ UNCHANGED <<index, checkpoint, history>>
    BY <1>4, Zenon DEF FetchRecord, m
  <2>3. conns'[c] = m
    BY <1>a, <2>2
  <2>4. QED BY <1>2, <2>1, <2>2, <2>3 DEF HasFetched, history
<1>5. CASE ApplyIndexWrite(c) \/ FailEvent(c)
  <2> DEFINE m == [Processed(k) EXCEPT !.fetched = 0]
  <2>1. m.at \in {"beat", "flush", "read"} /\ SamePlace(m, k)
    BY <1>0, LoopTypes, Counts DEF ConnType, SamePlace
  <2> HIDE DEF m
  <2>2. Loop(c, m)
    BY <1>5 DEF ApplyIndexWrite, FailEvent, m
  <2>3. KeepsFilter(c)
    BY <1>2, <1>a, <2>1, <2>2 DEF KeepsFilter, Rests, SamePlace
  <2>4. CASE ApplyIndexWrite(c)
    BY <2>3, <2>4 DEF ApplyIndexWrite, HasStored, history
  <2>5. CASE FailEvent(c)
    BY <2>3, <2>5 DEF FailEvent, HasFailed
  <2>6. QED BY <1>5, <2>4, <2>5
<1> DEFINE Tended ==
      /\ conns'[c].at \notin {"none", "handle", "store"}
      /\ conns'[c].wanted = k.wanted /\ conns'[c].dids \in {k.dids, followed}
      /\ conns'[c].next = k.next /\ conns'[c].cursor = k.cursor
      /\ k.at \notin {"handle", "store"}
<1>b. ASSUME Tended, checkpoint'.last_seq \in {checkpoint.last_seq, k.cursor},
             UNCHANGED <<index, got, failed>>
      PROVE  Tends(c)
  BY <1>2, <1>b DEF Tends, Rests
<1>6. CASE ReceiveBadFrame(c)
  <2>1. Tended
    BY <1>0, <1>6, <1>a, Counts DEF ReceiveBadFrame, SamePlace
  <2>2. QED BY <1>6, <1>b, <2>1 DEF ReceiveBadFrame, history
<1>7. CASE FlushLoad(c)
  <2> DEFINE m == [k EXCEPT !.at = IF @ = "beat" THEN "beatwrite" ELSE "write",
                            !.loaded = checkpoint.active]
  <2>1. m.at \in {"beatwrite", "write"} /\ SamePlace(m, k)
    BY <1>0 DEF ConnType, SamePlace
  <2> HIDE DEF m
  <2>2. Loop(c, m) /\ k.at \in {"beat", "flush"} /\ UNCHANGED <<index, checkpoint, history>>
    BY <1>7, Zenon DEF FlushLoad, m
  <2>3. Tended
    BY <1>a, <2>1, <2>2 DEF SamePlace
  <2>4. QED BY <1>b, <2>2, <2>3 DEF history
<1>8. CASE FlushWrite(c)
  <2>1. Tended
    BY <1>0, <1>8, <1>a, Counts DEF FlushWrite, SamePlace
  <2>2. checkpoint'.last_seq = k.cursor
    BY <1>8 DEF FlushWrite, TypeOK
  <2>3. QED BY <1>8, <1>b, <2>1, <2>2 DEF FlushWrite, history
<1>9. CASE RefreshDids(c)
  <2>1. conns'[c] = [k EXCEPT !.at = "read", !.dids = followed] /\ k.at = "refresh"
        /\ UNCHANGED <<index, checkpoint, history>>
    BY <1>9, <1>a, Zenon DEF RefreshDids
  <2>2. Tended
    BY <1>0, <2>1 DEF ConnType
  <2>3. QED BY <1>b, <2>1, <2>2 DEF history
<1>10. CASE FailFlush(c)
  <2>1. k.at \in {"beat", "beatwrite", "flush", "write", "refresh"}
        /\ UNCHANGED <<index, checkpoint, history>>
    BY <1>10 DEF FailFlush
  <2>2. CASE k.at = "refresh"
    <3>1. conns'[c] = [k EXCEPT !.at = "read"]
      BY <1>10, <1>a, <2>2 DEF FailFlush
    <3>2. Tended
      BY <1>0, <2>2, <3>1 DEF ConnType
    <3>3. QED BY <1>b, <2>1, <3>2 DEF history
  <2>3. CASE k.at # "refresh"
    <3>1. conns'[c] = AfterFlush(k)
      BY <1>10, <1>a, <2>3 DEF FailFlush
    <3>2. Tended
      BY <1>0, <2>1, <3>1, Counts DEF SamePlace
    <3>3. QED BY <1>b, <2>1, <3>2 DEF history
  <2>4. QED BY <2>2, <2>3
<1>11. CASE EndLoop(c)
  <2>1. conns'[c] = NoConn /\ k.at = "read" /\ UNCHANGED <<index, checkpoint, history>>
    BY <1>11, <1>a, Zenon DEF EndLoop
  <2>2. QED BY <1>2, <2>1 DEF HasEnded, NoConn, history
<1>12. QED
  BY <1>3, <1>4, <1>5, <1>6, <1>7, <1>8, <1>9, <1>10, <1>11, Zenon DEF LoopStep, ReadLoop

\* The steps of the object, as moves in the stream.
LEMMA Moves ==
  ASSUME TypeOK, Held, [Next]_vars
  PROVE  \/ Stays
         \/ \E h \in Handler, c \in Conn : Connect(h, c)
         \/ \E c \in Conn, i \in Nat : Given(c, i)
         \/ \E c \in Conn : \/ HasFetched(c) \/ HasStored(c) \/ HasFailed(c)
                            \/ Tends(c) \/ HasEnded(c)
<1>1. \A c, i : Given(c, i) => i \in Nat
  BY DEF Given
<1>2. QED BY <1>1, StepKinds, StayingSteps, LoopMoves, Zenon

\* Two loops that have run at once stay in the history.
LEMMA OverlapStays == ASSUME TypeOK, Held, [Next]_vars PROVE overlapped => overlapped'
<1>1. ASSUME NEW h \in Handler, NEW c \in Conn, Connect(h, c) PROVE UNCHANGED overlapped
  BY <1>1 DEF Connect
<1>2. Stays => (overlapped => overlapped')
  BY Zenon DEF Stays
<1>3. ASSUME NEW c \in Conn, Only(c) PROVE UNCHANGED overlapped
  BY <1>3 DEF Only
<1>4. QED
  BY <1>1, <1>2, <1>3, Moves
     DEF Given, HasFetched, HasStored, HasFailed, Tends, HasEnded, KeepsFilter, Rests

\* Cursors and what is fetched or indexed are places in the log: a cursor is
\* behind the event that is next, and a record is fetched and indexed as a change
\* of its own.
Bounds ==
  /\ checkpoint.last_seq <= LogLength /\ origin <= LogLength
  /\ \A h \in Handler : handlers[h].seq <= LogLength
  /\ got \subseteq 1..LogLength
  /\ \A c \in Conn : conns[c].at # "none" =>
       conns[c].next \in 1..(LogLength + 1) /\ conns[c].cursor < conns[c].next
  /\ \A c \in Conn : conns[c].at \in {"handle", "store"} => conns[c].cursor \in 1..LogLength
  /\ \A c \in Conn : conns[c].at = "store" =>
       /\ conns[c].fetched \in conns[c].cursor..LogLength
       /\ log[conns[c].fetched] = log[conns[c].cursor]
  /\ \A r \in Record : index[r] # 0 => index[r] \in 1..LogLength /\ log[index[r]] = r

\* The clauses of Bounds, for the steps that leave most of them alone.
CursorsBounded ==
  /\ checkpoint.last_seq <= LogLength /\ origin <= LogLength
  /\ \A h \in Handler : handlers[h].seq <= LogLength
  /\ got \subseteq 1..LogLength
ConnBounded(c) ==
  /\ conns[c].at # "none" =>
       conns[c].next \in 1..(LogLength + 1) /\ conns[c].cursor < conns[c].next
  /\ conns[c].at \in {"handle", "store"} => conns[c].cursor \in 1..LogLength
  /\ conns[c].at = "store" =>
       /\ conns[c].fetched \in conns[c].cursor..LogLength
       /\ log[conns[c].fetched] = log[conns[c].cursor]
IndexBounded ==
  \A r \in Record : index[r] # 0 => index[r] \in 1..LogLength /\ log[index[r]] = r

\* They are Bounds, here and in the next state.
LEMMA BoundsParts ==
  /\ Bounds <=> CursorsBounded /\ IndexBounded /\ \A c \in Conn : ConnBounded(c)
  /\ Bounds' <=> CursorsBounded' /\ IndexBounded' /\ \A c \in Conn : ConnBounded(c)'
BY DEF Bounds, CursorsBounded, ConnBounded, IndexBounded

\* A place in the log stays one, and the numbers here are naturals.
LEMMA Places ==
  ASSUME TypeOK, [Next]_vars
  PROVE  /\ LogLength \in Nat /\ LogLength' \in Nat /\ LogLength <= LogLength'
         /\ \A i \in 1..LogLength : i \in 1..LogLength' /\ log'[i] = log[i]
         /\ checkpoint.last_seq \in Nat /\ origin \in Nat
         /\ \A h \in Handler : handlers[h].seq \in Nat
         /\ \A c \in Conn : /\ conns[c].next \in Nat /\ conns[c].cursor \in Nat
                            /\ conns[c].fetched \in Nat
         /\ \A r \in Record : index[r] \in Nat
         /\ \A i \in 1..LogLength : log[i] \in Record
<1>1. LogLength \in Nat /\ LogLength' \in Nat /\ LogLength <= LogLength'
  BY Typed, WorldGoesOn
<1>2. \A i \in 1..LogLength : i \in 1..LogLength' /\ log'[i] = log[i]
  BY <1>1, WorldGoesOn
<1>3. checkpoint.last_seq \in Nat /\ origin \in Nat /\ \A r \in Record : index[r] \in Nat
  BY DEF TypeOK
<1>4. /\ \A h \in Handler : handlers[h].seq \in Nat
      /\ \A c \in Conn : /\ conns[c].next \in Nat /\ conns[c].cursor \in Nat
                         /\ conns[c].fetched \in Nat
  BY Typed DEF ConnType, HandlerType
<1>5. \A i \in 1..LogLength : log[i] \in Record
  BY Typed DEF LogLength
<1>6. QED BY <1>1, <1>2, <1>3, <1>4, <1>5

\* Bounds hold after every step.
LEMMA BoundsStep ==
  ASSUME TypeOK, Held, Bounds, [Next]_vars
  PROVE  Bounds'
<1> USE Places
<1>0. CursorsBounded /\ IndexBounded /\ \A c \in Conn : ConnBounded(c)
  BY BoundsParts
<1>a. UNCHANGED index => IndexBounded'
  BY <1>0 DEF IndexBounded
<1>b. ASSUME NEW c \in Conn, conns'[c] = conns[c] PROVE ConnBounded(c)'
  BY <1>0, <1>b DEF ConnBounded
<1>c. UNCHANGED <<handlers, checkpoint, origin, got>> => CursorsBounded'
  BY <1>0 DEF CursorsBounded
<1>1. CASE Stays
  <2>1. CursorsBounded'
    BY <1>0, <1>1 DEF Stays, CursorsBounded
  <2>2. ASSUME NEW c \in Conn PROVE ConnBounded(c)'
    BY <1>0, <1>1 DEF Stays, ConnBounded
  <2>3. QED BY <1>1, <1>a, <2>1, <2>2, BoundsParts DEF Stays
<1>2. ASSUME NEW h \in Handler, NEW c \in Conn, Connect(h, c) PROVE Bounds'
  <2>1. /\ conns'[c].at = "unspawned" /\ conns'[c].cursor = 0
        /\ conns'[c].next = StartAt(handlers[h].seq)
        /\ \A b \in Conn \ {c} : conns'[b] = conns[b]
        /\ \A g \in Handler \ {h} : handlers'[g] = handlers[g]
        /\ handlers'[h].seq = 0
        /\ UNCHANGED <<index, checkpoint, got>>
        /\ origin' = IF handlers[h].seq > 0 THEN origin ELSE LogLength
    BY <1>2, ConnectSteps
  <2>2. CursorsBounded'
    BY <1>0, <2>1 DEF CursorsBounded
  <2>3. ConnBounded(c)'
    <3>1. handlers[h].seq <= LogLength
      BY <1>0 DEF CursorsBounded
    <3>2. conns'[c].next \in 1..(LogLength + 1)
      BY <2>1, <3>1 DEF StartAt
    <3>3. QED BY <2>1, <3>2 DEF ConnBounded
  <2>4. QED BY <1>a, <1>b, <2>1, <2>2, <2>3, BoundsParts
<1>3. ASSUME NEW c \in Conn, NEW i \in Nat, Given(c, i) PROVE Bounds'
  <2>1. i \in 1..LogLength
    BY <1>0, <1>3 DEF Given, ConnBounded
  <2>2. CursorsBounded'
    <3>1. got' \subseteq got \cup {i} /\ UNCHANGED <<handlers, checkpoint, origin>>
      BY <1>3 DEF Given, Only
    <3>2. got \subseteq 1..LogLength
      BY <1>0 DEF CursorsBounded
    <3>3. got' \subseteq 1..LogLength'
      BY <2>1, <3>1, <3>2
    <3>4. QED BY <1>0, <3>1, <3>3 DEF CursorsBounded
  <2>3. ConnBounded(c)'
    BY <1>0, <1>3, <2>1 DEF Given, ConnBounded
  <2>4. QED BY <1>3, <1>a, <1>b, <2>2, <2>3, BoundsParts DEF Given, Only
<1>4. ASSUME NEW c \in Conn, HasFetched(c) PROVE Bounds'
  <2> DEFINE r == log[conns[c].cursor]
  <2>1. conns[c].cursor \in 1..LogLength /\ conns[c].cursor < conns[c].next
        /\ conns[c].next \in 1..(LogLength + 1)
    BY <1>0, <1>4 DEF ConnBounded, HasFetched
  <2>2. Current(r) \in conns[c].cursor..LogLength /\ log[Current(r)] = r
    BY <2>1, CurrentIsLast, Typed
  <2>3. /\ conns'[c].at = "store" /\ conns'[c].fetched = Current(r)
        /\ conns'[c].next = conns[c].next /\ conns'[c].cursor = conns[c].cursor
    BY <1>4 DEF HasFetched, SamePlace
  <2> HIDE DEF r
  <2>4. ConnBounded(c)'
    <3>1. Current(r) \in 1..LogLength
      BY <2>1, <2>2
    <3>2. QED BY <2>1, <2>2, <2>3, <3>1 DEF ConnBounded, r
  <2>5. QED BY <1>4, <1>a, <1>b, <1>c, <2>4, BoundsParts DEF HasFetched, Only
<1>5. ASSUME NEW c \in Conn, Rests(c) PROVE ConnBounded(c)'
  BY <1>0, <1>5 DEF Rests, Only, Looping, ConnBounded
<1>6. ASSUME NEW c \in Conn, HasStored(c) PROVE Bounds'
  <2> DEFINE l == conns[c]
             r == log[l.cursor]
  <2>1. /\ l.cursor \in 1..LogLength /\ l.fetched \in l.cursor..LogLength
        /\ log[l.fetched] = r
    BY <1>0, <1>6 DEF HasStored, ConnBounded
  <2>2. /\ r \in Record /\ l.fetched \in 1..LogLength
    BY <2>1
  <2>3. \/ Written(l, r) = index[r] \/ Written(l, r) = l.fetched
    BY DEF Written
  <2>4. \A q \in Record : index'[q] = IF q = r THEN Written(l, r) ELSE index[q]
    BY <1>6 DEF HasStored, TypeOK
  <2> HIDE DEF r, l
  <2>5. IndexBounded'
    BY <1>0, <2>1, <2>2, <2>3, <2>4 DEF IndexBounded
  <2>6. QED
    BY <1>5, <1>6, <1>b, <1>c, <2>5, BoundsParts DEF HasStored, KeepsFilter, Rests, Only
<1>7. ASSUME NEW c \in Conn, HasFailed(c) PROVE Bounds'
  BY <1>5, <1>7, <1>a, <1>b, <1>c, BoundsParts DEF HasFailed, KeepsFilter, Rests, Only
<1>8. ASSUME NEW c \in Conn, Tends(c) PROVE Bounds'
  <2>1. conns[c].cursor <= LogLength
    BY <1>0, <1>8 DEF Tends, Rests, Only, Looping, ConnBounded
  <2>2. CursorsBounded'
    BY <1>0, <1>8, <2>1 DEF Tends, Rests, Only, CursorsBounded
  <2>3. QED BY <1>5, <1>8, <1>a, <1>b, <2>2, BoundsParts DEF Tends, Rests, Only
<1>9. ASSUME NEW c \in Conn, HasEnded(c) PROVE Bounds'
  <2>1. ConnBounded(c)'
    BY <1>9 DEF HasEnded, ConnBounded
  <2>2. QED BY <1>9, <1>a, <1>b, <1>c, <2>1, BoundsParts DEF HasEnded, Only
<1>10. QED BY <1>1, <1>2, <1>3, <1>4, <1>6, <1>7, <1>8, <1>9, Moves

\* Who was neither followed nor unfollowed since the start is in every list of
\* accounts the object works with: the rows, a handler's, a URL's, a loop's.
Watched ==
  /\ Record \ touched \subseteq followed
  /\ \A h \in Handler : handlers[h].at = "connect" => Record \ touched \subseteq handlers[h].dids
  /\ \A c \in Conn : conns[c].at # "none" =>
       Record \ touched \subseteq conns[c].wanted \cap conns[c].dids

\* So after every step.
LEMMA WatchedStep ==
  ASSUME TypeOK, Held, Watched, [Next]_vars
  PROVE  Watched'
<1>0. touched \subseteq touched' /\ Record \ touched' \subseteq followed'
  BY WorldGoesOn DEF Watched
<1>1. CASE Stays
  BY <1>0, <1>1 DEF Stays, Watched
<1>2. ASSUME NEW h \in Handler, NEW c \in Conn, Connect(h, c) PROVE Watched'
  <2>1. /\ handlers[h].at = "connect"
        /\ \A b \in Conn \ {c} : conns'[b] = conns[b]
        /\ conns'[c].wanted = handlers[h].dids /\ conns'[c].dids = handlers[h].dids
        /\ \A g \in Handler \ {h} : handlers'[g] = handlers[g]
        /\ handlers'[h].at = "mark"
    BY <1>2, ConnectSteps
  <2>2. QED BY <1>0, <2>1 DEF Watched
<1>3. ASSUME NEW c \in Conn, Only(c),
             \/ conns'[c].at = "none"
             \/ /\ conns'[c].wanted = conns[c].wanted
                /\ conns'[c].dids \in {conns[c].dids, followed}
      PROVE  Watched'
  BY <1>0, <1>3 DEF Watched, Only, Looping
<1>4. ASSUME NEW c \in Conn, NEW i \in Nat, Given(c, i) PROVE Watched'
  BY <1>3, <1>4 DEF Given
<1>5. ASSUME NEW c \in Conn, \/ HasFetched(c) \/ HasStored(c) \/ HasFailed(c)
                             \/ Tends(c) \/ HasEnded(c)
      PROVE  Watched'
  BY <1>3, <1>5
     DEF HasFetched, HasStored, HasFailed, Tends, HasEnded, KeepsFilter, Rests, SamePlace
<1>6. QED BY <1>1, <1>2, <1>4, <1>5, Moves

-----------------------------------------------------------------------------
(* The index and the cursor.                                               *)

\* What one loop has fetched is no older than what the index shows: nobody else
\* writes the index.
Ahead ==
  ~overlapped => \A c \in Conn :
    conns[c].at = "store" => index[log[conns[c].cursor]] <= conns[c].fetched

\* The index shows event i, and no write that is under way takes that back; or
\* the event failed, or is not one the cursor speaks for.
Settled(i) ==
  \/ i \in failed \/ log[i] \in touched \/ i <= origin
  \/ /\ Shows(log[i], i)
     /\ \A c \in Conn :
          conns[c].at = "store" /\ log[conns[c].cursor] = log[i] => i <= conns[c].fetched

\* i is the event that the loop on c is handling.
InHand(c, i) == conns[c].at \in {"handle", "store"} /\ i = conns[c].cursor

\* Every event behind a cursor is settled: behind the checkpoint's, the one a
\* handler has read, and the place a connection has come to, but for the one
\* event in a loop's hands.
Frontier ==
  ~overlapped => \A i \in 1..LogLength :
    /\ i <= checkpoint.last_seq => Settled(i)
    /\ \A h \in Handler : i <= handlers[h].seq => Settled(i)
    /\ \A c \in Conn : conns[c].at # "none" /\ i < conns[c].next => Settled(i) \/ InHand(c, i)

\* What is fetched stays ahead of the index.
LEMMA AheadStep ==
  ASSUME TypeOK, Structure, Bounds, Ahead, [Next]_vars
  PROVE  Ahead'
<1> USE Places
<1>0. Held /\ OneLoop /\ \A c \in Conn : ConnBounded(c)
  BY BoundsParts DEF Structure
<1>a. ASSUME overlapped => overlapped', UNCHANGED index,
             \A b \in Conn : conns'[b].at = "store" =>
               /\ conns[b].at = "store" /\ conns'[b].cursor = conns[b].cursor
               /\ conns'[b].fetched = conns[b].fetched
      PROVE  Ahead'
  BY <1>0, <1>a DEF Ahead, ConnBounded
<1>1. CASE Stays
  BY <1>1, <1>a DEF Stays
<1>2. ASSUME NEW h \in Handler, NEW c \in Conn, Connect(h, c) PROVE Ahead'
  BY <1>0, <1>2, <1>a, ConnectSteps
<1>3. ASSUME NEW c \in Conn, NEW i \in Nat, Given(c, i) PROVE Ahead'
  BY <1>3, <1>a DEF Given, Only
<1>4. ASSUME NEW c \in Conn, HasFetched(c) PROVE Ahead'
  <2> DEFINE r == log[conns[c].cursor]
  <2>1. conns[c].cursor \in 1..LogLength /\ r \in Record
    BY <1>0, <1>4 DEF HasFetched, ConnBounded
  <2>2. index[r] <= Current(r)
    <3>1. index[r] = 0 \/ (index[r] \in 1..LogLength /\ log[index[r]] = r)
      BY <2>1 DEF Bounds
    <3>2. Current(r) \in Nat /\ (index[r] # 0 => index[r] <= Current(r))
      BY <3>1, CurrentIsLast, Typed
    <3>3. QED BY <2>1, <3>1, <3>2
  <2>3. /\ conns'[c].fetched = Current(r) /\ conns'[c].cursor = conns[c].cursor
        /\ log'[conns[c].cursor] = r /\ UNCHANGED <<index, overlapped>>
        /\ \A b \in Conn \ {c} : conns'[b] = conns[b]
    BY <1>4, <2>1 DEF HasFetched, Only, SamePlace
  <2> HIDE DEF r
  <2>4. QED BY <1>0, <2>2, <2>3 DEF Ahead, ConnBounded
<1>5. ASSUME NEW c \in Conn, HasStored(c) PROVE Ahead'
  <2>1. ~overlapped' => \A b \in Conn : conns'[b].at # "store"
    <3>1. /\ overlapped' = overlapped /\ Looping(c) /\ conns'[c].at # "store"
          /\ \A b \in Conn \ {c} : conns'[b] = conns[b]
      BY <1>5 DEF HasStored, KeepsFilter, Rests, Only
    <3>2. ASSUME ~overlapped, NEW b \in Conn \ {c} PROVE conns[b].at # "store"
      BY <1>0, <3>1, <3>2 DEF OneLoop, Looping
    <3>3. QED BY <3>1, <3>2
  <2>2. QED BY <2>1 DEF Ahead
<1>6. ASSUME NEW c \in Conn, HasFailed(c) \/ Tends(c) \/ HasEnded(c) PROVE Ahead'
  BY <1>6, <1>a DEF HasFailed, Tends, HasEnded, KeepsFilter, Rests, Only
<1>7. QED BY <1>0, <1>1, <1>2, <1>3, <1>4, <1>5, <1>6, Moves

\* A change that is there stays there.
LEMMA PresentStays ==
  ASSUME TypeOK, [Next]_vars, NEW i \in 1..LogLength
  PROVE  Present(i)' <=> Present(i)
BY WorldGoesOn DEF Present

\* The index goes on showing what it showed of a record it is not writing.
LEMMA ShowsStays ==
  ASSUME TypeOK, Bounds, [Next]_vars, NEW i \in 1..LogLength, NEW r \in Record,
         index'[r] = index[r], Shows(r, i)
  PROVE  Shows(r, i)'
<1> USE Places
<1>1. PICK j \in i..LogLength :
        /\ log[j] = r
        /\ index[r] = j \/ (r \in Edge /\ Present(index[r]) /\ Present(j))
  BY DEF Shows
<1>2. j \in 1..LogLength /\ j \in i..LogLength' /\ log'[j] = r
  BY <1>1
<1>3. Present(j) => Present(j)'
  BY <1>2, PresentStays
<1>4. Present(index[r]) => Present(index[r])'
  <2>1. Present(index[r]) => index[r] \in 1..LogLength
    BY DEF Present, Bounds
  <2>2. QED BY <2>1, PresentStays
<1>5. QED BY <1>1, <1>2, <1>3, <1>4 DEF Shows, Present

\* A write of the fetched record shows every event up to the fetched one.
LEMMA StoreShows ==
  ASSUME TypeOK, Bounds, [Next]_vars, NEW c \in Conn, HasStored(c),
         NEW i \in 1..LogLength, log[i] = log[conns[c].cursor], i <= conns[c].fetched
  PROVE  Shows(log[i], i)'
<1> USE Places
<1> DEFINE l == conns[c]
<1>1. PICK q, f, g : q = log[l.cursor] /\ f = l.fetched /\ g = index[q]
  OBVIOUS
<1>2. l.at = "store" /\ index' = [index EXCEPT ![q] = Written(l, q)]
  BY <1>1 DEF HasStored
<1>3. f \in l.cursor..LogLength /\ log[f] = q /\ l.cursor \in 1..LogLength
  BY <1>1, <1>2 DEF Bounds
<1>4. /\ f \in 1..LogLength /\ f \in i..LogLength' /\ log'[f] = q
      /\ q \in Record /\ log'[i] = q
  BY <1>1, <1>3
<1>5. index'[q] = Written(l, q)
  BY <1>2, <1>4 DEF TypeOK
<1>6. CASE Written(l, q) = f
  BY <1>4, <1>5, <1>6 DEF Shows
<1>7. CASE Written(l, q) # f
  <2>1. /\ q \in Edge /\ Present(g) /\ Present(f) /\ Written(l, q) = g
    BY <1>1, <1>7 DEF Written
  <2>2. g \in 1..LogLength
    BY <1>1, <1>4, <2>1 DEF Present, Bounds
  <2>3. Present(f)' /\ Present(g)'
    BY <1>4, <2>1, <2>2, PresentStays
  <2>4. (Present(index[q]))'
    BY <1>5, <2>1, <2>3 DEF Present
  <2>5. QED BY <1>4, <2>1, <2>3, <2>4 DEF Shows
<1>8. QED BY <1>6, <1>7

\* What Settled(i) says of an event that the cursor does speak for.
Shown(i) ==
  /\ Shows(log[i], i)
  /\ \A c \in Conn :
       conns[c].at = "store" /\ log[conns[c].cursor] = log[i] => i <= conns[c].fetched

\* An event that is settled stays settled, while there is one loop.
LEMMA SettledStays ==
  ASSUME TypeOK, TypeOK', Structure, Bounds, [Next]_vars, ~overlapped,
         NEW i \in 1..LogLength, Settled(i)
  PROVE  Settled(i)'
<1> USE Places
<1>0. Held /\ OneLoop /\ \A c \in Conn : ConnBounded(c)
  BY BoundsParts DEF Structure
<1>1. touched \subseteq touched'
  BY WorldGoesOn
<1>2. i \in 1..LogLength' /\ log'[i] = log[i] /\ log[i] \in Record
  OBVIOUS
<1>3. Bounds'
  BY <1>0, BoundsStep
<1>a. ASSUME failed \subseteq failed', origin <= origin', Shown(i) => Shows(log[i], i)',
             \A c \in Conn : conns'[c].at = "store" /\ log[conns'[c].cursor] = log[i] =>
               \/ i <= conns'[c].fetched
               \/ /\ conns[c].at = "store" /\ conns'[c].cursor = conns[c].cursor
                  /\ conns'[c].fetched = conns[c].fetched,
             \A c \in Conn : conns'[c].at = "store" => conns'[c].cursor \in 1..LogLength
      PROVE  Settled(i)'
  <2>1. CASE i \in failed
    BY <1>a, <2>1 DEF Settled
  <2>2. CASE log[i] \in touched
    BY <1>1, <1>2, <2>2 DEF Settled
  <2>3. CASE i <= origin
    <3>1. origin' \in Nat
      BY DEF TypeOK
    <3>2. i <= origin'
      BY <1>a, <2>3, <3>1
    <3>3. QED BY <3>2 DEF Settled
  <2>4. CASE Shown(i)
    <3>1. \A c \in Conn :
            conns'[c].at = "store" /\ log'[conns'[c].cursor] = log'[i] => i <= conns'[c].fetched
      BY <1>2, <1>a, <2>4 DEF Shown
    <3>2. Shows(log[i], i)'
      BY <1>a, <2>4
    <3>3. QED BY <3>1, <3>2 DEF Settled
  <2>5. QED BY <2>1, <2>2, <2>3, <2>4 DEF Settled, Shown
<1>b. UNCHANGED index => (Shown(i) => Shows(log[i], i)')
  BY <1>2, ShowsStays DEF Shown
<1>c. ASSUME NEW c \in Conn, conns'[c] = conns[c], conns'[c].at = "store"
      PROVE  conns'[c].cursor \in 1..LogLength
  BY <1>0, <1>c DEF ConnBounded
<1>d. ASSUME UNCHANGED <<index, origin>>, failed \subseteq failed',
             \A c \in Conn : conns'[c] = conns[c] \/ conns'[c].at # "store"
      PROVE  Settled(i)'
  BY <1>a, <1>b, <1>c, <1>d
<1>4. CASE Stays
  <2>1. UNCHANGED <<index, origin, failed>>
    BY <1>4 DEF Stays
  <2>2. \A c \in Conn : conns'[c].at = "store" =>
          /\ conns[c].at = "store" /\ conns'[c].cursor = conns[c].cursor
          /\ conns'[c].fetched = conns[c].fetched /\ conns[c].cursor \in 1..LogLength
    BY <1>0, <1>4 DEF Stays, ConnBounded
  <2>3. QED BY <1>a, <1>b, <2>1, <2>2
<1>5. ASSUME NEW h \in Handler, NEW c \in Conn, Connect(h, c) PROVE Settled(i)'
  <2>1. /\ \A b \in Conn \ {c} : conns'[b] = conns[b]
        /\ conns'[c].at = "unspawned" /\ UNCHANGED index
        /\ origin' = IF handlers[h].seq > 0 THEN origin ELSE LogLength
    BY <1>0, <1>5, ConnectSteps
  <2>2. UNCHANGED failed
    BY <1>5 DEF Connect
  <2>3. origin <= origin'
    BY <2>1 DEF Bounds
  <2>4. QED BY <1>a, <1>b, <1>c, <2>1, <2>2, <2>3
<1>6. ASSUME NEW c \in Conn, NEW j \in Nat, Given(c, j) PROVE Settled(i)'
  BY <1>6, <1>d DEF Given, Only
<1>7. ASSUME NEW c \in Conn, HasFetched(c) PROVE Settled(i)'
  <2> DEFINE r == log[conns[c].cursor]
  <2>1. conns[c].cursor \in 1..LogLength
    BY <1>0, <1>7 DEF HasFetched, ConnBounded
  <2>2. log[i] = r => i <= Current(r)
    BY CurrentIsLast, Typed
  <2>3. /\ \A b \in Conn \ {c} : conns'[b] = conns[b]
        /\ conns'[c].fetched = Current(r) /\ conns'[c].cursor = conns[c].cursor
        /\ UNCHANGED <<index, failed, origin>>
    BY <1>7 DEF HasFetched, Only, SamePlace
  <2> HIDE DEF r
  <2>4. QED BY <1>a, <1>b, <1>c, <2>1, <2>2, <2>3 DEF r
<1>8. ASSUME NEW c \in Conn, HasStored(c) PROVE Settled(i)'
  <2> DEFINE q == log[conns[c].cursor]
  <2>1. /\ \A b \in Conn \ {c} : conns'[b] = conns[b]
        /\ conns'[c].at # "store" /\ conns[c].at = "store"
        /\ UNCHANGED <<failed, origin>>
        /\ index' = [index EXCEPT ![q] = Written(conns[c], q)]
    BY <1>8 DEF HasStored, KeepsFilter, Rests, Only
  <2>2. Shown(i) => Shows(log[i], i)'
    <3>1. CASE log[i] = q
      BY <1>8, <2>1, <3>1, StoreShows DEF Shown
    <3>2. CASE log[i] # q
      <4>1. index'[log[i]] = index[log[i]]
        BY <1>2, <2>1, <3>2 DEF TypeOK
      <4>2. QED BY <1>2, <4>1, ShowsStays DEF Shown
    <3>3. QED BY <3>1, <3>2
  <2> HIDE DEF q
  <2>3. QED BY <1>a, <1>c, <2>1, <2>2
<1>9. ASSUME NEW c \in Conn, HasFailed(c) \/ Tends(c) \/ HasEnded(c) PROVE Settled(i)'
  BY <1>9, <1>d DEF HasFailed, Tends, HasEnded, KeepsFilter, Rests, Only
<1>10. QED BY <1>0, <1>4, <1>5, <1>6, <1>7, <1>8, <1>9, Moves


\* Nothing is passed over before the stream is joined, nor by the loop: every
\* event behind a cursor is settled.
LEMMA FrontierStep ==
  ASSUME TypeOK, TypeOK', Structure, Bounds, Watched, Frontier, [Next]_vars
  PROVE  Frontier'
<1> USE Places
<1>0. Held /\ OneLoop /\ \A c \in Conn : ConnBounded(c)
  BY BoundsParts DEF Structure
<1>1. Bounds' /\ \A c \in Conn : ConnBounded(c)'
  BY <1>0, BoundsStep, BoundsParts
<1>2. SUFFICES ASSUME ~overlapped', NEW i \in 1..LogLength'
               PROVE  /\ i <= checkpoint'.last_seq => Settled(i)'
                      /\ \A h \in Handler : i <= handlers'[h].seq => Settled(i)'
                      /\ \A c \in Conn : conns'[c].at # "none" /\ i < conns'[c].next =>
                           Settled(i)' \/ InHand(c, i)'
  BY DEF Frontier
<1>3. ~overlapped
  BY <1>0, <1>2, OverlapStays
<1>4. i \in Nat /\ i <= LogLength'
  BY <1>2
\* What a cursor has passed is not a new event.
<1>5. /\ i <= checkpoint.last_seq => i \in 1..LogLength
      /\ \A h \in Handler : i <= handlers[h].seq => i \in 1..LogLength
      /\ \A c \in Conn : conns[c].at # "none" /\ i < conns[c].next => i \in 1..LogLength
      /\ i <= LogLength => i \in 1..LogLength
  <2>1. 0 < i
    BY <1>2
  <2>2. QED BY <1>4, <2>1, <1>0 DEF Bounds, ConnBounded
<1>6. ASSUME i \in 1..LogLength, Settled(i) PROVE Settled(i)'
  BY <1>3, <1>6, SettledStays
<1>7. /\ i <= checkpoint.last_seq => Settled(i)'
      /\ \A h \in Handler : i <= handlers[h].seq => Settled(i)'
  BY <1>3, <1>5, <1>6 DEF Frontier
<1>8. ASSUME NEW c \in Conn, conns[c].at # "none", i < conns[c].next
      PROVE  Settled(i)' \/ (InHand(c, i) /\ i \in 1..LogLength)
  BY <1>3, <1>5, <1>6, <1>8 DEF Frontier
<1>9. ASSUME NEW c \in Conn, conns[c].at # "none", conns'[c].at = conns[c].at,
             conns'[c].next = conns[c].next, conns'[c].cursor = conns[c].cursor,
             i < conns'[c].next
      PROVE  Settled(i)' \/ InHand(c, i)'
  BY <1>8, <1>9 DEF InHand
<1>10. ASSUME NEW c \in Conn, UNCHANGED handlers,
              i <= checkpoint'.last_seq => Settled(i)',
              \A b \in Conn \ {c} : conns'[b] = conns[b],
              conns'[c].at # "none" /\ i < conns'[c].next => Settled(i)' \/ InHand(c, i)'
       PROVE  /\ i <= checkpoint'.last_seq => Settled(i)'
              /\ \A h \in Handler : i <= handlers'[h].seq => Settled(i)'
              /\ \A b \in Conn : conns'[b].at # "none" /\ i < conns'[b].next =>
                   Settled(i)' \/ InHand(b, i)'
  <2>1. \A b \in Conn \ {c} : conns'[b].at # "none" /\ i < conns'[b].next =>
          Settled(i)' \/ InHand(b, i)'
    BY <1>9, <1>10
  <2>2. QED BY <1>7, <1>10, <2>1
<1>11. CASE Stays
  <2>1. i <= checkpoint'.last_seq => Settled(i)'
    BY <1>7, <1>11 DEF Stays
  <2>2. \A h \in Handler : i <= handlers'[h].seq => Settled(i)'
    <3>1. \A h \in Handler : handlers'[h].seq \in {0, handlers[h].seq, checkpoint.last_seq}
      BY <1>11 DEF Stays
    <3>2. ~ (i <= 0)
      BY <1>2
    <3>3. QED BY <1>7, <3>1, <3>2
  <2>3. ASSUME NEW c \in Conn, conns'[c].at # "none", i < conns'[c].next
        PROVE  Settled(i)' \/ InHand(c, i)'
    <3>1. /\ conns'[c].next = conns[c].next /\ conns'[c].cursor = conns[c].cursor
          /\ \/ conns'[c].at = conns[c].at
             \/ conns'[c].at = "read" /\ conns[c].at = "unspawned"
      BY <1>11, <2>3, Zenon DEF Stays
    <3>2. CASE conns'[c].at = conns[c].at
      BY <1>9, <2>3, <3>1, <3>2
    <3>3. CASE conns[c].at = "unspawned"
      BY <1>8, <2>3, <3>1, <3>3 DEF InHand
    <3>4. QED BY <3>1, <3>2, <3>3
  <2>4. QED BY <2>1, <2>2, <2>3
<1>12. ASSUME NEW h \in Handler, NEW c \in Conn, Connect(h, c)
       PROVE  /\ i <= checkpoint'.last_seq => Settled(i)'
              /\ \A g \in Handler : i <= handlers'[g].seq => Settled(i)'
              /\ \A b \in Conn : conns'[b].at # "none" /\ i < conns'[b].next =>
                   Settled(i)' \/ InHand(b, i)'
  <2>1. /\ \A b \in Conn \ {c} : conns'[b] = conns[b]
        /\ conns'[c].at = "unspawned" /\ conns'[c].next = StartAt(handlers[h].seq)
        /\ \A g \in Handler \ {h} : handlers'[g] = handlers[g]
        /\ handlers'[h].seq = 0 /\ UNCHANGED checkpoint
        /\ origin' = IF handlers[h].seq > 0 THEN origin ELSE LogLength
    BY <1>0, <1>12, ConnectSteps
  <2>2. \A g \in Handler : i <= handlers'[g].seq => Settled(i)'
    BY <1>2, <1>7, <2>1
  <2>3. ASSUME i < conns'[c].next PROVE Settled(i)'
    <3>1. CASE handlers[h].seq > 0
      <4>1. i <= handlers[h].seq
        BY <1>4, <2>1, <2>3, <3>1 DEF StartAt
      <4>2. QED BY <1>7, <4>1
    <3>2. CASE ~ (handlers[h].seq > 0)
      <4>1. i < LogLength + 1 /\ origin' = LogLength
        BY <2>1, <2>3, <3>2 DEF StartAt
      <4>2. i <= origin'
        BY <1>4, <4>1
      <4>3. QED BY <4>2 DEF Settled
    <3>3. QED BY <3>1, <3>2
  <2>4. \A b \in Conn \ {c} : conns'[b].at # "none" /\ i < conns'[b].next =>
          Settled(i)' \/ InHand(b, i)'
    BY <1>9, <2>1
  <2>5. QED BY <1>7, <2>1, <2>2, <2>3, <2>4
<1>13. ASSUME NEW c \in Conn, NEW j \in Nat, Given(c, j), i < j + 1
       PROVE  Settled(i)' \/ InHand(c, i)'
  <2>1. /\ j \in conns[c].next..LogLength /\ conns[c].at = "read"
        /\ \A k \in conns[c].next..LogLength : log[k] \in conns[c].wanted => j <= k
        /\ conns'[c].cursor = j
        /\ conns'[c].at = "handle" \/ log[j] \notin conns[c].dids
    BY <1>13 DEF Given
  <2>2. i \in 1..LogLength /\ log'[i] = log[i] /\ log[i] \in Record
    BY <1>2, <1>4, <1>13, <2>1
  <2>3. ASSUME log[i] \in touched PROVE Settled(i)'
    BY <2>2, <2>3, WorldGoesOn DEF Settled
  <2>4. Record \ touched \subseteq conns[c].wanted \cap conns[c].dids
    BY <2>1 DEF Watched
  <2>5. CASE i < conns[c].next
    BY <1>8, <2>1, <2>5 DEF InHand
  <2>6. CASE ~ (i < conns[c].next) /\ i # j
    <3>1. i \in conns[c].next..LogLength /\ ~ (j <= i)
      BY <1>4, <1>13, <2>1, <2>2, <2>6
    <3>2. QED BY <2>1, <2>2, <2>3, <2>4, <3>1
  <2>7. CASE i = j
    <3>1. CASE conns'[c].at = "handle"
      BY <2>1, <2>7, <3>1 DEF InHand
    <3>2. CASE log[j] \notin conns[c].dids
      BY <2>2, <2>3, <2>4, <2>7, <3>2
    <3>3. QED BY <2>1, <3>1, <3>2
  <2>8. QED BY <2>5, <2>6, <2>7
<1>14. ASSUME NEW c \in Conn, NEW j \in Nat, Given(c, j)
       PROVE  /\ i <= checkpoint'.last_seq => Settled(i)'
              /\ \A g \in Handler : i <= handlers'[g].seq => Settled(i)'
              /\ \A b \in Conn : conns'[b].at # "none" /\ i < conns'[b].next =>
                   Settled(i)' \/ InHand(b, i)'
  <2>1. /\ UNCHANGED <<handlers, checkpoint>> /\ conns'[c].next = j + 1
        /\ \A b \in Conn \ {c} : conns'[b] = conns[b]
    BY <1>14 DEF Given, Only
  <2>2. QED BY <1>7, <1>10, <1>13, <1>14, <2>1
<1>15. ASSUME NEW c \in Conn, HasFetched(c)
       PROVE  /\ i <= checkpoint'.last_seq => Settled(i)'
              /\ \A g \in Handler : i <= handlers'[g].seq => Settled(i)'
              /\ \A b \in Conn : conns'[b].at # "none" /\ i < conns'[b].next =>
                   Settled(i)' \/ InHand(b, i)'
  <2>1. /\ UNCHANGED <<handlers, checkpoint>>
        /\ conns[c].at = "handle" /\ conns'[c].at = "store"
        /\ conns'[c].next = conns[c].next /\ conns'[c].cursor = conns[c].cursor
        /\ \A b \in Conn \ {c} : conns'[b] = conns[b]
    BY <1>15 DEF HasFetched, Only, SamePlace
  <2>2. i < conns'[c].next => Settled(i)' \/ InHand(c, i)'
    BY <1>8, <2>1 DEF InHand
  <2>3. QED BY <1>7, <1>10, <2>1, <2>2
<1>16. ASSUME NEW c \in Conn, Rests(c),
              InHand(c, i) /\ i \in 1..LogLength => Settled(i)',
              checkpoint'.last_seq \in {checkpoint.last_seq, conns[c].cursor},
              conns[c].at \in {"handle", "store"} =>
                checkpoint'.last_seq = checkpoint.last_seq
       PROVE  /\ i <= checkpoint'.last_seq => Settled(i)'
              /\ \A g \in Handler : i <= handlers'[g].seq => Settled(i)'
              /\ \A b \in Conn : conns'[b].at # "none" /\ i < conns'[b].next =>
                   Settled(i)' \/ InHand(b, i)'
  <2>1. /\ UNCHANGED handlers /\ conns[c].at # "none" /\ conns'[c].next = conns[c].next
        /\ \A b \in Conn \ {c} : conns'[b] = conns[b]
    BY <1>16 DEF Rests, Only, Looping
  <2>2. i < conns[c].next => Settled(i)'
    BY <1>8, <1>16, <2>1
  <2>3. i <= conns[c].cursor => Settled(i)'
    <3>1. conns[c].cursor < conns[c].next
      BY <1>0, <2>1 DEF ConnBounded
    <3>2. i <= conns[c].cursor => i < conns[c].next
      BY <1>4, <3>1
    <3>3. QED BY <2>2, <3>2
  <2>4. QED BY <1>7, <1>10, <1>16, <2>1, <2>2, <2>3
<1>17. ASSUME NEW c \in Conn, HasStored(c)
       PROVE  /\ i <= checkpoint'.last_seq => Settled(i)'
              /\ \A g \in Handler : i <= handlers'[g].seq => Settled(i)'
              /\ \A b \in Conn : conns'[b].at # "none" /\ i < conns'[b].next =>
                   Settled(i)' \/ InHand(b, i)'
  <2>1. /\ Rests(c) /\ UNCHANGED checkpoint /\ conns[c].at = "store"
        /\ \A b \in Conn \ {c} : conns'[b] = conns[b]
        /\ Looping(c) /\ conns'[c].at # "store"
    BY <1>17 DEF HasStored, KeepsFilter, Rests, Only
  <2>2. \A b \in Conn : conns'[b].at # "store"
    BY <1>0, <1>3, <2>1 DEF OneLoop, Looping
  <2>3. ASSUME InHand(c, i), i \in 1..LogLength PROVE Settled(i)'
    <3>1. log[i] = log[conns[c].cursor] /\ i <= conns[c].fetched
      BY <1>0, <2>1, <2>3 DEF InHand, ConnBounded
    <3>2. Shows(log[i], i)'
      BY <1>17, <2>3, <3>1, StoreShows
    <3>3. QED BY <2>2, <3>2 DEF Settled
  <2>4. QED BY <1>16, <2>1, <2>3
<1>18. ASSUME NEW c \in Conn, HasFailed(c)
       PROVE  /\ i <= checkpoint'.last_seq => Settled(i)'
              /\ \A g \in Handler : i <= handlers'[g].seq => Settled(i)'
              /\ \A b \in Conn : conns'[b].at # "none" /\ i < conns'[b].next =>
                   Settled(i)' \/ InHand(b, i)'
  <2>1. Rests(c) /\ UNCHANGED checkpoint /\ conns[c].cursor \in failed'
    BY <1>18 DEF HasFailed, KeepsFilter
  <2>2. InHand(c, i) => Settled(i)'
    BY <2>1 DEF InHand, Settled
  <2>3. QED BY <1>16, <2>1, <2>2
<1>19. ASSUME NEW c \in Conn, Tends(c)
       PROVE  /\ i <= checkpoint'.last_seq => Settled(i)'
              /\ \A g \in Handler : i <= handlers'[g].seq => Settled(i)'
              /\ \A b \in Conn : conns'[b].at # "none" /\ i < conns'[b].next =>
                   Settled(i)' \/ InHand(b, i)'
  BY <1>16, <1>19 DEF Tends, InHand
<1>20. ASSUME NEW c \in Conn, HasEnded(c)
       PROVE  /\ i <= checkpoint'.last_seq => Settled(i)'
              /\ \A g \in Handler : i <= handlers'[g].seq => Settled(i)'
              /\ \A b \in Conn : conns'[b].at # "none" /\ i < conns'[b].next =>
                   Settled(i)' \/ InHand(b, i)'
  BY <1>7, <1>10, <1>20 DEF HasEnded, Only
<1>21. QED
  BY <1>0, <1>11, <1>12, <1>14, <1>15, <1>17, <1>18, <1>19, <1>20, Moves, Zenon

-----------------------------------------------------------------------------
(* The invariant, and what follows from it.                                *)

FirehoseInv ==
  TypeOK /\ Structure /\ Aside /\ Seconds /\ Bounds /\ Watched /\ Ahead /\ Frontier

\* It holds of the object before anything runs.
LEMMA FirehoseStart == Init => FirehoseInv
<1> SUFFICES ASSUME Init PROVE FirehoseInv
  OBVIOUS
<1>1. TypeOK
  BY InitTyped
<1>2. /\ log = <<>> /\ LogLength = 0 /\ origin = 0 /\ got = {}
      /\ checkpoint.last_seq = 0 /\ checkpoint.active = 0 /\ used = 0
      /\ touched = {} /\ followed = Record /\ index = [r \in Record |-> 0]
  BY DEF Init, LogLength
<1>3. /\ \A c \in Conn : conns[c].at = "none" /\ conns[c].elapsed = 0 /\ conns[c].delta = 0
      /\ \A h \in Handler :
           handlers[h].at = "idle" /\ handlers[h].conn = None /\ handlers[h].seq = 0
  BY DEF Init, NoConn, IdleHandler
<1>4. Structure /\ Aside /\ Seconds
  BY <1>2, <1>3 DEF Structure, Held, Calm, OneLoop, Aside, Seconds, Looping
<1>5. Bounds /\ Watched /\ Ahead /\ Frontier
  BY <1>2, <1>3 DEF Bounds, Watched, Ahead, Frontier
<1>6. QED BY <1>1, <1>4, <1>5 DEF FirehoseInv

\* Every step keeps it.
LEMMA FirehoseStep == FirehoseInv /\ [Next]_vars => FirehoseInv'
<1> SUFFICES ASSUME FirehoseInv, [Next]_vars PROVE FirehoseInv'
  OBVIOUS
<1>1. /\ TypeOK /\ Structure /\ Aside /\ Seconds
      /\ Bounds /\ Watched /\ Ahead /\ Frontier /\ Held
  BY Zenon DEF FirehoseInv, Structure
<1>2. TypeOK'
  BY <1>1, TypeStep
<1>3. Structure' /\ Aside' /\ Seconds'
  BY <1>1, <1>2, StructureStep, SecondsStep
<1>4. Bounds' /\ Watched' /\ Ahead' /\ Frontier'
  BY <1>1, <1>2, BoundsStep, WatchedStep, AheadStep, FrontierStep
<1>5. QED BY <1>2, <1>3, <1>4, Zenon DEF FirehoseInv

\* So it always holds.
LEMMA FirehoseInvariant == Spec => []FirehoseInv
<1>1. QED BY FirehoseStart, FirehoseStep, PTL DEF Spec

\* No second of a connection is counted twice towards the daily budget, while
\* one loop runs at a time: run_jetstream_loop moves last_flush_at when it takes
\* the seconds, and flush_checkpoint adds them to what it has just read.
THEOREM FirehoseSecondsCountedOnce == Spec => []SecondsCountedOnce
<1>1. FirehoseInv => SecondsCountedOnce
  BY DEF FirehoseInv, Seconds, SecondsCountedOnce
<1>2. QED BY <1>1, FirehoseInvariant, PTL

\* A replayed or late event never takes the index of a record back, while one
\* loop runs at a time: handle_commit_event stores the record as it is, and no
\* other loop stores between its fetch and its write.
THEOREM FirehoseIndexNeverRegresses == Spec => IndexNeverRegresses
<1>1. ASSUME FirehoseInv, [Next]_vars, ~overlapped, NEW r \in Record
      PROVE  index'[r] >= index[r]
  <2>1. TypeOK /\ Held /\ Bounds /\ Ahead
    BY <1>1, Zenon DEF FirehoseInv, Structure
  <2>2. CASE UNCHANGED index
    BY <2>1, <2>2 DEF TypeOK
  <2>3. ASSUME NEW c \in Conn, HasStored(c) PROVE index'[r] >= index[r]
    <3> DEFINE q == log[conns[c].cursor]
               l == conns[c]
    <3>1. index' = [index EXCEPT ![q] = Written(l, q)] /\ l.at = "store"
      BY <2>3 DEF HasStored
    <3>2. index[q] <= l.fetched
      BY <1>1, <2>1, <3>1 DEF Ahead
    <3>3. index[r] \in Nat /\ l.fetched \in Nat
      BY <1>1, <2>1, Places
    <3>4. CASE r = q
      <4>1. index'[r] = Written(l, q)
        BY <2>1, <3>1, <3>4 DEF TypeOK
      <4>2. Written(l, q) = index[q] \/ Written(l, q) = l.fetched
        BY DEF Written
      <4> HIDE DEF q, l
      <4>3. QED BY <3>2, <3>3, <3>4, <4>1, <4>2
    <3>5. CASE r # q
      <4>1. index'[r] = index[r]
        BY <2>1, <3>1, <3>5 DEF TypeOK
      <4>2. QED BY <3>3, <4>1
    <3>6. QED BY <3>4, <3>5
  <2>4. UNCHANGED index \/ \E c \in Conn : HasStored(c)
    <3>1. ASSUME NEW h \in Handler, NEW c \in Conn, Connect(h, c) PROVE UNCHANGED index
      BY <3>1 DEF Connect
    <3>2. Stays => UNCHANGED index
      BY DEF Stays
    <3>3. QED
      BY <1>1, <2>1, <3>1, <3>2, Moves DEF Given, HasFetched, HasFailed, Tends, HasEnded
  <2>5. QED BY <2>2, <2>3, <2>4
<1>2. FirehoseInv /\ [Next]_vars =>
        [overlapped \/ \A r \in Record : index'[r] >= index[r]]_vars
  BY <1>1
<1>3. QED BY <1>2, FirehoseInvariant, PTL DEF Spec, IndexNeverRegresses

\* The cursor never passes an event that was not stored: whatever drops, fails
\* and restarts, an event that a loop was given at or before last_seq and did not
\* fail on shows in the index, of accounts followed throughout and one loop at
\* a time: the loop sets the cursor before it handles the event, and flushes
\* only after it.
THEOREM FirehoseCursorMeansStored == Spec => []CursorMeansStored
<1>1. FirehoseInv => CursorMeansStored
  <2> SUFFICES ASSUME FirehoseInv, ~overlapped, NEW i \in got \ failed, log[i] \notin touched,
                      origin < i, i <= checkpoint.last_seq
               PROVE  Shows(log[i], i)
    BY DEF CursorMeansStored
  <2>1. Bounds /\ Frontier /\ origin \in Nat
    BY Zenon DEF FirehoseInv, TypeOK
  <2>2. i \in 1..LogLength
    BY <2>1 DEF Bounds
  <2>3. Settled(i)
    BY <2>1, <2>2 DEF Frontier
  <2>4. ~ (i <= origin)
    <3>1. origin \in Nat
      BY DEF FirehoseInv, TypeOK
    <3>2. QED BY <2>2, <3>1
  <2>5. QED BY <2>3, <2>4 DEF Settled
<1>2. QED BY <1>1, FirehoseInvariant, PTL

-----------------------------------------------------------------------------
(* The index as Index promises it.                                         *)

\* Only a change of a repository moves the log, and only a loop's write the
\* index.
LEMMA IndexSteps ==
  ASSUME [Next]_vars
  PROVE  \/ \E r \in Record : Change(r)
         \/ \E c \in Conn : ApplyIndexWrite(c)
         \/ UNCHANGED <<log, deleted, index>>
<1> USE DEF world
<1>1. ASSUME NEW r \in Record, SetFollowed(r) PROVE UNCHANGED <<log, deleted, index>>
  BY <1>1 DEF SetFollowed
<1>2. CASE Tick \/ Midnight \/ StartFetch \/ StartAlarm \/ Restart
  BY <1>2 DEF Tick, Midnight, StartFetch, StartAlarm, Restart
<1>3. ASSUME NEW h \in Handler, Handle(h) \/ FailHandler(h)
      PROVE  UNCHANGED <<log, deleted, index>>
  BY <1>3, Zenon DEF Handle, LoadCheckpoint, LoadFollowedDids, Connect, MarkRunning, Finish,
                     WatchdogTick, ResetDailyBudget, FailHandler
<1>4. ASSUME NEW c \in Conn, ReadLoop(c), ~ApplyIndexWrite(c)
      PROVE  UNCHANGED <<log, deleted, index>>
  BY <1>4 DEF ReadLoop, Receive, FetchRecord, FlushLoad, FlushWrite, RefreshDids, EndLoop
<1>5. ASSUME NEW c \in Conn,
             ReceiveBadFrame(c) \/ FailEvent(c) \/ FailFlush(c) \/ Drop(c)
      PROVE  UNCHANGED <<log, deleted, index>>
  BY <1>5 DEF ReceiveBadFrame, FailEvent, FailFlush, Drop
<1>6. CASE UNCHANGED vars
  BY <1>6 DEF vars
<1>7. QED BY <1>1, <1>2, <1>3, <1>4, <1>5, <1>6, Zenon DEF Next

\* A change of a repository is one in Index.
LEMMA ChangeIsChange ==
  ASSUME TypeOK, Bounds, NEW r \in Record, Change(r)
  PROVE  Promise!Change(r)
<1>1. log \in Seq(Record) /\ LogLength \in Nat
  BY Typed
<1>2. /\ log' = Append(log, r)
      /\ deleted' \in {deleted, deleted \cup {Len(log) + 1}}
      /\ UNCHANGED <<index, touched, overlapped, got, failed, origin, checkpoint>>
  BY DEF Change, LogLength, history
<1>3. \A i \in got : log'[i] = log[i]
  <2>1. got \subseteq 1..Len(log)
    BY DEF Bounds, LogLength
  <2>2. QED BY <1>1, <1>2, <2>1, AppendProperties
<1>4. Covered' = Covered
  BY <1>2, <1>3 DEF Covered
<1>5. QED BY <1>2, <1>4 DEF Promise!Change

\* A loop's write shows the record as it was fetched, no older than what is
\* shown or covered, or leaves the index as it is.
LEMMA WriteIsShow ==
  ASSUME TypeOK, Bounds, Ahead, Frontier, NEW c \in Conn, ApplyIndexWrite(c)
  PROVE  \/ \E r \in Record : \E i \in 1..Len(log) : Promise!Show(r, i)
         \/ UNCHANGED Promise!vars
<1> DEFINE l == conns[c]
           q == log[l.cursor]
           f == l.fetched
<1>1. /\ l.at = "store" /\ index' = [index EXCEPT ![q] = Written(l, q)]
      /\ UNCHANGED <<log, deleted, touched, overlapped, got, failed, origin, checkpoint>>
  BY DEF ApplyIndexWrite, world, history
<1>2. Covered' = Covered
  BY <1>1 DEF Covered
<1>3. log \in Seq(Record) /\ LogLength \in Nat /\ LogLength = Len(log)
  BY Typed DEF LogLength
<1>4. l.cursor \in 1..LogLength /\ f \in l.cursor..LogLength /\ log[f] = q
  BY <1>1 DEF Bounds
<1>5. q \in Record /\ f \in 1..Len(log) /\ f \in Nat
  BY <1>3, <1>4
<1>6. index \in [Record -> Nat]
  BY DEF TypeOK
<1>7. CASE Written(l, q) = f
  <2>1. ~overlapped => index[q] <= f
    BY <1>1 DEF Ahead
  <2>2. ASSUME ~overlapped, NEW j \in Covered, log[j] = q PROVE j <= f
    <3>1. /\ j \in got /\ j \notin failed /\ log[j] \notin touched
          /\ origin < j /\ j <= checkpoint.last_seq
      BY <2>2 DEF Covered
    <3>2. j \in 1..LogLength
      BY <3>1 DEF Bounds
    <3>3. Settled(j)
      BY <2>2, <3>1, <3>2 DEF Frontier
    <3>4. ~ (j <= origin)
      <4>1. origin \in Nat
        BY DEF TypeOK
      <4>2. QED BY <3>1, <3>2, <4>1
    <3>5. QED BY <1>1, <2>2, <3>1, <3>3, <3>4 DEF Settled
  <2>3. Promise!Show(q, f)
    BY <1>1, <1>2, <1>4, <1>5, <1>7, <2>1, <2>2 DEF Promise!Show
  <2> HIDE DEF q, f, l
  <2>4. QED BY <1>5, <2>3
<1>8. CASE Written(l, q) # f
  <2>1. Written(l, q) = index[q]
    BY <1>8 DEF Written
  <2>2. index' = index
    BY <1>1, <1>5, <1>6, <2>1
  <2>3. QED BY <1>1, <1>2, <2>2 DEF Promise!vars
<1>9. QED BY <1>7, <1>8

\* What else the object does covers more changes, all of them shown, or gives
\* some up, or breaks the promise off.
LEMMA RestCovers ==
  ASSUME TypeOK, Bounds', CursorMeansStored', overlapped => overlapped',
         UNCHANGED <<log, deleted, index>>
  PROVE  Promise!Cover \/ Promise!BreakOff \/ UNCHANGED Promise!vars
<1>1. CASE overlapped
  BY <1>1 DEF Covered, Promise!vars
<1>2. CASE ~overlapped /\ overlapped'
  BY <1>2 DEF Covered, Promise!BreakOff
<1>3. CASE ~overlapped /\ ~overlapped'
  <2>1. /\ Covered' \subseteq got'
        /\ \A i \in Covered' : /\ i \in got' \ failed' /\ log[i] \notin touched'
                               /\ origin' < i /\ i <= checkpoint'.last_seq
    BY <1>3 DEF Covered
  <2>2. Covered' \subseteq 1..Len(log)
    <3>1. got' \subseteq 1..Len(log)
      BY DEF Bounds, LogLength
    <3>2. QED BY <2>1, <3>1
  <2>3. ASSUME NEW i \in Covered' PROVE Promise!Reflects(log[i], i)
    <3>1. Shows(log[i], i)'
      BY <1>3, <2>1, <2>3 DEF CursorMeansStored
    <3>2. \E j \in i..Len(log) :
            /\ log[j] = log[i]
            /\ \/ index[log[i]] = j
               \/ log[i] \in Edge /\ Present(index[log[i]])' /\ Present(j)'
      BY <3>1 DEF Shows, LogLength
    <3>3. \A k : Present(k)' => Promise!There(k)
      BY DEF Present, Promise!There
    <3>4. QED BY <3>2, <3>3 DEF Promise!Reflects
  <2>4. QED BY <1>3, <2>2, <2>3 DEF Promise!Cover
<1>4. QED BY <1>1, <1>2, <1>3

\* The consumer keeps the promise of Index: with one loop at a time, a record
\* is shown as some change left it, later changes replace earlier ones, and what
\* is behind the cursor is shown, whatever is replayed, drops, fails or restarts.
THEOREM FirehoseKeepsIndex == Spec => IndexIsKept
<1>1. Init => Promise!Init
  <2> SUFFICES ASSUME Init PROVE Promise!Init
    OBVIOUS
  <2>1. Covered = {}
    BY DEF Init, Covered
  <2>2. QED BY <2>1 DEF Init, Promise!Init
<1>2. FirehoseInv /\ FirehoseInv' /\ CursorMeansStored' /\ [Next]_vars
        => [Promise!Next]_(Promise!vars)
  <2> SUFFICES ASSUME FirehoseInv, FirehoseInv', CursorMeansStored', [Next]_vars
               PROVE  Promise!Next \/ UNCHANGED Promise!vars
    OBVIOUS
  <2>1. TypeOK /\ Held /\ Bounds /\ Ahead /\ Frontier /\ Bounds'
    BY Zenon DEF FirehoseInv, Structure
  <2>2. overlapped => overlapped'
    BY <2>1, OverlapStays
  <2>3. ASSUME NEW r \in Record, Change(r) PROVE Promise!Next
    BY <2>1, <2>3, ChangeIsChange DEF Promise!Next
  <2>4. ASSUME NEW c \in Conn, ApplyIndexWrite(c) PROVE Promise!Next \/ UNCHANGED Promise!vars
    BY <2>1, <2>4, WriteIsShow DEF Promise!Next
  <2>5. CASE UNCHANGED <<log, deleted, index>>
    BY <2>1, <2>2, <2>5, RestCovers DEF Promise!Next
  <2>6. QED BY <2>3, <2>4, <2>5, IndexSteps
<1>3. QED
  BY <1>1, <1>2, FirehoseInvariant, FirehoseCursorMeansStored,
     PTL DEF Spec, IndexIsKept, Promise!Spec


=============================================================================
