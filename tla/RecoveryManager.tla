--------------------------- MODULE RecoveryManager ---------------------------
(***************************************************************************)
(* Gap detection and recovery of one symbol's trades: RecoveryManager      *)
(* (pipeline/recovery.py) with the two routines of TradePipeline that      *)
(* drive it, _initial_recovery and _on_trade (pipeline/service.py).        *)
(*                                                                         *)
(* A trade is its aggregate trade id; the exchange numbers trades          *)
(* 1, 2, 3, ...  One asyncio task runs the whole code of a symbol, and pc  *)
(* is the await it is suspended at: a REST request, a write of the         *)
(* persisted state, or the next WebSocket message.  A batch of recovered   *)
(* trades is handed over without an await; its trades are single steps     *)
(* here because the process can be killed between any two of them.         *)
(***************************************************************************)
EXTENDS Integers, Sequences

CONSTANTS
  MaxId,          (* bound: trades the exchange makes                      *)
  MaxStarts,      (* bound: times the pipeline is started                  *)
  PersistEvery,   (* 100: ids at which process_trade persists its state    *)
  BatchLimit      (* 1000: trades in one REST answer                       *)

ASSUME BoundsAssumption == MaxId \in Nat /\ MaxStarts \in Nat
ASSUME PersistEveryAssumption == PersistEvery \in Nat \ {0}
ASSUME BatchLimitAssumption == BatchLimit \in Nat \ {0}

VARIABLES
  latest,      (* the last trade made at the exchange                      *)
  connected,   (* the WebSocket is open                                    *)
  wire,        (* trades received on it and not read yet                   *)
  lastId,      (* _last_trade_id; the persisted one when the task is down  *)
  cursor,      (* pipeline_state.last_trade_id, 0 when there is no row     *)
  pc,          (* where the task is suspended                              *)
  job,         (* the recovery under way: the ids from .. to, and the trade*)
               (* that revealed the gap (0 for the initial recovery)       *)
  batch,       (* the REST answer being handed over: its ids next .. last  *)
  starts,      (* how often the pipeline was started                       *)
  socket,      (* the WebSocket manager: "none" before start() makes it,   *)
               (* "on", or "off" once stop() has told it to end            *)
  closing,     (* stop(): "no", "begun", "writes" when close() has read the*)
               (* id it persists, "done"                                   *)
  closeId,     (* the id close() read                                      *)
  log,         (* history: ids given to the aggregator since the start     *)
  done,        (* history: ids ever given to the aggregator                *)
  base,        (* history: the manager answers for the ids above base      *)
  abandoned,   (* history: ids of gaps whose recovery broke off            *)
  faulty       (* history: a request or a write failed, or the task ended  *)

market  == <<latest, connected, wire>>
stopping == <<socket, closing, closeId>>
history == <<log, done, base, abandoned>>
recVars == <<market, lastId, cursor, pc, job, batch, starts, stopping, history, faulty>>

NoJob   == [from |-> 1, to |-> 0, outer |-> 0]
NoBatch == [next |-> 1, last |-> 0]
Awaits  == {"down", "snapshot", "fetch", "batch", "persist", "finish", "listen"}

Least(a, b) == IF a <= b THEN a ELSE b
-----------------------------------------------------------------------------
(* The exchange and the connection, as websocket_manager.py uses them: the *)
(* socket opens only when the task listens and has read what it received,  *)
(* and not once the manager was told to stop.                              *)
ExchangeTrade ==
  /\ latest < MaxId
  /\ latest' = latest + 1
  /\ wire' = IF connected THEN Append(wire, latest + 1) ELSE wire
  /\ UNCHANGED <<connected, lastId, cursor, pc, job, batch, starts, history, faulty, stopping>>

Connect ==
  /\ pc = "listen" /\ socket = "on" /\ ~connected /\ wire = <<>>
  /\ connected' = TRUE
  /\ UNCHANGED <<latest, wire, lastId, cursor, pc, job, batch, starts, history, faulty, stopping>>

Disconnect ==
  /\ connected
  /\ connected' = FALSE
  /\ UNCHANGED <<latest, wire, lastId, cursor, pc, job, batch, starts, history, faulty, stopping>>
-----------------------------------------------------------------------------
(* initialize(): the persisted id becomes the last one.                    *)
Start ==
  /\ pc = "down"
  /\ starts < MaxStarts
  /\ starts' = starts + 1
  /\ lastId' = cursor
  /\ pc' = "snapshot"
  /\ socket' = "none" /\ closing' = "no" /\ closeId' = 0
  /\ log' = <<>>
  /\ base' = IF cursor = 0 THEN 0 ELSE base
  /\ UNCHANGED <<market, cursor, job, batch, done, abandoned, faulty>>

(* _initial_recovery asks for the latest trade, unless nothing was ever    *)
(* persisted: up to there it recovers, before the WebSocket is opened.     *)
SnapshotLatest ==
  /\ pc = "snapshot"
  /\ IF lastId # 0 /\ latest > lastId
       THEN /\ job' = [from |-> lastId + 1, to |-> latest, outer |-> 0]
            /\ pc' = "fetch"
       ELSE pc' = "listen" /\ UNCHANGED job
  /\ UNCHANGED <<market, lastId, cursor, batch, starts, history, faulty, stopping>>

SnapshotFails ==
  /\ pc = "snapshot" /\ lastId # 0
  /\ pc' = "listen"
  /\ faulty' = TRUE
  /\ UNCHANGED <<market, lastId, cursor, job, batch, starts, history, stopping>>

Initial == job # NoJob /\ job.outer = 0

(* The exchange answers with consecutive trades.  Only the initial recovery*)
(* asks for no more of them than it needs.                                 *)
FetchBatch ==
  /\ pc = "fetch"
  /\ LET most == Least(job.from + BatchLimit - 1,
                       IF Initial THEN job.to ELSE latest)
     IN  \E last \in job.from .. most :
           batch' = [next |-> job.from, last |-> last]
  /\ pc' = "batch"
  /\ UNCHANGED <<market, lastId, cursor, job, starts, history, faulty, stopping>>

(* An error and an empty answer look the same: recovery breaks off.        *)
FetchFails ==
  /\ pc = "fetch"
  /\ IF Initial
       THEN pc' = "listen" /\ job' = NoJob /\ UNCHANGED abandoned
       ELSE /\ pc' = "finish"
            /\ abandoned' = abandoned \union (job.from .. job.to)
            /\ UNCHANGED job
  /\ faulty' = TRUE
  /\ UNCHANGED <<market, lastId, cursor, batch, starts, log, done, base, stopping>>
-----------------------------------------------------------------------------
Aggregate(id) ==
  /\ log' = Append(log, id)
  /\ done' = done \union {id}

(* The tail of process_trade and of _on_trade: a trade is the last one     *)
(* processed, and given to the aggregator after the state was persisted if *)
(* its id is due for that.                                                 *)
Accept(id, resume) ==
  /\ lastId' = id
  /\ base' = IF lastId = 0 THEN id - 1 ELSE base
  /\ IF id % PersistEvery = 0
       THEN pc' = "persist" /\ UNCHANGED <<log, done>>
       ELSE pc' = resume /\ Aggregate(id)

(* One recovered trade goes through _on_trade, up to the end of the gap.   *)
HandOver ==
  /\ pc = "batch"
  /\ batch.next <= batch.last /\ batch.next <= job.to
  /\ Accept(batch.next, "batch")
  /\ batch' = [batch EXCEPT !.next = @ + 1]
  /\ UNCHANGED <<market, cursor, job, starts, abandoned, faulty, stopping>>

EndBatchStuck ==
  /\ pc = "batch"
  /\ batch.next > Least(batch.last, job.to)
  /\ batch' = NoBatch
  /\ IF batch.last < job.to
       THEN pc' = "fetch" /\ UNCHANGED job
       ELSE IF Initial
              THEN pc' = "listen" /\ job' = NoJob
              ELSE pc' = "finish" /\ UNCHANGED job
  /\ UNCHANGED <<market, lastId, cursor, starts, history, faulty, stopping>>

(* After a batch the next one is asked for, until the gap is closed.       *)
EndBatch ==
  /\ pc = "batch"
  /\ batch.next > Least(batch.last, job.to)
  /\ batch' = NoBatch
  /\ IF batch.last < job.to
       THEN pc' = "fetch" /\ job' = [job EXCEPT !.from = batch.last + 1]
       ELSE IF Initial
              THEN pc' = "listen" /\ job' = NoJob
              ELSE pc' = "finish" /\ UNCHANGED job
  /\ UNCHANGED <<market, lastId, cursor, starts, history, faulty, stopping>>

FinishGapKeepsId ==
  /\ pc = "finish"
  /\ cursor' = lastId
  /\ job' = NoJob
  /\ pc' = "listen" /\ Aggregate(job.outer)
  /\ UNCHANGED <<market, lastId, batch, starts, base, abandoned, faulty, stopping>>

(* The finally clause of _recover_gap persists; then the trade that had    *)
(* revealed the gap is accepted in its turn.                               *)
FinishGap ==
  /\ pc = "finish"
  /\ cursor' = lastId
  /\ job' = NoJob
  /\ Accept(job.outer, "listen")
  /\ UNCHANGED <<market, batch, starts, abandoned, faulty, stopping>>

(* If it cannot persist, the exception leaves process_trade and _on_trade  *)
(* drops that trade, with _last_trade_id still before it.                  *)
FinishGapFails ==
  /\ pc = "finish"
  /\ job' = NoJob
  /\ pc' = "listen"
  /\ faulty' = TRUE
  /\ UNCHANGED <<market, lastId, cursor, batch, starts, history, stopping>>

(* _persist_state inside process_trade.                                    *)
Resume == IF job = NoJob THEN "listen" ELSE "batch"

PersistTrade ==
  /\ pc = "persist"
  /\ cursor' = lastId
  /\ Aggregate(lastId)
  /\ pc' = Resume
  /\ UNCHANGED <<market, lastId, job, batch, starts, base, abandoned, faulty, stopping>>

PersistTradeFails ==
  /\ pc = "persist"
  /\ pc' = Resume
  /\ faulty' = TRUE
  /\ UNCHANGED <<market, lastId, cursor, job, batch, starts, history, stopping>>
-----------------------------------------------------------------------------
IsGapLate(id) == lastId > 0 /\ id > lastId + 2

(* A message from the WebSocket: a jump of the ids starts a recovery.      *)
IsGap(id) == lastId > 0 /\ id > lastId + 1

Receive ==
  /\ pc = "listen" /\ wire # <<>>
  /\ wire' = Tail(wire)
  /\ LET id == Head(wire)
     IN  IF IsGap(id)
           THEN /\ job' = [from |-> lastId + 1, to |-> id - 1, outer |-> id]
                /\ pc' = "fetch"
                /\ UNCHANGED <<lastId, log, done, base>>
           ELSE Accept(id, "listen") /\ UNCHANGED job
  /\ UNCHANGED <<latest, connected, cursor, batch, starts, abandoned, faulty, stopping>>

(* start() goes on behind the initial recovery, and makes the socket.      *)
OpenSocket ==
  /\ pc = "listen" /\ socket = "none"
  /\ socket' = "on"
  /\ UNCHANGED <<market, lastId, cursor, pc, job, batch, starts, history, faulty, closing, closeId>>

-----------------------------------------------------------------------------
(* stop(), in a task of its own: it ends the socket that start() has made  *)
(* by then, and with it the reading of messages.  The task of the feed goes*)
(* on with what it has begun, or makes its socket later.                   *)
StopBegins ==
  /\ pc \notin {"down", "batch"} /\ closing = "no"
  /\ closing' = "begun"
  /\ IF socket = "none"
       THEN UNCHANGED <<socket, connected, wire>>
       ELSE socket' = "off" /\ connected' = FALSE /\ wire' = <<>>
  /\ UNCHANGED <<latest, lastId, cursor, pc, job, batch, starts, history, faulty, closeId>>

(* close() persists the state: the id is read here, behind one await,      *)
(* and written behind another, on a connection of its own.                 *)
CloseReads ==
  /\ pc \notin {"down", "batch"} /\ closing = "begun"
  /\ closing' = "writes" /\ closeId' = lastId
  /\ UNCHANGED <<market, lastId, cursor, pc, job, batch, starts, history, faulty, socket>>

CloseWrites ==
  /\ pc # "down" /\ closing = "writes"
  /\ closing' = "done" /\ closeId' = 0
  /\ cursor' = closeId
  /\ UNCHANGED <<market, lastId, pc, job, batch, starts, history, faulty, socket>>

(* A part before close() raises, or its reads or its write do.             *)
CloseFails ==
  /\ pc # "down" /\ closing = "writes"
  /\ closing' = "done" /\ closeId' = 0
  /\ UNCHANGED <<market, lastId, cursor, pc, job, batch, starts, history, faulty, socket>>

(* Memory and socket are gone.                                             *)
Gone(persisted) ==
  /\ pc' = "down"
  /\ cursor' = persisted
  /\ lastId' = persisted
  /\ job' = NoJob /\ batch' = NoBatch
  /\ connected' = FALSE /\ wire' = <<>>
  /\ socket' = "none" /\ closing' = "no" /\ closeId' = 0
  /\ faulty' = TRUE
  /\ UNCHANGED <<latest, starts, history>>

(* What may be persisted when the task of the feed is cancelled at its     *)
(* await: a write under way may be committed, and a recovery persists in   *)
(* its finally clause.                                                     *)
Cancelled ==
  {cursor} \union IF pc \in {"persist", "finish"} \/ (job # NoJob /\ ~Initial)
                    THEN {lastId} ELSE {}

(* stop() over, stop_pipeline() cancels the task.                          *)
Stop ==
  /\ pc \notin {"down", "batch"} /\ closing = "done"
  /\ \E id \in Cancelled : Gone(id)

(* Ctrl-C, or an error: the task is cancelled first, and stops the         *)
(* pipeline itself if it had got to the socket.                            *)
Interrupt ==
  /\ pc \notin {"down", "batch"} /\ closing = "no"
  /\ \E id \in Cancelled \union (IF socket = "none" THEN {} ELSE {lastId}) : Gone(id)

(* The process is killed.                                                  *)
Crash ==
  /\ pc # "down"
  /\ Gone(cursor)
-----------------------------------------------------------------------------
(* A first start with no pipeline_state row, or a restart after id 1.      *)
RecoveryInit ==
  /\ cursor \in {0, 1}
  /\ latest \in cursor .. MaxId
  /\ lastId = cursor /\ base = cursor
  /\ connected = FALSE /\ wire = <<>>
  /\ pc = "down" /\ job = NoJob /\ batch = NoBatch
  /\ starts = 0
  /\ socket = "none" /\ closing = "no" /\ closeId = 0
  /\ log = <<>> /\ done = {} /\ abandoned = {} /\ faulty = FALSE

Recover ==
  \/ SnapshotLatest \/ SnapshotFails
  \/ FetchBatch \/ FetchFails
  \/ HandOver \/ EndBatch
  \/ FinishGap \/ FinishGapFails
  \/ PersistTrade \/ PersistTradeFails

RecoveryNext ==
  \/ ExchangeTrade \/ Connect \/ Disconnect
  \/ Start \/ Recover \/ OpenSocket \/ Receive
  \/ StopBegins \/ CloseReads \/ CloseWrites \/ CloseFails
  \/ Stop \/ Interrupt \/ Crash

RecoverySpec == RecoveryInit /\ [][RecoveryNext]_recVars

(* A request is answered or fails (aiohttp and asyncpg time out), and the  *)
(* event loop resumes a task whose await is over.                          *)
RecoveryLive == RecoverySpec /\ WF_recVars(Recover) /\ WF_recVars(Receive)
-----------------------------------------------------------------------------
Ids == 1 .. MaxId

RecoveryTypeOK ==
  /\ latest \in Nat /\ connected \in BOOLEAN /\ wire \in Seq(Nat \ {0})
  /\ lastId \in Nat /\ cursor \in Nat /\ starts \in Nat
  /\ pc \in Awaits
  /\ job \in [from : Nat \ {0}, to : Nat, outer : Nat]
  /\ batch \in [next : Nat \ {0}, last : Nat]
  /\ socket \in {"none", "on", "off"} /\ closing \in {"no", "begun", "writes", "done"}
  /\ closeId \in Nat
  /\ log \in Seq(Nat \ {0}) /\ done \subseteq Nat \ {0}
  /\ base \in Nat /\ abandoned \subseteq Nat \ {0} /\ faulty \in BOOLEAN

(* Ids the manager took for processed and never gave to the aggregator.    *)
InHand(id) == pc = "persist" /\ id = lastId
Missing == {id \in base + 1 .. lastId : id \notin done /\ ~InHand(id)}

(* With no fault but lost connections, every id up to _last_trade_id has   *)
(* reached the aggregator or is about to.                                  *)
NothingMissing == ~faulty => Missing = {}

(* Whatever fails and whenever the process dies, an id is lost only in a   *)
(* gap whose recovery broke off, or at an id due for persisting.           *)
LossOnlyAtCheckpoint ==
  \A id \in Missing : id \in abandoned \/ id % PersistEvery = 0

(* Whatever becomes of requests, writes and the process, an id that never  *)
(* reached the aggregator is one of those.                                 *)
LossesAreExplained == NothingMissing /\ LossOnlyAtCheckpoint

(* The persisted id goes back in one case only: the write of close() lands *)
(* behind a newer one of the feed, which went on since close() read its id.*)
CursorNeverRegresses ==
  [][\/ cursor' >= cursor
     \/ closing = "writes" /\ closing' = "done" /\ cursor' = closeId /\ closeId < lastId]_cursor

(* A recovery ends, however short the answers and whatever fails.          *)
RecoveryEnds == (job # NoJob) ~> (job = NoJob)

(* A recovery makes its way: its writes and those of the stream take the   *)
(* persisted id forward only, and the gap is left in the end.              *)
RecoveryAdvances == CursorNeverRegresses /\ RecoveryEnds

(* The trades given to the aggregator are a feed without duplicates, and   *)
(* without holes until a request or a write fails or the process ends.     *)
Feed == INSTANCE TradeFeed WITH feed <- log, lossy <- faulty
ImplementsFeed == Feed!Spec
=============================================================================
