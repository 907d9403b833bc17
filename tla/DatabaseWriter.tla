--------------------------- MODULE DatabaseWriter ----------------------------
(***************************************************************************)
(* The buffered candle writer of one symbol (pipeline/database_writer.py)  *)
(* and the three tasks that use it: the ticker, which writes a candle and  *)
(* flushes, the writer's own flush loop, and stop().  All of them hold the *)
(* asyncio lock over a flush, whose awaits on the database are where the   *)
(* other tasks run and where a task can be cancelled.                      *)
(*                                                                         *)
(* A candle is the second it is for and its version, a number that grows   *)
(* with every candle written.  A batch insert runs in one transaction: it  *)
(* is stored as a whole or not at all.                                     *)
(***************************************************************************)
EXTENDS Integers, Sequences

CONSTANTS
  Seconds,      (* the seconds candles are written for                     *)
  MaxVersion,   (* bound: candles written                                  *)
  BatchSize     (* BATCH_SIZE: length of the buffer that forces a flush    *)

ASSUME MaxVersionAssumption == MaxVersion \in Nat
ASSUME BatchSizeAssumption == BatchSize \in Nat \ {0}

VARIABLES
  buffer,    (* _buffer                                                    *)
  flushing,  (* the task in _flush_batch, or "none"                        *)
  ticker,    (* the ticker: between candles, in write_candle, after it     *)
  loop,      (* _flush_task: running or cancelled                          *)
  stopping,  (* stop(): not called, before its flush, returned             *)
  table,     (* candles_1s: the version stored for each second, 0 if none  *)
  written    (* history: the candles accepted by write_candle              *)

vars == <<buffer, flushing, ticker, loop, stopping, table, written>>

Candle   == [time : Seconds, version : 1 .. MaxVersion]
Versions == DOMAIN written
-----------------------------------------------------------------------------
(* executemany of INSERT ... ON CONFLICT DO UPDATE: the last record of a   *)
(* second is the one that stays.                                           *)
Upsert(rows, tab) ==
  [s \in Seconds |->
     LET of == {i \in DOMAIN rows : rows[i].time = s}
     IN  IF of = {} THEN tab[s]
         ELSE rows[CHOOSE i \in of : \A j \in of : j <= i].version]

(* write_candle: append, and flush at once when the buffer is full.        *)
WriteCandle ==
  /\ ticker = "idle" /\ flushing = "none"
  /\ Len(written) < MaxVersion
  /\ \E s \in Seconds :
       LET c == [time |-> s, version |-> Len(written) + 1]
       IN  /\ buffer' = Append(buffer, c)
           /\ written' = Append(written, c)
  /\ IF Len(buffer') >= BatchSize
       THEN flushing' = "ticker" /\ ticker' = "writing"
       ELSE ticker' = "written" /\ UNCHANGED flushing
  /\ UNCHANGED <<loop, stopping, table>>

(* flush_symbol, which the ticker calls after every write_candle.          *)
FlushSymbol ==
  /\ ticker = "written" /\ flushing = "none"
  /\ IF buffer = <<>>
       THEN ticker' = "idle" /\ UNCHANGED flushing
       ELSE flushing' = "ticker" /\ ticker' = "flushing"
  /\ UNCHANGED <<buffer, loop, stopping, table, written>>

(* _flush_loop, every FLUSH_INTERVAL.                                      *)
LoopFlush ==
  /\ loop = "running" /\ flushing = "none"
  /\ buffer # <<>>
  /\ flushing' = "loop"
  /\ UNCHANGED <<buffer, ticker, loop, stopping, table, written>>
-----------------------------------------------------------------------------
(* Where the flushing task continues.                                      *)
FlushReturns ==
  /\ flushing' = "none"
  /\ ticker' = IF flushing # "ticker" THEN ticker
               ELSE IF ticker = "writing" THEN "written" ELSE "idle"
  /\ stopping' = IF flushing = "stop" THEN "returned" ELSE stopping
  /\ UNCHANGED <<loop, written>>

FlushStoresPopsLast ==
  /\ flushing # "none"
  /\ table' = Upsert(buffer, table)
  /\ buffer' = SubSeq(buffer, 1, Len(buffer) - 1)
  /\ FlushReturns

FlushStores ==
  /\ flushing # "none"
  /\ table' = Upsert(buffer, table)
  /\ buffer' = <<>>
  /\ FlushReturns

FlushFailsClearing ==
  /\ flushing # "none"
  /\ buffer' = <<>>
  /\ FlushReturns
  /\ UNCHANGED table

(* The exception is logged and the buffer kept for the next flush.         *)
FlushFails ==
  /\ flushing # "none"
  /\ FlushReturns
  /\ UNCHANGED <<buffer, table>>
-----------------------------------------------------------------------------
InterruptHoldsLock(task) == UNCHANGED <<flushing, table>>

(* Cancelled in a flush, a task releases the lock; whether the transaction *)
(* was committed by then is not known, and the buffer stays.               *)
Interrupt(task) ==
  IF flushing = task
    THEN /\ flushing' = "none"
         /\ table' \in {table, Upsert(buffer, table)}
    ELSE UNCHANGED <<flushing, table>>

(* TradePipeline.stop() cancels the ticker before it stops the writer.     *)
CancelTicker ==
  /\ ticker # "cancelled"
  /\ ticker' = "cancelled"
  /\ Interrupt("ticker")
  /\ UNCHANGED <<buffer, loop, stopping, written>>

CancelLoop ==
  /\ ticker = "cancelled" /\ loop = "running"
  /\ loop' = "cancelled" /\ stopping' = "flush"
  /\ Interrupt("loop")
  /\ UNCHANGED <<buffer, ticker, written>>

StopFlush ==
  /\ stopping = "flush" /\ flushing = "none"
  /\ IF buffer = <<>>
       THEN stopping' = "returned" /\ UNCHANGED flushing
       ELSE flushing' = "stop" /\ UNCHANGED stopping
  /\ UNCHANGED <<buffer, ticker, loop, table, written>>
-----------------------------------------------------------------------------
Init ==
  /\ buffer = <<>> /\ flushing = "none"
  /\ ticker = "idle" /\ loop = "running" /\ stopping = "no"
  /\ table = [s \in Seconds |-> 0]
  /\ written = <<>>

Next ==
  \/ WriteCandle \/ FlushSymbol \/ LoopFlush
  \/ FlushStores \/ FlushFails
  \/ CancelTicker \/ CancelLoop \/ StopFlush

Spec == Init /\ [][Next]_vars

-----------------------------------------------------------------------------
TypeOK ==
  /\ buffer \in Seq(Candle)
  /\ flushing \in {"none", "ticker", "loop", "stop"}
  /\ ticker \in {"idle", "writing", "written", "flushing", "cancelled"}
  /\ loop \in {"running", "cancelled"}
  /\ stopping \in {"no", "flush", "returned"}
  /\ table \in [Seconds -> 0 .. MaxVersion]
  /\ written \in Seq(Candle)

Buffered(v) == \E i \in DOMAIN buffer : buffer[i] = written[v]
Stored(v)   == table[written[v].time] >= v

(* A candle accepted by write_candle is in the buffer until it, or a newer *)
(* candle of its second, is stored, whatever fails or is cancelled.        *)
NoCandleDropped == \A v \in Versions : Buffered(v) \/ Stored(v)

(* A stored candle is never replaced by an older one of its second, though *)
(* a batch whose outcome is unknown is written again.                      *)
LatestVersionStays ==
  [][\A s \in Seconds : table'[s] >= table[s]]_table

(* Every candle accepted is stored in the end, by the next successful      *)
(* flush of whichever task makes it, unless the writer is stopped.         *)
StoredOrStopped(v) == v \in Versions /\ (Stored(v) \/ stopping = "returned")

EventuallyStored ==
  \A v \in 1 .. MaxVersion : (v \in Versions) ~> StoredOrStopped(v)
=============================================================================
