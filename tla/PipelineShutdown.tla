-------------------------- MODULE PipelineShutdown ---------------------------
(***************************************************************************)
(* One TradePipeline from start() to the end of stop()                     *)
(* (pipeline/service.py), composed of its WebSocket manager and the writer *)
(* of one symbol, and of PipelineManager.stop_pipeline, which stops it for *)
(* an API client.                                                          *)
(*                                                                         *)
(* stop() tears the parts down one after another, and awaits each: the     *)
(* socket, the ticker, the writer.  Meanwhile start() goes on from         *)
(* wherever it is: it may still be recovering, so that the socket and the  *)
(* ticker do not exist yet, or the socket may be connecting.  The client   *)
(* may lose patience and call again, and Ctrl-C cancels start(), which     *)
(* then calls stop() itself.                                               *)
(***************************************************************************)
EXTENDS WebSocketManager, DatabaseWriter

VARIABLES
  alive,      (* TradePipeline._running                                    *)
  main,       (* start(): before the socket, in it, over                   *)
  stage,      (* the part stop() takes down next                           *)
  stopper,    (* who is in stop(): a client's call, or start() itself      *)
  registered, (* PipelineManager knows the pipeline                        *)
  caught,     (* history: stop() came while start() was not reading         *)
  unflushed   (* history: the last flush failed                            *)

writerVars   == vars
controlVars  == <<alive, main, stage, stopper, registered, caught, unflushed>>
pipelineVars == <<socketVars, writerVars, controlVars>>
-----------------------------------------------------------------------------
(* start(): after the recovery the manager of the socket is made and       *)
(* started, and the ticker, which ends at once in a pipeline that was      *)
(* stopped.                                                                *)
Prepared ==
  /\ main = "preparing"
  /\ main' = "socket"
  /\ UNCHANGED <<socketVars, writerVars, alive, stage, stopper, registered, caught, unflushed>>

(* An error before that ends start() without stop(): _running stays True.  *)
PrepareFails ==
  /\ main = "preparing"
  /\ main' = "over"
  /\ UNCHANGED <<socketVars, writerVars, alive, stage, stopper, registered, caught, unflushed>>

(* When the manager's start() returns, so does the pipeline's: the stop()  *)
(* in its finally finds the pipeline stopped.                              *)
SocketReturns ==
  /\ main = "socket" /\ pc = "ended" /\ stopper = "client"
  /\ main' = "over"
  /\ UNCHANGED <<socketVars, writerVars, alive, stage, stopper, registered, caught, unflushed>>

(* While start() waits in the socket, and the writer's tasks run.          *)
SocketStep ==
  /\ main = "socket"
  /\ Succeed \/ GiveError \/ Read \/ Wait \/ ServerCloses
  /\ UNCHANGED <<writerVars, controlVars>>

WriterStep ==
  /\ \/ main = "socket" /\ alive /\ WriteCandle
     \/ FlushSymbol \/ LoopFlush
     \/ FlushStores \/ FlushFails
  /\ unflushed' = IF flushing' = "none" /\ flushing # "none" THEN buffer' # <<>> ELSE unflushed
  /\ UNCHANGED <<socketVars, alive, main, stage, stopper, registered, caught>>
-----------------------------------------------------------------------------
(* stop(), first part: the socket, if there is one.                        *)
BeginStop ==
  /\ alive
  /\ alive' = FALSE
  /\ IF main = "socket" THEN StopSocket ELSE UNCHANGED socketVars
  /\ caught' = (main = "preparing" \/ pc # "read")
  /\ stage' = "ticker"
  /\ UNCHANGED <<writerVars, main, registered, unflushed>>

(* stop_pipeline calls it for a client ...                                 *)
ClientStops ==
  /\ registered
  /\ BeginStop
  /\ stopper' = "client"

(* ... and start() itself, when it is cancelled while the socket runs.     *)
Interrupted ==
  /\ main = "socket" /\ alive
  /\ alive' = FALSE
  /\ main' = "finally" /\ pc' = "ended"
  /\ running' = FALSE /\ open' = open \ {ws}
  /\ stage' = "ticker" /\ stopper' = "start"
  /\ UNCHANGED <<ws, opened, replaced, delay, failures, writerVars, registered, caught,
                 unflushed>>

StopTicker ==
  /\ stage = "ticker"
  /\ IF ticker = "cancelled" THEN UNCHANGED writerVars ELSE CancelTicker
  /\ stage' = "loop"
  /\ UNCHANGED <<socketVars, alive, main, stopper, registered, caught, unflushed>>

StopLoop ==
  /\ stage = "loop"
  /\ CancelLoop
  /\ stage' = "flush"
  /\ UNCHANGED <<socketVars, alive, main, stopper, registered, caught, unflushed>>

StopWriter ==
  /\ stage = "flush"
  /\ StopFlush
  /\ UNCHANGED <<socketVars, controlVars>>

ForgetOnly ==
  /\ registered' = FALSE
  /\ UNCHANGED <<main, pc>>

(* stop_pipeline cancels the task of start(), at whatever it awaits, and   *)
(* forgets the pipeline.                                                   *)
Forget ==
  /\ registered' = FALSE
  /\ main' = "over"
  /\ pc' = IF main = "socket" THEN "ended" ELSE pc

(* After the last part stop_pipeline does so; the stop() of start() is the *)
(* end of its task.                                                        *)
StopEnds ==
  /\ stage = "flush" /\ stopping = "returned"
  /\ stage' = "done"
  /\ IF stopper = "client" THEN Forget
     ELSE main' = "over" /\ UNCHANGED <<pc, registered>>
  /\ UNCHANGED <<running, ws, open, opened, replaced, delay, failures, writerVars, alive,
                 stopper, caught, unflushed>>

(* A second client's stop() returns at once, and the task is cancelled     *)
(* while the first is still taking the parts down.                         *)
SecondStop ==
  /\ registered /\ stopper = "client" /\ stage # "done"
  /\ Forget
  /\ UNCHANGED <<running, ws, open, opened, replaced, delay, failures, writerVars, alive,
                 stage, stopper, caught, unflushed>>
-----------------------------------------------------------------------------
ShutdownInit ==
  /\ SocketInit /\ Init
  /\ alive = TRUE /\ main = "preparing"
  /\ stage = "no" /\ stopper = "nobody" /\ registered \in BOOLEAN
  /\ caught = FALSE /\ unflushed = FALSE

Stopping == StopTicker \/ StopLoop \/ StopWriter \/ StopEnds

ShutdownNext ==
  \/ Prepared \/ PrepareFails \/ SocketStep \/ SocketReturns
  \/ WriterStep
  \/ ClientStops \/ Interrupted \/ Stopping \/ SecondStop

ShutdownSpec == ShutdownInit /\ [][ShutdownNext]_pipelineVars

InSocket(A) == main = "socket" /\ A /\ UNCHANGED <<writerVars, controlVars>>

(* Waits end, reads notice a closed connection, and an exchange that is    *)
(* asked again and again accepts in the end.  The writer's timer fires     *)
(* again and again, a flush returns, and one that is tried again and again *)
(* succeeds.  What stop() awaits are cancelled tasks and that flush.       *)
LiveSpec ==
  /\ ShutdownSpec
  /\ WF_pipelineVars(InSocket(Wait)) /\ WF_pipelineVars(InSocket(Read))
  /\ SF_pipelineVars(InSocket(Succeed))
  /\ WF_pipelineVars(WriterStep /\ LoopFlush)
  /\ SF_pipelineVars(WriterStep /\ FlushStores)
  /\ WF_pipelineVars(Stopping)
-----------------------------------------------------------------------------
(* When a stop is over, whatever start() was doing when it came, whoever   *)
(* called it and whoever else did meanwhile: no task is left, every candle *)
(* accepted is stored unless the last flush failed, and of the connections *)
(* ever opened two kinds may be open still: those of _reconnect that the   *)
(* loop's own _connect replaced, and the last one if the stop came while   *)
(* the socket was connecting or between two attempts, which go on to make  *)
(* one.  Nobody closes either.                                             *)
StopLeavesNothing ==
  stage = "done" =>
    /\ main = "over" /\ ticker = "cancelled" /\ loop = "cancelled" /\ flushing = "none"
    /\ buffer = <<>> \/ unflushed
    /\ open \subseteq replaced \union {c \in {ws} : caught}

(* A pipeline that lost its connection reads from one again, as long as it *)
(* is not stopped, and the waits between its attempts double while they    *)
(* fail and are short again after one that succeeds.                       *)
ComesBack ==
  /\ (alive /\ pc = "sleep") ~> (pc = "read" \/ ~alive \/ opened = MaxConnections)
  /\ []BackoffFollowsFailures

(* A stop ends, whatever the writer's lock is held for when it comes.      *)
StopReturns == (stage # "no") ~> (stage = "done")

(* Nothing hangs: candles are stored, lost connections come back, and a    *)
(* stop ends, whichever of the others fails or is cancelled on the way.    *)
NothingHangs == EventuallyStored /\ ComesBack /\ StopReturns
=============================================================================
