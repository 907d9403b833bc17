----------------------------- MODULE AuditTrail ------------------------------
(***************************************************************************)
(* AuditLogger (application/services/audit_logger.py): events are kept in  *)
(* memory, copied into the table audit_log from time to time and at the    *)
(* end, and, if they are severe, inserted at once as well.  COPY and       *)
(* INSERT are awaited: whoever logs goes on meanwhile.                     *)
(***************************************************************************)
EXTENDS Integers, Sequences, FiniteSets

CONSTANTS
  MaxEvents,  \* bound: events logged
  MaxMemory   \* max_memory_buffer

AuditAssumption == MaxEvents \in Nat /\ MaxMemory \in Nat \ {0}

VARIABLES
  trail,      \* history: whether each event is severe, by number
  memory,     \* _event_buffer
  audit_log,  \* the rows the table has of each event: 2 for two or more
  singles,    \* the severe events whose INSERT is awaited
  flush,      \* the COPY under way: whose it is and what it copies
  logger,     \* not started, started, in stop(), or stopped
  trimmed,    \* history: events that fell out of a full memory
  overtaken,  \* history: events logged during a COPY
  uncertain   \* history: events of a COPY that broke off

vars == <<trail, memory, audit_log, singles, flush, logger, trimmed, overtaken, uncertain>>

More(n)  == IF n = 2 THEN 2 ELSE n + 1

Events   == DOMAIN trail
NoFlush  == [by |-> "nobody", copies |-> {}]
InMemory == {memory[i] : i \in DOMAIN memory}
-----------------------------------------------------------------------------
(* log(): the oldest events leave a memory that is full.                   *)
Log(severe) ==
  LET e    == Len(trail) + 1
      full == Append(memory, e)
  IN  /\ e <= MaxEvents
      /\ trail' = Append(trail, severe)
      /\ IF Len(full) > MaxMemory
         THEN memory' = Tail(full) /\ trimmed' = trimmed \union {Head(full)}
         ELSE memory' = full /\ UNCHANGED trimmed
      /\ singles' = IF severe THEN singles \union {e} ELSE singles
      /\ overtaken' = IF flush = NoFlush THEN overtaken ELSE overtaken \union {e}
      /\ UNCHANGED <<audit_log, flush, logger, uncertain>>

(* Its callers: only a stop, a kill switch that is set and an order that   *)
(* was rejected or failed are severe.                                      *)
LogStrategyLifecycle       == Log(FALSE)
LogConfigChange            == Log(FALSE)
LogGuardrailBreach         == Log(FALSE)
LogKillSwitch(triggered)   == Log(triggered)
LogEmergencyStop           == Log(TRUE)
LogOrderEvent(subtype)     == Log(subtype \in {"rejected", "error"})
LogLlmRequest              == Log(FALSE)

(* _flush_single_event(): the event stays in memory, too.                  *)
FlushSingleEvent(e) ==
  /\ e \in singles /\ singles' = singles \ {e}
  /\ audit_log' = [audit_log EXCEPT ![e] = More(@)]
  /\ UNCHANGED <<trail, memory, flush, logger, trimmed, overtaken, uncertain>>

FlushSingleFails(e) ==
  /\ e \in singles /\ singles' = singles \ {e}
  /\ UNCHANGED <<trail, memory, audit_log, flush, logger, trimmed, overtaken, uncertain>>
-----------------------------------------------------------------------------
(* start() and _periodic_flush().                                          *)
Start ==
  /\ logger = "new" /\ logger' = "running"
  /\ UNCHANGED <<trail, memory, audit_log, singles, flush, trimmed, overtaken, uncertain>>

Flush(by) ==
  /\ flush = NoFlush /\ memory # <<>>
  /\ flush' = [by |-> by, copies |-> InMemory]

PeriodicFlush ==
  /\ logger = "running" /\ Flush("timer")
  /\ UNCHANGED <<trail, memory, audit_log, singles, logger, trimmed, overtaken, uncertain>>

Copied == audit_log' = [e \in DOMAIN audit_log |->
                          IF e \in flush.copies THEN More(audit_log[e]) ELSE audit_log[e]]

FlushReturns ==
  /\ flush # NoFlush /\ flush' = NoFlush
  /\ logger' = IF flush.by = "stop" THEN "stopped" ELSE logger
  /\ UNCHANGED <<trail, singles, trimmed, overtaken>>

(* _flush_to_db(): the memory is cleared behind the COPY, whatever was     *)
(* added to it meanwhile; if the COPY raises, all of it stays, also if the *)
(* table has it already.                                                   *)
FlushToDb == FlushReturns /\ Copied /\ memory' = <<>> /\ UNCHANGED uncertain

FlushFails ==
  /\ FlushReturns /\ uncertain' = uncertain \union flush.copies
  /\ UNCHANGED memory
  /\ Copied \/ UNCHANGED audit_log

(* stop() cancels the timer, in the middle of its COPY perhaps, and copies *)
(* what is left.                                                           *)
Stop ==
  /\ logger \in {"new", "running"} /\ logger' = "stopping"
  /\ flush' = NoFlush /\ uncertain' = uncertain \union flush.copies
  /\ Copied \/ UNCHANGED audit_log
  /\ UNCHANGED <<trail, memory, singles, trimmed, overtaken>>

FinalFlush ==
  /\ logger = "stopping"
  /\ IF memory = <<>> THEN logger' = "stopped" /\ UNCHANGED flush
     ELSE Flush("stop") /\ UNCHANGED logger
  /\ UNCHANGED <<trail, memory, audit_log, singles, trimmed, overtaken, uncertain>>
-----------------------------------------------------------------------------
Init ==
  /\ trail = <<>> /\ memory = <<>>
  /\ audit_log = [e \in 1 .. MaxEvents |-> 0]
  /\ singles = {} /\ flush = NoFlush /\ logger = "new"
  /\ trimmed = {} /\ overtaken = {} /\ uncertain = {}

Logs == \/ LogStrategyLifecycle \/ LogConfigChange \/ LogGuardrailBreach
        \/ \E triggered \in BOOLEAN : LogKillSwitch(triggered)
        \/ LogEmergencyStop \/ LogLlmRequest
        \/ \E subtype \in {"submitted", "rejected"} : LogOrderEvent(subtype)

Next ==
  \/ Logs
  \/ \E e \in singles : FlushSingleEvent(e) \/ FlushSingleFails(e)
  \/ Start \/ PeriodicFlush \/ FlushToDb \/ FlushFails
  \/ Stop \/ FinalFlush

AuditSpec == Init /\ [][Next]_vars
-----------------------------------------------------------------------------
TypeOK ==
  /\ trail \in Seq(BOOLEAN) /\ Len(trail) <= MaxEvents
  /\ memory \in Seq(Events) /\ Len(memory) <= MaxMemory
  /\ audit_log \in [1 .. MaxEvents -> 0 .. 2]
  /\ {singles, trimmed, overtaken, uncertain} \subseteq SUBSET Events
  /\ flush.by \in {"nobody", "timer", "stop"} /\ flush.copies \subseteq Events
  /\ logger \in {"new", "running", "stopping", "stopped"}

(* An event is in memory or in the table, unless it fell out of a full     *)
(* memory or was logged while a COPY was under way; and the table has it   *)
(* once, unless it is severe or was in a COPY that broke off               *)
(* (audit_logger.py:714).                                                  *)
EventsAreKept ==
  \A e \in Events :
    /\ e \in InMemory \/ audit_log[e] > 0 \/ e \in trimmed \union overtaken
    /\ audit_log[e] > 1 => trail[e] \/ e \in uncertain
=============================================================================
