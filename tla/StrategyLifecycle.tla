-------------------------- MODULE StrategyLifecycle --------------------------
(***************************************************************************)
(* StrategyLifecycleService (application/services/strategy_lifecycle.py)   *)
(* for one strategy: clients of the API activate, deactivate, pause and    *)
(* resume it, the runner reports its errors, and the process may die.      *)
(*                                                                         *)
(* A coroutine gives way where it awaits the database or the strategy's    *)
(* own initialize(); a step goes from one such point to the next.  What    *)
(* the operations of several clients share is the runtime state, the       *)
(* instance registered with the StrategyManager, and the row of the        *)
(* strategy, whose status is written after the state has changed.  Which   *)
(* version of the configuration is loaded is left out.                     *)
(***************************************************************************)
CONSTANT Clients   \* those that may have an operation under way at a time

VARIABLES
  state,    \* the RuntimeState in _runtime_states, "none" without an entry
  instance, \* the state of the one in the StrategyManager, "none" without one
  status,   \* strategies.status
  audited,  \* to_state of the last lifecycle event saved
  job,      \* the operation each client has under way
  ghost,    \* history: resume() was called in state STOPPED
  alone,    \* history: clients whose operation no other one overlapped
  clean     \* history: the last change ran alone and was saved completely

memory  == <<state, instance>>
history == <<ghost, alone, clean>>
vars    == <<memory, status, audited, job, history>>

None == "none"
RuntimeStates == {"STOPPED", "RUNNING", "PAUSED", "ERROR"}

(* VALID_TRANSITIONS of domain/strategies/runtime.py.                      *)
CanTransition(from, to) ==
  <<from, to>> \in {<<"STOPPED", "RUNNING">>,
                    <<"RUNNING", "PAUSED">>, <<"RUNNING", "STOPPED">>,
                    <<"RUNNING", "ERROR">>,
                    <<"PAUSED", "RUNNING">>, <<"PAUSED", "STOPPED">>,
                    <<"ERROR", "STOPPED">>}

(* The manager keeps instances under their ids, which are strings; the     *)
(* service asks it with the UUID it was called with.                       *)
KeyAdded == "str"
KeyAsked == "uuid"

(* What get_strategy and remove_strategy find for the service.             *)
Found == instance # None /\ KeyAsked = KeyAdded

RemoveInstance == instance' = IF Found THEN None ELSE instance
InstanceTo(to) == instance' = IF Found THEN to ELSE instance

(* Where an operation is; the status it has read, if it asks for it; and   *)
(* the state it has changed to.                                            *)
Job(op, pc, read, to) == [op |-> op, pc |-> pc, read |-> read, to |-> to]

Idle == Job(None, "idle", None, None)

Busy(c) == job[c].pc # "idle"
At(c, op, pc) == job[c].op = op /\ job[c].pc = pc

Goto(c, pc, to) == job' = [job EXCEPT ![c] = Job(job[c].op, pc, None, to)]
Done(c) == job' = [job EXCEPT ![c] = Idle]
-----------------------------------------------------------------------------
(* A call is made and its get_by_id reads the row.  Whatever else is under *)
(* way does not run alone any more.                                        *)
Enter(c, fields) ==
  /\ ~Busy(c)
  /\ job' = [job EXCEPT ![c] = fields]
  /\ alone' = IF \A d \in Clients : ~Busy(d) THEN {c} ELSE {}

Begin(c, op) ==
  /\ Enter(c, Job(op, "check", IF op = "deactivate" THEN status ELSE None, None))
  /\ UNCHANGED <<memory, status, audited, ghost, clean>>

(* The state changes, and the coroutine goes on to save status and event.  *)
Transition(c, to) ==
  /\ state' = to
  /\ Goto(c, "save", to)

(* The cases in which an operation finds nothing to do or refuses.         *)
Returns(c) ==
  /\ Done(c)
  /\ UNCHANGED <<memory, status, audited, history>>
-----------------------------------------------------------------------------
(* activate_strategy creates a missing state and awaits the configuration. *)
ActivateChecks(c) ==
  /\ At(c, "activate", "check")
  /\ state = None \/ CanTransition(state, "RUNNING")
  /\ state' = IF state = None THEN "STOPPED" ELSE state
  /\ Goto(c, "load", None)
  /\ UNCHANGED <<instance, status, audited, history>>

ActivateRefused(c) ==
  /\ At(c, "activate", "check")
  /\ state # None /\ ~CanTransition(state, "RUNNING")
  /\ Returns(c)

(* add_strategy refuses a second instance; the strategy's initialize() may *)
(* take its time.                                                          *)
LoadAgain(c) ==
  /\ At(c, "activate", "load")
  /\ instance' = "STOPPED"
  /\ Goto(c, "init", None)
  /\ UNCHANGED <<state, status, audited, history>>

Load(c) ==
  /\ At(c, "activate", "load")
  /\ instance = None
  /\ instance' = "STOPPED"
  /\ Goto(c, "init", None)
  /\ UNCHANGED <<state, status, audited, history>>

(* The version does not exist, the class cannot be loaded, the database is *)
(* down, or there is an instance already.                                  *)
LoadFails(c) ==
  /\ At(c, "activate", "load")
  /\ Returns(c)

(* start() runs the instance this call created.                            *)
Started(c) ==
  /\ At(c, "activate", "init")
  /\ instance' = "RUNNING"
  /\ Transition(c, "RUNNING")
  /\ UNCHANGED <<status, audited, history>>

(* initialize() or start() raises: remove_strategy, which finds nothing.   *)
StartFails(c) ==
  /\ At(c, "activate", "init")
  /\ RemoveInstance
  /\ Done(c)
  /\ UNCHANGED <<state, status, audited, history>>
-----------------------------------------------------------------------------
Deactivate(c) ==
  /\ At(c, "deactivate", "check")
  /\ state # None /\ CanTransition(state, "STOPPED")
  /\ RemoveInstance
  /\ Transition(c, "STOPPED")
  /\ UNCHANGED <<status, audited, history>>

(* Never activated in this process: a status "active" is corrected, with   *)
(* no event.                                                               *)
DeactivateUnknown(c) ==
  /\ At(c, "deactivate", "check")
  /\ state = None /\ job[c].read = "active"
  /\ Goto(c, "save", None)
  /\ UNCHANGED <<memory, status, audited, history>>

DeactivateDone(c) ==
  /\ At(c, "deactivate", "check")
  /\ state = "STOPPED" \/ (state = None /\ job[c].read # "active")
  /\ Returns(c)

(* pause() and resume() of an instance that is found do not give way.      *)
PauseUnchecked(c) ==
  /\ At(c, "pause", "check")
  /\ state \notin {None, "PAUSED"}
  /\ InstanceTo("PAUSED")
  /\ Transition(c, "PAUSED")
  /\ UNCHANGED <<status, audited, history>>

Pause(c) ==
  /\ At(c, "pause", "check")
  /\ state \notin {None, "PAUSED"} /\ CanTransition(state, "PAUSED")
  /\ InstanceTo("PAUSED")
  /\ Transition(c, "PAUSED")
  /\ UNCHANGED <<status, audited, history>>

PauseReturns(c) ==
  /\ At(c, "pause", "check")
  /\ state \in {None, "PAUSED"} \/ ~CanTransition(state, "PAUSED")
  /\ Returns(c)

(* STOPPED to RUNNING is a valid transition, so resume() makes it, too.    *)
Resume(c) ==
  /\ At(c, "resume", "check")
  /\ state \notin {None, "RUNNING"} /\ CanTransition(state, "RUNNING")
  /\ InstanceTo("RUNNING")
  /\ Transition(c, "RUNNING")
  /\ ghost' = (ghost \/ state = "STOPPED")
  /\ UNCHANGED <<status, audited, alone, clean>>

ResumeReturns(c) ==
  /\ At(c, "resume", "check")
  /\ state \in {None, "RUNNING"} \/ ~CanTransition(state, "RUNNING")
  /\ Returns(c)

(* record_strategy_error pauses what runs and saves the event only.        *)
RecordError(c) ==
  /\ state \in {"RUNNING", "PAUSED"}
  /\ IF state = "RUNNING" THEN InstanceTo("PAUSED") ELSE UNCHANGED instance
  /\ state' = "ERROR"
  /\ Enter(c, Job("error", "event", None, "ERROR"))
  /\ UNCHANGED <<status, audited, ghost, clean>>
-----------------------------------------------------------------------------
StatusOfUnpaused(to) ==
  IF to \in {"RUNNING", "PAUSED"} THEN "active" ELSE "validated"

(* The status an operation saves.                                          *)
StatusOf(to) ==
  IF to = "RUNNING" THEN "active" ELSE IF to = "PAUSED" THEN "paused" ELSE "validated"

Save(c) ==
  /\ job[c].pc = "save"
  /\ job[c].to # None
  /\ status' = StatusOf(job[c].to)
  /\ Goto(c, "event", job[c].to)
  /\ UNCHANGED <<memory, audited, history>>

SaveUnknown(c) ==
  /\ job[c].pc = "save"
  /\ job[c].to = None
  /\ status' = StatusOf(None)
  /\ clean' = (clean /\ c \in alone)
  /\ Done(c)
  /\ UNCHANGED <<memory, audited, ghost, alone>>

(* An error leaves the status as it is, so it makes nothing clean.         *)
SaveEvent(c) ==
  /\ job[c].pc = "event"
  /\ audited' = job[c].to
  /\ clean' = (c \in alone /\ (job[c].op = "error" => clean))
  /\ Done(c)
  /\ UNCHANGED <<memory, status, ghost, alone>>

(* A write raises, done or not: the caller is told, the state stays        *)
(* changed.                                                                *)
SaveFails(c) ==
  /\ job[c].pc = "save"
  /\ status' \in {status, StatusOf(job[c].to)}
  /\ clean' = FALSE
  /\ Done(c)
  /\ UNCHANGED <<memory, audited, ghost, alone>>

EventFails(c) ==
  /\ job[c].pc = "event"
  /\ audited' \in {audited, job[c].to}
  /\ clean' = FALSE
  /\ Done(c)
  /\ UNCHANGED <<memory, status, ghost, alone>>

(* The process dies and is started again.                                  *)
Crash ==
  /\ state' = None /\ instance' = None
  /\ job' = [c \in Clients |-> Idle]
  /\ ghost' = FALSE /\ alone' = {} /\ clean' = FALSE
  /\ UNCHANGED <<status, audited>>

Init ==
  /\ state = None /\ instance = None
  /\ status = "validated" /\ audited = "STOPPED"
  /\ job = [c \in Clients |-> Idle]
  /\ ghost = FALSE /\ alone = {} /\ clean = TRUE

Activating(c) == ActivateChecks(c) \/ ActivateRefused(c) \/ Load(c) \/ LoadFails(c)
                   \/ Started(c) \/ StartFails(c)
Deactivating(c) == Deactivate(c) \/ DeactivateUnknown(c) \/ DeactivateDone(c)
Pausing(c)  == Pause(c) \/ PauseReturns(c)
Resuming(c) == Resume(c) \/ ResumeReturns(c)
Saving(c)   == Save(c) \/ SaveUnknown(c) \/ SaveEvent(c) \/ SaveFails(c) \/ EventFails(c)

Calling(c) ==
  \/ \E op \in {"activate", "deactivate", "pause", "resume"} : Begin(c, op)
  \/ RecordError(c)

Client(c) ==
  \/ Calling(c) \/ Activating(c) \/ Deactivating(c)
  \/ Pausing(c) \/ Resuming(c) \/ Saving(c)

Next == Crash \/ \E c \in Clients : Client(c)

Spec == Init /\ [][Next]_vars
-----------------------------------------------------------------------------
JobType ==
  [pc : {"idle", "check", "load", "init", "save", "event"},
   op : {None, "activate", "deactivate", "pause", "resume", "error"},
   read : {None, "validated", "active", "paused"},
   to : RuntimeStates \union {None}]

TypeOK ==
  /\ state \in RuntimeStates \union {None}
  /\ instance \in {"STOPPED", "RUNNING", "PAUSED", None}
  /\ status \in {"validated", "active", "paused"}
  /\ audited \in RuntimeStates \union {None}
  /\ job \in [Clients -> JobType]
  /\ ghost \in BOOLEAN /\ alone \subseteq Clients /\ clean \in BOOLEAN

(* A strategy that is said to be activated has an instance that was        *)
(* started, whichever operations overtook each other and failed, until one *)
(* that was stopped is resumed (see RunningRuns).                          *)
ActiveHasInstance ==
  ~ghost /\ state \in {"RUNNING", "PAUSED", "ERROR"} => instance = "RUNNING"

(* Of the activations that overlap or follow each other one at most gets   *)
(* past the registry in the life of a process, so no two instances of a    *)
(* strategy are ever fed: none waits for initialize() beside another one,  *)
(* or beside an instance that was started.                                 *)
OneActivation ==
  \A c \in Clients : At(c, "activate", "init") =>
    instance = "STOPPED" /\ \A d \in Clients \ {c} : ~At(d, "activate", "init")

(* What the manager's registry and the lifecycle state have to do with     *)
(* each other.                                                             *)
ManagerAgrees == ActiveHasInstance /\ OneActivation

(* The state moves along VALID_TRANSITIONS, with an operation overtaking   *)
(* another at any await: except for an error in PAUSED, which the table    *)
(* lacks, and for the first activation and a restart of the process.       *)
OnlyValidTransitions ==
  [][ghost' \/ state' = state \/ state' = None
       \/ CanTransition(state, state')
       \/ <<state, state'>> \in {<<None, "STOPPED">>, <<"PAUSED", "ERROR">>}]_vars

(* When no operation is under way and the last one that changed something  *)
(* ran alone and was saved, the row and the last event agree with the state*)
Recorded ==
  clean /\ (\A c \in Clients : ~Busy(c)) =>
    /\ state = "RUNNING" => status = "active"
    /\ state = "PAUSED"  => status = "paused"
    /\ state = "ERROR"   => status # "validated"
    /\ state \in {None, "STOPPED"} => status = "validated"
    /\ state # None => audited = state

(* "Remove from manager (stops tick processing)", says                     *)
(* deactivate_strategy: of a strategy in state STOPPED no instance runs.   *)
DeactivatedRests == state = "STOPPED" => instance # "RUNNING"

(* resume_strategy: "Transitions: PAUSED -> RUNNING".  A strategy in state *)
(* RUNNING has an instance in the manager.                                 *)
RunningRuns == state = "RUNNING" => instance # None
=============================================================================
