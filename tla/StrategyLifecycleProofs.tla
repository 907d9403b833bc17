----------------------- MODULE StrategyLifecycleProofs -----------------------
(***************************************************************************)
(* Theorems about StrategyLifecycle, for any set of clients, and about the *)
(* other two parts of MCStrategies: what the versions of a strategy say,   *)
(* for any set of configurations, and the requests on its rows, for any    *)
(* number of them.                                                         *)
(*                                                                         *)
(* ManagerAgrees is not inductive: that an activation starts the instance  *)
(* it registered, from state STOPPED, depends on what no other operation   *)
(* can have done since add_strategy.  Registration adds that a state       *)
(* exists from then on, and that nothing the service asks the manager for  *)
(* is found (NeverFound), so nobody removes the instance.                  *)
(*                                                                         *)
(* The properties of the requests need what a request still knows of the   *)
(* row it read (KnowsRow), whose prices the statistics are made of between *)
(* the steps of a backtest (OwnStats), and which activation is under way   *)
(* in the life of the strategy it found (Activations).                     *)
(***************************************************************************)
EXTENDS MCStrategies, Sequences, FiniteSetTheorems, WellFoundedInduction, TLAPS

(* What an activation under way may rely on.                               *)
Registration ==
  \A c \in Clients :
    At(c, "activate", "load") \/ At(c, "activate", "init") => state # None

IInv == TypeOK /\ OneActivation /\ Registration /\ ActiveHasInstance

USE DEF None
-----------------------------------------------------------------------------
(* Type correctness.                                                       *)
LEMMA InitTypeOK == Init => TypeOK
<1>1. Idle \in JobType
  BY DEF Idle, Job, JobType, RuntimeStates
<1>3. Init => job \in [Clients -> JobType]
  BY <1>1 DEF Init
<1> QED
  BY <1>3 DEF Init, TypeOK, RuntimeStates

(* The keys differ, so the manager never finds what the service asks for.  *)
LEMMA NeverFound == ~Found
BY DEF Found, KeyAsked, KeyAdded

LEMMA EnterType ==
  ASSUME TypeOK, NEW c \in Clients, NEW fields \in JobType, Enter(c, fields)
  PROVE  job' \in [Clients -> JobType] /\ alone' \subseteq Clients
  BY DEF TypeOK, Enter

LEMMA TransitionType ==
  ASSUME TypeOK, NEW c \in Clients, NEW to \in RuntimeStates, Transition(c, to)
  PROVE  /\ state' \in RuntimeStates
         /\ job' \in [Clients -> JobType]
  BY DEF TypeOK, Transition, Goto, Job, JobType

LEMMA DoneType ==
  ASSUME TypeOK, NEW c \in Clients, Done(c)
  PROVE  job' \in [Clients -> JobType]
  BY DEF TypeOK, Done, Idle, Job, JobType

LEMMA ReturnsType ==
  ASSUME TypeOK, NEW c \in Clients, Returns(c)
  PROVE  TypeOK'
  BY DoneType DEF TypeOK, Returns, memory, history

LEMMA ClientTypeOK ==
  ASSUME TypeOK, NEW c \in Clients, Client(c)
  PROVE  TypeOK'
<1>1. ASSUME NEW op \in {"activate", "deactivate", "pause", "resume"}, Begin(c, op)
      PROVE  TypeOK'
  <2> DEFINE fields == Job(op, "check", IF op = "deactivate" THEN status ELSE None, None)
  <2>1. fields \in JobType
    BY DEF TypeOK, Job, JobType, RuntimeStates
  <2>2. Enter(c, fields)
    BY <1>1 DEF Begin
  <2> QED
    BY <1>1, <2>1, <2>2, EnterType DEF Begin, TypeOK, memory
<1>2. CASE RecordError(c)
  <2> DEFINE fields == Job("error", "event", None, "ERROR")
  <2>1. fields \in JobType
    BY DEF Job, JobType, RuntimeStates
  <2>2. Enter(c, fields)
    BY <1>2 DEF RecordError
  <2>3. instance' \in {"STOPPED", "RUNNING", "PAUSED", None}
    BY <1>2, NeverFound DEF RecordError, InstanceTo, TypeOK
  <2> QED
    BY <1>2, <2>1, <2>2, <2>3, EnterType DEF RecordError, TypeOK, RuntimeStates
<1>3. CASE ActivateChecks(c)
  BY <1>3 DEF ActivateChecks, Goto, Job, TypeOK, JobType, RuntimeStates, history
<1>4. CASE Load(c)
  BY <1>4 DEF Load, Goto, Job, TypeOK, JobType, history
<1>5. CASE Started(c)
  BY <1>5, TransitionType DEF Started, TypeOK, RuntimeStates, history
<1>6. CASE StartFails(c)
  BY <1>6, DoneType, NeverFound DEF StartFails, RemoveInstance, TypeOK, history
<1>7. CASE Deactivate(c)
  BY <1>7, TransitionType, NeverFound
     DEF Deactivate, RemoveInstance, TypeOK, RuntimeStates, history
<1>8. CASE DeactivateUnknown(c)
  BY <1>8 DEF DeactivateUnknown, Goto, Job, TypeOK, JobType, memory, history
<1>9. CASE Pause(c)
  BY <1>9, TransitionType, NeverFound DEF Pause, InstanceTo, TypeOK, RuntimeStates, history
<1>10. CASE Resume(c)
  <2>1. (ghost \/ state = "STOPPED") \in BOOLEAN
    OBVIOUS
  <2>2. ghost' \in BOOLEAN
    BY <1>10, <2>1 DEF Resume
  <2> QED
    BY <1>10, <2>2, TransitionType, NeverFound DEF Resume, InstanceTo, TypeOK, RuntimeStates
<1>11. CASE ActivateRefused(c) \/ LoadFails(c) \/ DeactivateDone(c)
              \/ PauseReturns(c) \/ ResumeReturns(c)
  BY <1>11, ReturnsType
     DEF ActivateRefused, LoadFails, DeactivateDone, PauseReturns, ResumeReturns
<1>12. CASE Save(c)
  BY <1>12 DEF Save, Goto, Job, StatusOf, TypeOK, JobType, memory, history
<1>13. CASE SaveUnknown(c)
  <2>1. (clean /\ c \in alone) \in BOOLEAN
    OBVIOUS
  <2>2. clean' \in BOOLEAN
    BY <1>13, <2>1 DEF SaveUnknown
  <2> QED
    BY <1>13, <2>2, DoneType DEF SaveUnknown, StatusOf, TypeOK, memory
<1>14. CASE SaveEvent(c)
  <2>1. (c \in alone /\ (job[c].op = "error" => clean)) \in BOOLEAN
    OBVIOUS
  <2>2. clean' \in BOOLEAN
    BY <1>14, <2>1 DEF SaveEvent
  <2> QED
    BY <1>14, <2>2, DoneType DEF SaveEvent, TypeOK, JobType, memory
<1>15. CASE SaveFails(c) \/ EventFails(c)
  BY <1>15, DoneType DEF SaveFails, EventFails, StatusOf, TypeOK, JobType, memory
<1> QED
  BY <1>1, <1>2, <1>3, <1>4, <1>5, <1>6, <1>7, <1>8, <1>9, <1>10, <1>11, <1>12,
     <1>13, <1>14, <1>15
     DEF Client, Calling, Activating, Deactivating, Pausing, Resuming, Saving

LEMMA NextTypeOK == TypeOK /\ [Next]_vars => TypeOK'
<1> SUFFICES ASSUME TypeOK, [Next]_vars
             PROVE  TypeOK'
  OBVIOUS
<1>1. CASE Crash
  <2>1. Idle \in JobType
    BY DEF Idle, Job, JobType, RuntimeStates
  <2> QED
    BY <1>1, <2>1 DEF Crash, TypeOK
<1>2. ASSUME NEW c \in Clients, Client(c)
      PROVE  TypeOK'
  BY <1>2, ClientTypeOK
<1>3. CASE UNCHANGED vars
  BY <1>3 DEF vars, memory, history, TypeOK
<1> QED
  BY <1>1, <1>2, <1>3 DEF Next

(* Every variable keeps its type, in any interleaving and after any crash. *)
THEOREM TypeCorrect == Spec => []TypeOK
<1> QED
  BY InitTypeOK, NextTypeOK, PTL DEF Spec
-----------------------------------------------------------------------------
(* What a client's step may do to the other clients' operations: nothing.  *)
LEMMA OthersStay ==
  ASSUME TypeOK, NEW c \in Clients, Client(c), NEW d \in Clients, d # c
  PROVE  job'[d] = job[d]
  BY DEF TypeOK, Client, Calling, Begin, RecordError, Enter, Activating,
         ActivateChecks, ActivateRefused, Load, LoadFails, Started, StartFails,
         Deactivating, Deactivate, DeactivateUnknown, DeactivateDone, Pausing, Pause,
         PauseReturns, Resuming, Resume, ResumeReturns, Saving, Save, SaveUnknown,
         SaveEvent, SaveFails, EventFails, Returns, Done, Goto, Transition

(* The client's own operation waits for a configuration or an instance only*)
(* after the steps that lead there.                                        *)
OwnJob(c) ==
  /\ At(c, "activate", "load")' => ActivateChecks(c)
  /\ At(c, "activate", "init")' => Load(c)

LEMMA OwnSteps ==
  ASSUME TypeOK, NEW c \in Clients, Client(c)
  PROVE  OwnJob(c)
  BY DEF OwnJob, At, TypeOK, Client, Calling, Begin, RecordError, Enter, Activating,
         ActivateChecks, ActivateRefused, Load, LoadFails, Started, StartFails,
         Deactivating, Deactivate, DeactivateUnknown, DeactivateDone, Pausing, Pause,
         PauseReturns, Resuming, Resume, ResumeReturns, Saving, Save, SaveUnknown,
         SaveEvent, SaveFails, EventFails, Returns, Done, Goto, Transition, Job, Idle
-----------------------------------------------------------------------------
(* The steps of an operation that change what others rely on, by name.     *)
Moves(c) ==
  \/ ActivateChecks(c) \/ Load(c) \/ Started(c) \/ StartFails(c)
  \/ Deactivate(c) \/ Pause(c) \/ Resume(c) \/ RecordError(c)

LEMMA OnlyMovesMove ==
  ASSUME NEW c \in Clients, Client(c), ~Moves(c)
  PROVE  UNCHANGED <<state, instance, ghost>> /\ ~At(c, "activate", "init")
  BY DEF Moves, Client, Calling, Begin, Enter, Activating,
         ActivateRefused, LoadFails, Deactivating, DeactivateUnknown, DeactivateDone,
         Pausing, PauseReturns, Resuming, ResumeReturns, Saving, Save, SaveUnknown,
         SaveEvent, SaveFails, EventFails, Returns, memory, history, At, Busy

(* What a move does to state and instance.                                 *)
MoveIs(c) ==
  \/ /\ ActivateChecks(c) /\ instance' = instance
     /\ state' = IF state = None THEN "STOPPED" ELSE state
  \/ /\ Load(c) /\ instance = None /\ instance' = "STOPPED" /\ state' = state
     /\ At(c, "activate", "load") /\ At(c, "activate", "init")'
  \/ /\ Started(c) /\ instance' = "RUNNING" /\ state' = "RUNNING" /\ At(c, "activate", "init")
  \/ /\ (StartFails(c) \/ Deactivate(c) \/ Pause(c) \/ RecordError(c) \/ Resume(c))
     /\ instance' = instance
     /\ \/ state' = state \/ state' = "STOPPED"
        \/ state \in {"RUNNING", "PAUSED"} /\ state' # None
        \/ ghost' /\ state' # None

LEMMA MovesAre ==
  ASSUME TypeOK, NEW c \in Clients, Moves(c)
  PROVE  MoveIs(c)
<1>1. CASE ActivateChecks(c) \/ Load(c) \/ Started(c)
  BY <1>1 DEF MoveIs, ActivateChecks, Load, Started, Transition, Goto, Job, At, TypeOK
<1>2. CASE StartFails(c) \/ Deactivate(c)
  BY <1>2, NeverFound DEF MoveIs, StartFails, Deactivate, RemoveInstance, Transition
<1>3. CASE Pause(c) \/ RecordError(c)
  BY <1>3, NeverFound DEF MoveIs, Pause, RecordError, InstanceTo, Transition, CanTransition
<1>4. CASE Resume(c)
  BY <1>4, NeverFound DEF MoveIs, Resume, InstanceTo, Transition, CanTransition
<1> QED
  BY <1>1, <1>2, <1>3, <1>4 DEF Moves

(* No move takes back that a strategy was resumed when it was stopped.     *)
LEMMA GhostStays ==
  ASSUME NEW c \in Clients, Moves(c), ~ghost'
  PROVE  ~ghost
<1>1. CASE Resume(c)
  <2>1. ghost' = (ghost \/ state = "STOPPED")
    BY <1>1 DEF Resume
  <2> QED
    BY <2>1
<1>2. CASE ~Resume(c)
  BY <1>2 DEF Moves, ActivateChecks, Load, Started, StartFails, Deactivate, Pause,
              RecordError, history
<1> QED
  BY <1>1, <1>2

(* A move keeps the operations of others waiting where they wait.          *)
LEMMA MovesInv ==
  ASSUME IInv, NEW c \in Clients, Moves(c), OwnJob(c),
         \A d \in Clients \ {c} : job'[d] = job[d]
  PROVE  (OneActivation /\ Registration /\ ActiveHasInstance)'
<1>1. MoveIs(c)
  BY MovesAre DEF IInv
<1>2. state # None => state' # None
  BY <1>1 DEF MoveIs, IInv, Registration, At
<1>3. At(c, "activate", "load")' => state' # None
  BY <1>1 DEF OwnJob, MoveIs, ActivateChecks
<1>4. At(c, "activate", "init")' => Load(c)
  BY DEF OwnJob
<1>5. Registration'
  BY <1>1, <1>2, <1>3, <1>4 DEF IInv, Registration, At, Load
<1>6. OneActivation'
  <2>1. CASE Load(c)
    BY <1>1, <2>1 DEF MoveIs, Load, IInv, OneActivation, At
  <2>2. CASE ~Load(c)
    <3>1. instance' = instance \/ At(c, "activate", "init")
      BY <1>1, <2>2 DEF MoveIs
    <3> QED
      BY <1>4, <2>2, <3>1 DEF IInv, OneActivation, At
  <2> QED
    BY <2>1, <2>2
<1>7. ActiveHasInstance'
  <2> SUFFICES ASSUME ~ghost' PROVE ActiveHasInstance'
    BY DEF ActiveHasInstance
  <2>1. ~ghost
    BY GhostStays
  <2> QED
    BY <1>1, <2>1 DEF MoveIs, IInv, ActiveHasInstance, Load
<1> QED
  BY <1>5, <1>6, <1>7

LEMMA NextIInv == IInv /\ [Next]_vars => IInv'
<1> SUFFICES ASSUME IInv, [Next]_vars
             PROVE  IInv'
  OBVIOUS
<1>1. TypeOK /\ TypeOK'
  BY NextTypeOK DEF IInv
<1>2. CASE Crash
  BY <1>1, <1>2 DEF Crash, IInv, OneActivation, Registration, ActiveHasInstance, Idle, Job, At
<1>3. ASSUME NEW c \in Clients, Client(c)
      PROVE  IInv'
  <2>1. \A d \in Clients \ {c} : job'[d] = job[d]
    BY <1>1, <1>3, OthersStay
  <2>2. OwnJob(c)
    BY <1>1, <1>3, OwnSteps
  <2>3. CASE Moves(c)
    BY <1>1, <2>1, <2>2, <2>3, MovesInv DEF IInv
  <2>4. CASE ~Moves(c)
    <3>1. UNCHANGED <<state, instance, ghost>> /\ ~At(c, "activate", "init")
      BY <1>3, <2>4, OnlyMovesMove
    <3>2. ~At(c, "activate", "load")' /\ ~At(c, "activate", "init")'
      BY <2>2, <2>4 DEF OwnJob, Moves
    <3> QED
      BY <1>1, <2>1, <3>1, <3>2 DEF IInv, OneActivation, Registration, ActiveHasInstance, At
  <2> QED
    BY <2>3, <2>4
<1>4. CASE UNCHANGED vars
  BY <1>1, <1>4 DEF vars, memory, history, IInv, OneActivation, Registration,
                    ActiveHasInstance, At
<1> QED
  BY <1>2, <1>3, <1>4 DEF Next

LEMMA InitIInv == Init => IInv
<1>1. Init => OneActivation /\ Registration /\ ActiveHasInstance
  BY DEF Init, OneActivation, Registration, ActiveHasInstance, Idle, Job, At
<1> QED
  BY <1>1, InitTypeOK DEF IInv

LEMMA IInvHolds == Spec => []IInv
  BY InitIInv, NextIInv, PTL DEF Spec
-----------------------------------------------------------------------------
(* A strategy said to be active has an instance that was started, and no   *)
(* two activations ever start one each, however many clients' operations   *)
(* interleave.                                                             *)
THEOREM ManagerAlwaysAgrees == Spec => []ManagerAgrees
<1>1. IInv => ManagerAgrees
  BY DEF IInv, ManagerAgrees
<1> QED
  BY <1>1, IInvHolds, PTL

(* The state moves along VALID_TRANSITIONS and from PAUSED to ERROR only.  *)
THEOREM ValidMoves == Spec => OnlyValidTransitions
<1> DEFINE Valid == \/ ghost' \/ state' = state \/ state' = None
                    \/ CanTransition(state, state')
                    \/ <<state, state'>> \in {<<None, "STOPPED">>, <<"PAUSED", "ERROR">>}
<1>1. ASSUME IInv, Next PROVE Valid
  <2>1. CASE Crash
    BY <2>1 DEF Crash
  <2>2. ASSUME NEW c \in Clients, Client(c)
        PROVE  Valid
    <3>1. CASE ~Moves(c)
      BY <2>2, <3>1, OnlyMovesMove
    <3>2. CASE Started(c)
      <4>1. ghost' = ghost /\ state' = "RUNNING"
        BY <3>2 DEF Started, Transition, history
      <4>2. CASE ~ghost
        <5>1. state = "STOPPED"
          BY <1>1, <3>2, <4>2 DEF IInv, Started, OneActivation, Registration,
             ActiveHasInstance, TypeOK, RuntimeStates
        <5> QED
          BY <4>1, <5>1 DEF CanTransition
      <4> QED
        BY <4>1, <4>2
    <3>3. CASE Moves(c) /\ ~Started(c)
      BY <3>3 DEF Moves, ActivateChecks, Load, StartFails, Deactivate, Pause, Resume,
                  RecordError, Transition, CanTransition
    <3> QED
      BY <3>1, <3>2, <3>3
  <2> QED
    BY <1>1, <2>1, <2>2 DEF Next
<1>2. IInv /\ [Next]_vars => [Valid]_vars
  BY <1>1
<1> QED
  BY <1>2, IInvHolds, PTL DEF Spec, OnlyValidTransitions
-----------------------------------------------------------------------------
(* Recorded.  While an operation is alone nobody else is busy, so what it  *)
(* goes on to save is the state as it is (AloneWritesState); once nobody   *)
(* writes any more, row and last event agree with the state, unless the    *)
(* last write was not clean (AgreeUnlessWritten).  An activation that fails*)
(* leaves the entry it made in state STOPPED, which rests on the last event*)
(* of a strategy without an entry (NothingAudited).                        *)

(* Nobody else is busy while an operation is alone.                        *)
OthersIdle == \A c \in alone : \A d \in Clients : d # c => ~Busy(d)

Writing(c) == job[c].pc \in {"save", "event"}

(* What row and last event must be in the state.                           *)
Agree ==
  /\ state = "RUNNING" => status = "active"
  /\ state = "PAUSED"  => status = "paused"
  /\ state = "ERROR"   => status # "validated"
  /\ state \in {None, "STOPPED"} => status = "validated"
  /\ audited = IF state = None THEN "STOPPED" ELSE state

AgreeUnlessWritten == clean /\ (\A c \in Clients : ~Writing(c)) => Agree

NothingAudited == clean /\ state = None => audited = "STOPPED"

(* An operation that is alone writes the state as it is.                   *)
WritesState(c) ==
  /\ job[c].pc = "save" => state = job[c].to /\ job[c].op # "error" /\ state # "ERROR"
  /\ job[c].pc = "event" =>
       /\ state = job[c].to /\ state # None
       /\ job[c].op # "error" => status = StatusOf(state) /\ state # "ERROR"
       /\ job[c].op = "error" => state = "ERROR" /\ (clean => status # "validated")

AloneWritesState == \A c \in alone : WritesState(c)

RInv ==
  TypeOK /\ OthersIdle /\ AgreeUnlessWritten /\ NothingAudited /\ AloneWritesState

LEMMA InitRInv == Init => RInv
<1>1. Init => OthersIdle /\ AgreeUnlessWritten /\ NothingAudited /\ AloneWritesState
  BY DEF Init, OthersIdle, AgreeUnlessWritten, Agree, NothingAudited, AloneWritesState
<1> QED
  BY <1>1, InitTypeOK DEF RInv

Works(c) == Activating(c) \/ Deactivating(c) \/ Pausing(c) \/ Resuming(c) \/ Saving(c)

(* An operation goes on: it was busy, and who is alone stays so.           *)
LEMMA WorkIsBusy ==
  ASSUME NEW c \in Clients, Works(c)
  PROVE  Busy(c) /\ alone' = alone
  BY DEF Works, Activating,
         ActivateChecks, ActivateRefused, Load, LoadFails, Started, StartFails,
         Deactivating, Deactivate, DeactivateUnknown, DeactivateDone, Pausing, Pause,
         PauseReturns, Resuming, Resume, ResumeReturns, Saving, Save, SaveUnknown,
         SaveEvent, SaveFails, EventFails, Returns, history, At, Busy

(* A call is made.                                                         *)
LEMMA CallEnters ==
  ASSUME TypeOK, NEW c \in Clients, Calling(c)
  PROVE  /\ ~Busy(c)
         /\ \A a \in alone' : a = c /\ \A d \in Clients : ~Busy(d)
<1>1. ~Busy(c) /\ alone' = IF \A d \in Clients : ~Busy(d) THEN {c} ELSE {}
  BY DEF Calling, Begin, RecordError, Enter
<1> QED
  BY <1>1

(* Only the client of a step may be alone after it.                        *)
LEMMA OnlyOwnAlone ==
  ASSUME TypeOK, OthersIdle, NEW c \in Clients, Client(c), NEW a \in alone'
  PROVE  a = c /\ \A d \in Clients : d # c => ~Busy(d)
<1>1. CASE Calling(c)
  BY <1>1, CallEnters
<1>2. CASE Works(c)
  BY <1>2, WorkIsBusy DEF OthersIdle
<1> QED
  BY <1>1, <1>2 DEF Client, Works

LEMMA OthersIdleStep ==
  ASSUME RInv, NEW c \in Clients, Client(c)
  PROVE  OthersIdle'
<1>1. SUFFICES ASSUME NEW a \in alone', NEW d \in Clients, d # a
               PROVE  ~Busy(d)'
  BY DEF OthersIdle
<1>2. a = c /\ ~Busy(d)
  BY <1>1, OnlyOwnAlone DEF RInv
<1>3. job'[d] = job[d]
  BY <1>1, <1>2, OthersStay DEF RInv
<1> QED
  BY <1>2, <1>3 DEF Busy
-----------------------------------------------------------------------------
(* A step that leaves nobody writing leaves row and event in agreement.    *)
LEMMA AgreeStep ==
  ASSUME RInv, NEW c \in Clients, Client(c)
  PROVE  AgreeUnlessWritten'
<1>1. SUFFICES ASSUME clean', \A d \in Clients : ~Writing(d)'
               PROVE  Agree'
  BY DEF AgreeUnlessWritten
<1>2. TypeOK
  BY DEF RInv
<1>3. \A d \in Clients \ {c} : ~Writing(d)
  <2>1. SUFFICES ASSUME NEW d \in Clients \ {c} PROVE ~Writing(d)
    OBVIOUS
  <2>2. job'[d] = job[d]
    BY <1>2, OthersStay
  <2> QED
    BY <1>1, <2>2 DEF Writing
<1>4. ASSUME clean, ~Writing(c) PROVE Agree
  BY <1>3, <1>4 DEF RInv, AgreeUnlessWritten
<1>5. ~Writing(c)'
  BY <1>1
<1>6. ASSUME NEW op, Begin(c, op) PROVE Agree'
  BY <1>1, <1>4, <1>6 DEF Begin, Enter, Busy, Writing, Agree, memory
<1>7. CASE \/ RecordError(c) \/ Started(c) \/ Deactivate(c) \/ DeactivateUnknown(c)
           \/ Pause(c) \/ Resume(c) \/ Save(c)
  BY <1>2, <1>5, <1>7 DEF RecordError, Started, Deactivate, DeactivateUnknown, Pause, Resume, Save,
     Transition, Goto, Enter, Job, Writing, TypeOK
<1>8. CASE ActivateChecks(c)
  <2>1. clean /\ ~Writing(c)
    BY <1>1, <1>8 DEF ActivateChecks, At, Writing, history
  <2> QED
    BY <1>4, <1>8, <2>1 DEF ActivateChecks, Agree
<1>9. CASE Load(c) \/ StartFails(c)
  BY <1>1, <1>4, <1>9 DEF Load, StartFails, At, Writing, history, Agree
<1>10. CASE \/ ActivateRefused(c) \/ LoadFails(c) \/ DeactivateDone(c)
            \/ PauseReturns(c) \/ ResumeReturns(c)
  BY <1>1, <1>4, <1>10 DEF ActivateRefused, LoadFails, DeactivateDone, PauseReturns, ResumeReturns,
     Returns, At, Writing, history, memory, Agree
<1>11. CASE SaveUnknown(c)
  <2>1. clean /\ c \in alone
    BY <1>1, <1>11, Zenon DEF SaveUnknown
  <2>2. state = None
    BY <1>11, <2>1 DEF SaveUnknown, RInv, AloneWritesState, WritesState
  <2>3. audited = "STOPPED"
    BY <2>1, <2>2 DEF RInv, NothingAudited
  <2> QED
    BY <1>11, <2>2, <2>3 DEF SaveUnknown, StatusOf, Agree, memory
<1>12. CASE SaveEvent(c)
  <2>1. c \in alone /\ (job[c].op = "error" => clean)
    BY <1>1, <1>12, Zenon DEF SaveEvent
  <2>2. WritesState(c) /\ job[c].pc = "event"
    BY <1>12, <2>1 DEF SaveEvent, RInv, AloneWritesState
  <2> QED
    BY <1>2, <1>12, <2>1, <2>2 DEF SaveEvent, WritesState, StatusOf, Agree, memory, TypeOK, RuntimeStates
<1>13. CASE SaveFails(c) \/ EventFails(c)
  BY <1>1, <1>13 DEF SaveFails, EventFails
<1> QED
  BY <1>6, <1>7, <1>8, <1>9, <1>10, <1>11, <1>12, <1>13
     DEF Client, Calling, Activating, Deactivating, Pausing, Resuming, Saving

LEMMA AuditedStep ==
  ASSUME RInv, NEW c \in Clients, Client(c)
  PROVE  NothingAudited'
<1>1. SUFFICES ASSUME clean', state' = None PROVE audited' = "STOPPED"
  BY DEF NothingAudited
<1>2. CASE SaveEvent(c)
  <2>1. c \in alone
    BY <1>1, <1>2, Zenon DEF SaveEvent
  <2> QED
    BY <1>1, <1>2, <2>1 DEF SaveEvent, RInv, AloneWritesState, WritesState, memory
<1>3. CASE SaveUnknown(c)
  <2>1. clean
    BY <1>1, <1>3, Zenon DEF SaveUnknown
  <2> QED
    BY <1>1, <1>3, <2>1 DEF SaveUnknown, RInv, NothingAudited, memory
<1>4. CASE SaveFails(c) \/ EventFails(c)
  BY <1>1, <1>4 DEF SaveFails, EventFails
<1>5. CASE ~Saving(c) \/ Save(c)
  BY <1>1, <1>5 DEF RInv, NothingAudited, Client, Calling, Begin, RecordError, Enter, Activating,
         ActivateChecks, ActivateRefused, Load, LoadFails, Started, StartFails,
         Deactivating, Deactivate, DeactivateUnknown, DeactivateDone, Pausing, Pause,
         PauseReturns, Resuming, Resume, ResumeReturns, Save, Returns, Transition, memory, history
<1> QED
  BY <1>2, <1>3, <1>4, <1>5 DEF Saving

LEMMA WritesStep ==
  ASSUME RInv, NEW c \in Clients, Client(c)
  PROVE  AloneWritesState'
<1> SUFFICES ASSUME c \in alone' PROVE WritesState(c)'
  BY OnlyOwnAlone DEF RInv, AloneWritesState
<1>1. TypeOK /\ \A d \in Clients : d # c => ~Busy(d)
  BY OnlyOwnAlone DEF RInv
<1>2. ASSUME NEW op, Begin(c, op) PROVE WritesState(c)'
  BY <1>1, <1>2 DEF Begin, Enter, Job, WritesState, TypeOK
<1>3. CASE RecordError(c)
  <2>1. \A d \in Clients : ~Writing(d)
    BY <1>1, <1>3, CallEnters DEF Calling, Busy, Writing
  <2>2. clean => status # "validated"
    BY <1>3, <2>1 DEF RecordError, RInv, AgreeUnlessWritten, Agree
  <2>3. /\ job'[c] = Job("error", "event", None, "ERROR")
        /\ state' = "ERROR" /\ clean' = clean /\ status' = status
    BY <1>1, <1>3 DEF RecordError, Enter, TypeOK
  <2> QED
    BY <2>2, <2>3 DEF WritesState, Job
<1>4. CASE ActivateChecks(c) \/ Load(c)
  BY <1>1, <1>4 DEF ActivateChecks, Load, Goto, Job, WritesState, TypeOK
<1>5. CASE \/ ActivateRefused(c) \/ LoadFails(c) \/ DeactivateDone(c) \/ PauseReturns(c)
           \/ ResumeReturns(c)
           \/ StartFails(c) \/ SaveUnknown(c) \/ SaveEvent(c) \/ SaveFails(c) \/ EventFails(c)
  BY <1>1, <1>5 DEF ActivateRefused, LoadFails, DeactivateDone, PauseReturns, ResumeReturns,
     StartFails, SaveUnknown, SaveEvent, SaveFails, EventFails, Returns, Done, Idle, Job, WritesState, TypeOK
<1>6. CASE Started(c) \/ Deactivate(c) \/ Pause(c) \/ Resume(c)
  BY <1>1, <1>6 DEF Started, Deactivate, Pause, Resume, At, Transition, Goto, Job, WritesState, TypeOK
<1>7. CASE DeactivateUnknown(c)
  BY <1>1, <1>7 DEF DeactivateUnknown, At, Goto, Job, WritesState, TypeOK, memory
<1>8. CASE Save(c)
  <2>1. c \in alone /\ WritesState(c)
    BY <1>8, WorkIsBusy DEF Works, Saving, RInv, AloneWritesState
  <2>2. /\ job'[c] = Job(job[c].op, "event", None, job[c].to) /\ state' = state
        /\ status' = StatusOf(job[c].to) /\ job[c].to # None
    BY <1>1, <1>8 DEF Save, Goto, memory, TypeOK
  <2>3. state = job[c].to /\ job[c].op # "error" /\ state # "ERROR"
    BY <1>8, <2>1 DEF Save, WritesState
  <2> QED
    BY <2>2, <2>3 DEF WritesState, Job
<1> QED
  BY <1>2, <1>3, <1>4, <1>5, <1>6, <1>7, <1>8
     DEF Client, Calling, Activating, Deactivating, Pausing, Resuming, Saving

LEMMA NextRInv == RInv /\ [Next]_vars => RInv'
<1> SUFFICES ASSUME RInv, [Next]_vars PROVE RInv'
  OBVIOUS
<1>1. TypeOK'
  BY NextTypeOK DEF RInv
<1>2. CASE Crash
  BY <1>1, <1>2 DEF Crash, RInv, OthersIdle, AgreeUnlessWritten, NothingAudited, AloneWritesState
<1>3. ASSUME NEW c \in Clients, Client(c) PROVE RInv'
  BY <1>1, <1>3, OthersIdleStep, AgreeStep, AuditedStep, WritesStep DEF RInv
<1>4. CASE UNCHANGED vars
  BY <1>4 DEF vars, memory, history, RInv, TypeOK, OthersIdle, Busy, AgreeUnlessWritten, Writing, Agree,
     NothingAudited, AloneWritesState, WritesState
<1> QED
  BY <1>2, <1>3, <1>4 DEF Next

(* The row and the last event agree with the state as soon as the last     *)
(* operation ran alone and was saved, whatever ran or failed before it.    *)
THEOREM RowsFollow == Spec => []Recorded
<1>1. RInv => Recorded
  BY DEF RInv, AgreeUnlessWritten, Agree, Recorded, Writing, Busy
<1> QED
  BY <1>1, InitRInv, NextRInv, PTL DEF Spec
-----------------------------------------------------------------------------
LEMMA LeastNatural ==
  ASSUME NEW T, T \subseteq Nat, T # {}
  PROVE  \E x \in T : \A y \in T : x <= y
<1> DEFINE R == OpToRel(<, Nat)
<1>1. IsWellFoundedOn(R, Nat)
  BY NatLessThanWellFounded
<1>2. \A x \in Nat : \A y \in Nat : y < x => <<y, x>> \in R 
  BY DEF OpToRel
<1> HIDE DEF R
<1>3. PICK x \in T : \A y \in T : ~ (<<y, x>> \in R)
  BY <1>1, WFMin
<1>4. \A y \in T : ~(y < x)
  BY <1>2, <1>3, x \in Nat, T \subseteq Nat, Zenon
<1> QED
  BY <1>4


(* The manager, the requests and the versions are parts of StrategiesSpec. *)
LEMMA PartsOfStrategies ==
  StrategiesSpec => Spec /\ S!Spec /\ C!ConfigurationsSpec
<1> USE DEF manager, store, texts, vars, memory, history, S!vars, C!vars
<1>1. StrategiesInit => Init /\ S!Init /\ C!Init
  BY DEF StrategiesInit
<1>2. [StrategiesNext]_<<manager, store, texts, side>>
        => [Next]_vars /\ [S!Next]_S!vars /\ [C!Next]_C!vars
  <2> SUFFICES ASSUME [StrategiesNext]_<<manager, store, texts, side>>
               PROVE  [Next]_vars /\ [S!Next]_S!vars /\ [C!Next]_C!vars
    OBVIOUS
  <2>1. CASE UNCHANGED <<manager, store, texts, side>>
    BY <2>1
  <2>2. CASE side = "memory" /\ Next /\ UNCHANGED <<store, texts, side>>
    BY <2>2
  <2>3. CASE side = "rows" /\ S!Next /\ UNCHANGED <<manager, texts, side>>
    BY <2>3
  <2>4. CASE side = "texts" /\ C!Next /\ UNCHANGED <<manager, store, side>>
    BY <2>4
  <2> QED
    BY <2>1, <2>2, <2>3, <2>4 DEF StrategiesNext
<1> QED
  BY <1>1, <1>2, PTL DEF StrategiesSpec, Spec, S!Spec, C!ConfigurationsSpec

-----------------------------------------------------------------------------
(* What the versions say.                                                  *)
ChecksOf(d, base) ==
  /\ d.made \in {"generate", "modify"} => C!Valid(d.says, "config")
  /\ d.made = "modify" => /\ d.says.mode = "live" => d.said \/ base.mode = "live"
                          /\ C!SizeOf(d.says) <= 2 * C!SizeOf(base)

Ensured == {[c EXCEPT !.signal = C!DefaultSignal] : c \in Configs}

Draft == [says : Configs \union Ensured, made : {"client", "editor", "generate", "modify"},
          said : BOOLEAN]

TextsInv ==
  /\ drafts \in Seq(Draft) /\ chosen \in 0 .. Len(drafts)
  /\ by = "editor" => chosen # 0 /\ C!Valid(drafts[chosen].says, kind)
  /\ drafts # <<>> => drafts[1].says \in Configs
  /\ \A v \in DOMAIN drafts :
       /\ ChecksOf(drafts[v], drafts[1].says)
       /\ v = chosen /\ drafts[v].made \in {"generate", "modify"} => by = "client"

LEMMA TextsTell == TextsInv => C!ConfigsAreChecked
BY DEF TextsInv, ChecksOf, C!ConfigsAreChecked, C!Versions, C!Base

(* What a new version adds to those before it.                             *)
LEMMA AppendVersionEffect ==
  ASSUME TextsInv, NEW c \in Configs \union Ensured, NEW who \in {"client", "editor", "generate", "modify"},
         NEW said \in BOOLEAN, C!AppendVersion(c, who, said)
  PROVE  /\ drafts' \in Seq(Draft) /\ Len(drafts) \in Nat /\ DOMAIN drafts = 1 .. Len(drafts)
         /\ Len(drafts') = Len(drafts) + 1 /\ DOMAIN drafts' = 1 .. Len(drafts) + 1
         /\ \A v \in 1 .. Len(drafts) : drafts'[v] = drafts[v]
         /\ drafts'[Len(drafts) + 1].says = c /\ drafts'[Len(drafts) + 1].made = who
         /\ drafts'[Len(drafts) + 1].said = said
         /\ drafts' # <<>> /\ (drafts = <<>> <=> Len(drafts) = 0)
<1> DEFINE d == [says |-> c, made |-> who, said |-> said]
<1>1. d \in Draft /\ d.says = c /\ d.made = who /\ d.said = said
  BY DEF Draft
<1>2. drafts \in Seq(Draft) /\ drafts' = Append(drafts, d)
  BY DEF TextsInv, C!AppendVersion, C!Version
<1> HIDE DEF d
<1>3. /\ Append(drafts, d) \in Seq(Draft) /\ Len(drafts) \in Nat /\ DOMAIN drafts = 1 .. Len(drafts)
      /\ Len(Append(drafts, d)) = Len(drafts) + 1
      /\ DOMAIN Append(drafts, d) = 1 .. Len(drafts) + 1
      /\ \A v \in 1 .. Len(drafts) : Append(drafts, d)[v] = drafts[v]
      /\ Append(drafts, d)[Len(drafts) + 1] = d
      /\ Append(drafts, d) # <<>> /\ (drafts = <<>> <=> Len(drafts) = 0)
  BY <1>1, <1>2
<1> QED
  BY <1>1, <1>2, <1>3

LEMMA EnsuredIs ==
  ASSUME NEW c \in Configs
  PROVE  C!EnsuredSignal(c) \in Configs \union Ensured
BY DEF C!EnsuredSignal, Ensured

LEMMA TextsKept ==
  ASSUME TextsInv, [C!Next]_C!vars, C!ConfigurationsAssumption
  PROVE  TextsInv'
<1> DEFINE n == Len(drafts)
<1>1. /\ drafts \in Seq(Draft) /\ chosen \in 0 .. n /\ n \in Nat
      /\ DOMAIN drafts = 1 .. n /\ (drafts = <<>> <=> n = 0)
  BY DEF TextsInv
<1>2. ASSUME NEW c \in Configs, C!CreateStrategy(c)
      PROVE  TextsInv'
  <2>1. /\ drafts = <<>> /\ C!AppendVersion(c, "client", FALSE) /\ chosen' = 1 /\ by' = "client"
    BY <1>2 DEF C!CreateStrategy
  <2>2. /\ drafts' \in Seq(Draft) /\ Len(drafts') = 1 /\ DOMAIN drafts' = 1 .. 1
        /\ drafts'[1].says = c /\ drafts'[1].made = "client" /\ drafts' # <<>>
    <3>1. c \in Configs \union Ensured /\ Len(drafts) = 0
      BY <1>1, <2>1
    <3>2. /\ drafts' \in Seq(Draft) /\ Len(drafts') = 0 + 1 /\ DOMAIN drafts' = 1 .. 0 + 1
          /\ drafts'[0 + 1].says = c /\ drafts'[0 + 1].made = "client" /\ drafts' # <<>>
      BY <2>1, <3>1, AppendVersionEffect
    <3> QED
      BY <3>2
  <2> QED
    BY <2>1, <2>2 DEF TextsInv, ChecksOf
<1>3. ASSUME NEW c \in Configs \union Ensured,
             NEW who \in {"client", "editor", "generate", "modify"}, NEW said \in BOOLEAN,
             C!AppendVersion(c, who, said), drafts # <<>>,
             who \notin {"generate", "modify"} \/ ChecksOf([says |-> c, made |-> who, said |-> said], drafts[1].says)
      PROVE  /\ drafts' \in Seq(Draft) /\ Len(drafts') = n + 1 /\ n > 0
             /\ DOMAIN drafts' = 1 .. n + 1 /\ drafts' # <<>>
             /\ \A v \in 1 .. n : drafts'[v] = drafts[v]
             /\ drafts'[1].says \in Configs /\ drafts'[1] = drafts[1]
             /\ drafts'[n + 1].says = c
             /\ \A v \in DOMAIN drafts' : ChecksOf(drafts'[v], drafts'[1].says)
  <2>1. /\ drafts' \in Seq(Draft) /\ Len(drafts') = n + 1 /\ DOMAIN drafts' = 1 .. n + 1
        /\ \A v \in 1 .. n : drafts'[v] = drafts[v]
        /\ drafts'[n + 1].says = c /\ drafts'[n + 1].made = who
        /\ drafts'[n + 1].said = said /\ drafts' # <<>>
    BY <1>3, AppendVersionEffect
  <2>2. n > 0 /\ 1 \in 1 .. n /\ drafts'[1] = drafts[1] /\ drafts[1].says \in Configs
    BY <1>1, <1>3, <2>1 DEF TextsInv
  <2>3. ASSUME NEW v \in DOMAIN drafts'
        PROVE  ChecksOf(drafts'[v], drafts'[1].says)
    <3>1. CASE v \in 1 .. n
      BY <1>1, <2>1, <2>2, <3>1 DEF TextsInv
    <3>2. CASE v = n + 1
      BY <1>3, <2>1, <2>2, <3>2 DEF ChecksOf
    <3> QED
      BY <1>1, <2>1, <3>1, <3>2
  <2> QED
    BY <2>1, <2>2, <2>3
<1>4. ASSUME NEW c \in Configs, C!CreateVersion(c)
      PROVE  TextsInv'
  <2>1. drafts # <<>> /\ C!AppendVersion(c, "client", FALSE) /\ UNCHANGED <<kind, chosen, by>>
    BY <1>4 DEF C!CreateVersion
  <2>2. /\ drafts' \in Seq(Draft) /\ Len(drafts') = n + 1 /\ DOMAIN drafts' = 1 .. n + 1
        /\ \A v \in 1 .. n : drafts'[v] = drafts[v]
        /\ drafts'[1].says \in Configs /\ drafts' # <<>>
        /\ \A v \in DOMAIN drafts' : ChecksOf(drafts'[v], drafts'[1].says)
    BY <1>3, <2>1
  <2>3. \A v \in DOMAIN drafts' : v = chosen => v \in 1 .. n
    BY <1>1, <2>2
  <2> QED
    BY <1>1, <2>1, <2>2, <2>3 DEF TextsInv
<1>5. ASSUME NEW c \in Configs, C!UpdateActive(c)
      PROVE  TextsInv'
  <2> DEFINE e == C!EnsuredSignal(c)
  <2>1. /\ chosen # 0 /\ C!Valid(e, kind) /\ C!AppendVersion(e, "editor", FALSE)
        /\ chosen' = n + 1 /\ by' = "editor" /\ kind' = kind /\ e \in Configs \union Ensured
    BY <1>5, EnsuredIs DEF C!UpdateActive
  <2>2. drafts # <<>>
    BY <1>1, <2>1
  <2> HIDE DEF e
  <2>3. /\ drafts' \in Seq(Draft) /\ Len(drafts') = n + 1 /\ DOMAIN drafts' = 1 .. n + 1
        /\ drafts'[n + 1].says = e /\ drafts'[1].says \in Configs /\ drafts' # <<>>
        /\ \A v \in DOMAIN drafts' : ChecksOf(drafts'[v], drafts'[1].says)
    BY <1>3, <2>1, <2>2
  <2>4. drafts'[n + 1].made = "editor"
    BY <2>1, AppendVersionEffect
  <2> QED
    BY <1>1, <2>1, <2>3, <2>4 DEF TextsInv
<1>6. ASSUME NEW c \in Configs, C!Generate(c)
      PROVE  TextsInv'
  <2>1. /\ drafts = <<>> /\ C!Valid(c, "config") /\ C!AppendVersion(c, "generate", FALSE)
        /\ UNCHANGED <<chosen, by>>
    BY <1>6 DEF C!Generate
  <2>2. /\ drafts' \in Seq(Draft) /\ Len(drafts') = 1 /\ DOMAIN drafts' = 1 .. 1
        /\ drafts'[1].says = c /\ drafts'[1].made = "generate" /\ drafts' # <<>>
    <3>1. c \in Configs \union Ensured /\ Len(drafts) = 0
      BY <1>1, <2>1
    <3>2. /\ drafts' \in Seq(Draft) /\ Len(drafts') = 0 + 1 /\ DOMAIN drafts' = 1 .. 0 + 1
          /\ drafts'[0 + 1].says = c /\ drafts'[0 + 1].made = "generate" /\ drafts' # <<>>
      BY <2>1, <3>1, AppendVersionEffect
    <3> QED
      BY <3>2
  <2>3. chosen = 0 /\ by # "editor"
    BY <1>1, <2>1 DEF TextsInv
  <2> QED
    BY <2>1, <2>2, <2>3 DEF TextsInv, ChecksOf
<1>7. ASSUME NEW c \in Configs, NEW said \in BOOLEAN, C!Modify(c, said)
      PROVE  TextsInv'
  <2>1. /\ drafts # <<>> /\ C!AllowedChanges(drafts[1].says, c, said) /\ C!Valid(c, "config")
        /\ C!AppendVersion(c, "modify", said) /\ UNCHANGED <<kind, chosen, by>>
    BY <1>7 DEF C!Modify, C!Base
  <2>2. drafts[1].says.mode \in {"paper", "live"}
    BY <2>1 DEF TextsInv, C!ConfigurationsAssumption
  <2>3. ChecksOf([says |-> c, made |-> "modify", said |-> said], drafts[1].says)
    BY <2>1, <2>2 DEF C!AllowedChanges, ChecksOf
  <2>4. /\ drafts' \in Seq(Draft) /\ Len(drafts') = n + 1 /\ DOMAIN drafts' = 1 .. n + 1
        /\ \A v \in 1 .. n : drafts'[v] = drafts[v]
        /\ drafts'[1].says \in Configs /\ drafts' # <<>>
        /\ \A v \in DOMAIN drafts' : ChecksOf(drafts'[v], drafts'[1].says)
    BY <1>3, <2>1, <2>3
  <2>5. \A v \in DOMAIN drafts' : v = chosen => v \in 1 .. n
    BY <1>1, <2>4
  <2> QED
    BY <1>1, <2>1, <2>4, <2>5 DEF TextsInv
<1>8. ASSUME NEW v \in C!Versions, C!ActivateVersion(v)
      PROVE  TextsInv'
  BY <1>1, <1>8 DEF C!ActivateVersion, C!Versions, TextsInv
<1>9. CASE UNCHANGED C!vars
  BY <1>9 DEF C!vars, TextsInv
<1> QED
  BY <1>2, <1>4, <1>5, <1>6, <1>7, <1>8, <1>9 DEF C!Next

LEMMA TextsInvariant == C!ConfigurationsSpec => []C!ConfigsAreChecked
<1>1. C!Init => TextsInv
  BY DEF C!Init, TextsInv
<1> QED
  BY <1>1, TextsKept, TextsTell, StoreAssumption, PTL DEF C!ConfigurationsSpec
-----------------------------------------------------------------------------
(* The requests on the rows.  A step changes the request it is of; those   *)
(* of the others only learn what it wrote.                                 *)
RowType == [mode : S!Modes, status : S!Statuses, current : Nat]

Ops == {"edit", "toggle", "delete", "update_active", "modify", "lifecycle", "backtest",
        "transition", "new_version", "activate", "create", "generate"}

Queries == {"save", "write", "list", "delete", "create", "select", "clear", "mark", "point",
            "resolve", "preload", "simulate", "keep"}

Known == S!Fields \union {"exists", "stats"}

Args == S!Modes \union S!Statuses \union {NoRow}

RequestType ==
  [op : Ops, at : Queries, read : RowType \union {NoRow}, arg : Args,
   version : Nat, life : Nat, since : SUBSET Known, saw : SUBSET Requesters]

(* q is p but for one field.                                               *)
LEMMA AtIs ==
  ASSUME NEW p \in RequestType, NEW x \in Queries, NEW q, q = [p EXCEPT !.at = x]
  PROVE  /\ q \in RequestType /\ q.at = x /\ q.op = p.op /\ q.read = p.read /\ q.arg = p.arg
         /\ q.version = p.version /\ q.life = p.life /\ q.since = p.since /\ q.saw = p.saw
BY DEF RequestType

LEMMA VersionIs ==
  ASSUME NEW p \in RequestType, NEW x \in Nat, NEW q, q = [p EXCEPT !.version = x]
  PROVE  /\ q \in RequestType /\ q.at = p.at /\ q.op = p.op /\ q.read = p.read /\ q.arg = p.arg
         /\ q.version = x /\ q.life = p.life /\ q.since = p.since /\ q.saw = p.saw
BY DEF RequestType

LEMMA LifeIs ==
  ASSUME NEW p \in RequestType, NEW x \in Nat, NEW q, q = [p EXCEPT !.life = x]
  PROVE  /\ q \in RequestType /\ q.at = p.at /\ q.op = p.op /\ q.read = p.read /\ q.arg = p.arg
         /\ q.version = p.version /\ q.life = x /\ q.since = p.since /\ q.saw = p.saw
BY DEF RequestType

LEMMA SinceIs ==
  ASSUME NEW p \in RequestType, NEW x \in SUBSET Known, NEW q, q = [p EXCEPT !.since = x]
  PROVE  /\ q \in RequestType /\ q.at = p.at /\ q.op = p.op /\ q.read = p.read /\ q.arg = p.arg
         /\ q.version = p.version /\ q.life = p.life /\ q.since = x /\ q.saw = p.saw
BY DEF RequestType

LEMMA SawIs ==
  ASSUME NEW p \in RequestType, NEW x \in SUBSET Requesters, NEW q, q = [p EXCEPT !.saw = x]
  PROVE  /\ q \in RequestType /\ q.at = p.at /\ q.op = p.op /\ q.read = p.read /\ q.arg = p.arg
         /\ q.version = p.version /\ q.life = p.life /\ q.since = p.since /\ q.saw = x
BY DEF RequestType

Requests == [Requesters -> RequestType \union {S!Idle}]

LEMMA NotIdle == \A q \in RequestType : q.op # "none" /\ q # S!Idle
BY DEF RequestType, Ops, S!Idle

LEMMA BusyIs ==
  ASSUME request \in Requests, NEW c \in Requesters, NEW at, S!Busy(c, at)
  PROVE  request[c] \in RequestType /\ request[c].at = at
BY DEF S!Busy, Requests, S!Idle

(* What a step of c does to the requests of the others: they learn what it *)
(* wrote.                                                                  *)
Learns(p, q, fields) ==
  /\ q \in RequestType /\ q.at = p.at /\ q.op = p.op /\ q.read = p.read /\ q.arg = p.arg
  /\ q.version = p.version /\ q.life = p.life /\ q.since = p.since \union fields
  /\ q.saw = p.saw

Steps(c, next, fields) ==
  /\ request' \in Requests /\ request'[c] = next
  /\ \A d \in Requesters \ {c} :
       \/ request[d] = S!Idle /\ request'[d] = S!Idle
       \/ request[d] \in RequestType /\ Learns(request[d], request'[d], fields)

LEMMA WroteIs ==
  ASSUME request \in Requests, NEW c \in Requesters, NEW fields \in SUBSET Known,
         NEW next \in RequestType \union {S!Idle}, S!Wrote(c, fields, next)
  PROVE  Steps(c, next, fields)
<1> DEFINE New(d) == IF d = c THEN next
                     ELSE IF request[d].op = "none" THEN S!Idle
                     ELSE [request[d] EXCEPT !.since = @ \union fields]
<1>1. request' = [d \in Requesters |-> New(d)]
  BY DEF S!Wrote
<1>2. ASSUME NEW d \in Requesters, request[d] \in RequestType
      PROVE  Learns(request[d], [request[d] EXCEPT !.since = @ \union fields], fields)
  <2> DEFINE x == request[d].since \union fields
             q == [request[d] EXCEPT !.since = x]
  <2>1. x \in SUBSET Known /\ x = request[d].since \union fields
    BY <1>2 DEF RequestType
  <2> HIDE DEF x
  <2>2. Learns(request[d], q, fields) 
    BY <1>2, <2>1, SinceIs DEF Learns
  <2>3. q = [request[d] EXCEPT !.since = @ \union fields]
    BY DEF x
  <2> QED
    BY <2>2, <2>3
<1>3. ASSUME NEW d \in Requesters \ {c}
      PROVE  /\ New(d) \in RequestType \union {S!Idle}
             /\ \/ request[d] = S!Idle /\ New(d) = S!Idle
                \/ request[d] \in RequestType /\ Learns(request[d], New(d), fields)
  <2>1. CASE request[d] = S!Idle
    BY <2>1 DEF S!Idle
  <2>2. CASE request[d] \in RequestType
    <3>1. New(d) = [request[d] EXCEPT !.since = @ \union fields]
      BY <2>2, NotIdle
    <3> QED
      BY <1>2, <2>2, <3>1 DEF Learns
  <2> QED
    BY <2>1, <2>2 DEF Requests
<1> HIDE DEF New
<1>4. New(c) = next
  BY DEF New
<1> QED
  BY <1>1, <1>3, <1>4 DEF Steps, Requests

LEMMA BecomesIs ==
  ASSUME request \in Requests, NEW c \in Requesters,
         NEW next \in RequestType \union {S!Idle}, S!Becomes(c, next)
  PROVE  Steps(c, next, {})
<1>1. \A q \in RequestType : Learns(q, q, {})
  BY DEF Learns
<1>2. request' = [request EXCEPT ![c] = next]
  BY DEF S!Becomes
<1> QED
  BY <1>1, <1>2 DEF Steps, Requests

LEMMA RequestIs ==
  ASSUME row \in RowType \union {NoRow}, life \in Nat,
         NEW op \in Ops, NEW at \in Queries, NEW arg \in Args,
         NEW q, q = S!Request(op, at, arg)
  PROVE  /\ q \in RequestType /\ q.op = op /\ q.at = at /\ q.arg = arg /\ q.read = row
         /\ q.life = life /\ q.since = {} /\ q.saw = {} /\ q.version = 0
BY DEF RequestType, S!Request

QuietAt == {"list", "delete", "create", "select", "resolve", "point"}

AllFields == S!Fields \union {"exists"}

Quiet(c) ==
  \/ request'[c] = S!Idle
  \/ /\ {request[c], request'[c]} \subseteq RequestType /\ request'[c].at \in QuietAt
     /\ request'[c].life = request[c].life

(* What a request is about to write.                                       *)
Writes(q) ==
  /\ q.at = "save" =>
       \/ q.op \in {"create", "generate"} /\ q.arg \in S!Modes
       \/ q.op \in {"edit", "toggle"} /\ q.arg \in S!Modes /\ q.read \in RowType
       \/ q.op = "lifecycle" /\ q.arg \in S!Statuses /\ q.read \in RowType
  /\ q.at = "write" =>
       /\ q.op = "transition" /\ q.read \in RowType /\ q.arg \in S!Statuses
       /\ q.arg \in S!ValidTransitions[q.read.status]

RowsTyped ==
  /\ row \in RowType \union {NoRow} /\ life \in Nat /\ requests \in Nat
  /\ \E n \in Nat : versions \in [1 .. n -> BOOLEAN]
  /\ row = NoRow => DOMAIN versions = {}
  /\ refused = FALSE

StatsTyped == stats \in [loaded : Requesters \union {NoRow}, prices : SUBSET Requesters]

RequestsTyped ==
  /\ request \in Requests
  /\ \A c \in Requesters : request[c] \in RequestType => Writes(request[c]) /\ request[c].life <= life

(* A request that is about to write knows the row but for what others      *)
(* wrote since.                                                            *)
KnowsRow(q) ==
  /\ q.at \in {"save", "write"} /\ q.op \in {"edit", "toggle", "lifecycle", "transition"} =>
       IF row = NoRow THEN AllFields \subseteq q.since
       ELSE \/ AllFields \subseteq q.since
            \/ /\ q.read.mode = row.mode \/ "mode" \in q.since
               /\ q.read.status = row.status \/ "status" \in q.since
               /\ q.read.current = row.current \/ "current" \in q.since

StoreKept == UNCHANGED <<row, versions, life, stats, lately, refused>>

(* What each step does to the request it is of and to the store.           *)
LEMMA BeginEffect ==
  ASSUME RowsTyped, RequestsTyped, NEW c \in Requesters, S!Begin(c) \/ S!BeginBlind(c)
  PROVE  /\ Steps(c, request'[c], {}) /\ StoreKept /\ requests' \in Nat
         /\ request'[c] \in RequestType /\ Writes(request'[c]) /\ request'[c].life = life
         /\ request'[c].at \in {"save", "write"} \union QuietAt
         /\ KnowsRow(request'[c])
<1> DEFINE Fits(q) == /\ q \in RequestType /\ Writes(q) /\ q.life = life
                      /\ q.at \in {"save", "write"} \union QuietAt /\ KnowsRow(q)
<1>1. row \in RowType \union {NoRow} /\ life \in Nat /\ request \in Requests
  BY DEF RowsTyped, RequestsTyped
<1>2. StoreKept /\ requests' \in Nat
  BY DEF S!Begin, S!BeginBlind, S!Arrives, S!StoreUnchanged, StoreKept, RowsTyped
<1>3. ASSUME NEW q, S!Becomes(c, q), Fits(q)
      PROVE  Steps(c, request'[c], {}) /\ Fits(request'[c])
  <2>1. q \in RequestType \union {S!Idle}
    BY <1>3
  <2>2. Steps(c, q, {}) 
    BY <1>1, <1>3, <2>1, BecomesIs
  <2>3. request'[c] = q
    BY <2>2 DEF Steps
  <2> QED
    BY <1>3, <2>2, <2>3
<1>4. ASSUME row # NoRow, NEW m \in S!Modes, NEW op \in {"edit", "toggle"}
      PROVE  Fits(S!Request(op, "save", m))
  <2>p. PICK q : q = S!Request(op, "save", m)
    OBVIOUS
  <2>o. op \in Ops /\ "save" \in Queries /\ m \in Args
    BY DEF Ops, Queries, Args, QuietAt, S!Modes, S!Statuses
  <2>1. /\ q \in RequestType /\ q.op = op /\ q.at = "save" /\ q.arg = m /\ q.read = row
        /\ q.life = life
    BY <1>1, <2>p, <2>o DEF RequestType, S!Request
  <2> QED
    BY <2>p, <1>1, <1>4, <2>1 DEF Writes, KnowsRow
<1>5. ASSUME row # NoRow, NEW s \in {"active", "validated", "paused"}
      PROVE  Fits(S!Request("lifecycle", "save", s))
  <2>p. PICK q : q = S!Request("lifecycle", "save", s)
    OBVIOUS
  <2>o. "lifecycle" \in Ops /\ "save" \in Queries /\ s \in Args
    BY DEF Ops, Queries, Args, QuietAt, S!Modes, S!Statuses
  <2>1. s \in S!Statuses
    BY DEF S!Statuses
  <2>2. /\ q \in RequestType /\ q.op = "lifecycle" /\ q.at = "save" /\ q.arg = s /\ q.read = row
        /\ q.life = life
    BY <1>1, <2>1, <2>p, <2>o DEF RequestType, S!Request
  <2> QED
    BY <2>p, <1>1, <1>5, <2>1, <2>2 DEF Writes, KnowsRow
<1>6. ASSUME row # NoRow, NEW s \in S!ResolveAction(row.status)
      PROVE  Fits(S!Request("transition", "write", s))
  <2>p. PICK q : q = S!Request("transition", "write", s)
    OBVIOUS
  <2>1. row.status \in S!Statuses /\ s \in S!ValidTransitions[row.status]
    BY <1>1, <1>6 DEF RowType, S!ResolveAction
  <2>2. s \in S!Statuses
    BY <2>1 DEF S!ValidTransitions, S!Statuses
  <2>o. "transition" \in Ops /\ "write" \in Queries /\ s \in Args
    BY <2>2 DEF Ops, Queries, Args, QuietAt, S!Modes, S!Statuses
  <2>3. /\ q \in RequestType /\ q.op = "transition" /\ q.at = "write" /\ q.arg = s /\ q.read = row
        /\ q.life = life
    BY <1>1, <2>2, <2>p, <2>o DEF RequestType, S!Request
  <2> QED
    BY <2>p, <1>1, <1>6, <2>1, <2>2, <2>3 DEF Writes, KnowsRow
<1>7. ASSUME NEW op \in {"delete", "update_active", "modify", "new_version", "backtest", "activate"},
             NEW at \in QuietAt
      PROVE  Fits(S!Request(op, at, NoRow))
  <2>p. PICK q : q = S!Request(op, at, NoRow)
    OBVIOUS
  <2>o. op \in Ops /\ at \in Queries /\ NoRow \in Args
    BY DEF Ops, Queries, Args, QuietAt, S!Modes, S!Statuses
  <2>1. q \in RequestType /\ q.op = op /\ q.at = at /\ q.life = life
    BY <1>1, <2>p, <2>o DEF RequestType, S!Request, QuietAt
  <2> QED
    BY <2>p, <2>1 DEF Writes, KnowsRow, QuietAt
<1>8. ASSUME NEW q, Fits(q), q.at \in QuietAt, NEW v \in Nat
      PROVE  Fits([q EXCEPT !.version = v])
  <2>p. PICK r : r = [q EXCEPT !.version = v]
    OBVIOUS
  <2>1. r \in RequestType /\ r.op = q.op /\ r.at = q.at /\ r.life = q.life
    BY <2>p, <1>8, VersionIs
  <2>2. r.at \notin {"save", "write"} /\ r.life = life
    BY <1>8, <2>1 DEF QuietAt
  <2> QED
    BY <2>p, <1>8, <2>1, <2>2 DEF Writes, KnowsRow
<1>9. ASSUME NEW op \in {"create", "generate"}
      PROVE  Fits(S!Request(op, "save", "paper"))
  <2>p. PICK q : q = S!Request(op, "save", "paper")
    OBVIOUS
  <2>o. op \in Ops /\ "save" \in Queries /\ "paper" \in Args
    BY DEF Ops, Queries, Args, QuietAt, S!Modes, S!Statuses
  <2>1. /\ q \in RequestType /\ q.op = op /\ q.at = "save" /\ q.life = life /\ q.arg = "paper"
    BY <1>1, <2>p, <2>o DEF RequestType, S!Request, S!Modes
  <2> QED
    BY <2>p, <2>1 DEF Writes, KnowsRow, S!Modes
<1>q. "delete" \in QuietAt /\ "list" \in QuietAt /\ "resolve" \in QuietAt /\ "create" \in QuietAt
      /\ "select" \in QuietAt
  BY DEF QuietAt
<1>10. \E q : S!Becomes(c, q) /\ Fits(q)
  <2>1. CASE S!Begin(c)
    <3>0. row # NoRow
      BY <2>1 DEF S!Begin
    <3>1. CASE S!BeginEdit(c)
      BY <3>0, <3>1, <1>4, Zenon DEF S!BeginEdit
    <3>2. CASE S!BeginToggle(c)
      BY <3>0, <3>2, <1>4, Zenon DEF S!BeginToggle
    <3>3. CASE S!BeginDelete(c)
      BY <3>3, <1>7, <1>q, Zenon DEF S!BeginDelete
    <3>4. CASE S!BeginUpdateActive(c)
      BY <3>4, <1>7, <1>q, Zenon DEF S!BeginUpdateActive
    <3>5. CASE S!BeginModify(c)
      BY <3>5, <1>7, <1>q, Zenon DEF S!BeginModify
    <3>6. CASE S!BeginLifecycle(c)
      BY <3>0, <3>6, <1>5, Zenon DEF S!BeginLifecycle
    <3>7. CASE S!BeginBacktest(c)
      <4> DEFINE q == S!Request("backtest", "resolve", NoRow)
      <4>1. Fits(q)
        BY <1>7, <1>q, Zenon
      <4>2. q.at = "resolve" /\ row.current \in Nat
        BY <1>1, <3>0 DEF S!Request, RowType
      <4> HIDE DEF q, Fits
      <4>3. Fits([q EXCEPT !.version = row.current])
        BY <4>1, <4>2, <1>8, <1>q
      <4> QED
        BY <3>7, <4>3, Zenon DEF S!BeginBacktest, q
    <3>8. CASE S!BeginTransition(c)
      BY <3>0, <3>8, <1>6, Zenon DEF S!BeginTransition
    <3> QED
      BY <2>1, <3>1, <3>2, <3>3, <3>4, <3>5, <3>6, <3>7, <3>8 DEF S!Begin
  <2>2. CASE S!BeginBlind(c)
    <3>1. CASE S!Becomes(c, S!Request("new_version", "create", NoRow))
      BY <3>1, <1>7, <1>q, Zenon
    <3>2. ASSUME NEW v \in 1 .. MaxVersions,
                 S!Becomes(c, [S!Request("activate", "select", NoRow) EXCEPT !.version = v])
          PROVE  \E q : S!Becomes(c, q) /\ Fits(q)
      <4> DEFINE q == S!Request("activate", "select", NoRow)
      <4>1. Fits(q)
        BY <1>7, <1>q, Zenon
      <4>2. q.at = "select" /\ v \in Nat
        BY DEF S!Request
      <4> HIDE DEF q, Fits
      <4>3. Fits([q EXCEPT !.version = v])
        BY <4>1, <4>2, <1>8, <1>q
      <4> QED
        BY <3>2, <4>3, Zenon DEF q
    <3>3. ASSUME NEW op \in {"create", "generate"}, S!Becomes(c, S!Request(op, "save", "paper"))
          PROVE  \E q : S!Becomes(c, q) /\ Fits(q)
      BY <3>3, <1>9, Zenon
    <3> HIDE DEF Fits
    <3> QED
      BY <2>2, <3>1, <3>2, <3>3, Zenon DEF S!BeginBlind
  <2> QED
    BY <2>1, <2>2
<1> QED
  BY <1>2, <1>3, <1>10

LEMMA QuietSteps ==
  ASSUME request \in Requests, NEW c \in Requesters, NEW fields \in SUBSET Known,
         NEW q, \/ q = S!Idle
                \/ /\ {request[c], q} \subseteq RequestType
                   /\ q.at \in QuietAt /\ q.life = request[c].life,
         S!Wrote(c, fields, q) \/ (fields = {} /\ S!Becomes(c, q))
  PROVE  Steps(c, request'[c], fields) /\ Quiet(c)
<1>1. Steps(c, q, fields)
  BY WroteIs, BecomesIs
<1> QED
  BY <1>1 DEF Steps, Quiet

LEMMA GoesQuietly ==
  ASSUME request \in Requests, NEW c \in Requesters, NEW q \in RequestType, NEW at \in QuietAt,
         q.life = request[c].life, NEW r, r = [q EXCEPT !.at = at]
  PROVE  r \in RequestType /\ r.at \in QuietAt /\ r.life = request[c].life
<1>1. at \in Queries
  BY DEF QuietAt, Queries
<1> QED
  BY <1>1, AtIs

LEMMA QuietVersion ==
  ASSUME request \in Requests, NEW c \in Requesters, NEW q \in RequestType, NEW v \in Nat,
         q.at \in QuietAt, q.life = request[c].life, NEW r, r = [q EXCEPT !.version = v]
  PROVE  r \in RequestType /\ r.at \in QuietAt /\ r.life = request[c].life
BY VersionIs

LEMMA FieldsKnown ==
  /\ {} \in SUBSET Known /\ AllFields \in SUBSET Known /\ {"current"} \in SUBSET Known
  /\ {"status"} \in SUBSET Known /\ {"stats"} \in SUBSET Known
BY DEF Known, AllFields, S!Fields

LEMMA SaveEffect ==
  ASSUME RowsTyped, RequestsTyped, NEW c \in Requesters, S!Save(c)
  PROVE  /\ request[c] \in RequestType /\ request[c].at = "save"
         /\ Steps(c, request'[c], AllFields) /\ Quiet(c)
         /\ row' = S!SavedRow(c) /\ row' \in RowType
         /\ UNCHANGED <<versions, life, stats, requests, lately, refused>>
<1>1. /\ request \in Requests /\ request[c] \in RequestType /\ request[c].at = "save"
      /\ Writes(request[c])
  BY BusyIs DEF S!Save, RequestsTyped
<1>2. S!SavedRow(c) \in RowType
  <2>1. CASE request[c].op \in {"create", "generate"}
    <3>1. S!SavedRow(c) = S!NewRow(request[c].arg) /\ request[c].arg \in S!Modes
      BY <1>1, <2>1 DEF S!SavedRow, Writes
    <3> QED
      BY <3>1 DEF S!NewRow, RowType, S!Statuses
  <2>2. CASE request[c].op \in {"edit", "toggle"}
    <3>1. /\ S!SavedRow(c) = [request[c].read EXCEPT !.mode = request[c].arg]
          /\ request[c].arg \in S!Modes /\ request[c].read \in RowType
      BY <1>1, <2>2 DEF S!SavedRow, Writes
    <3> QED
      BY <3>1 DEF RowType
  <2>3. CASE request[c].op = "lifecycle"
    <3>1. /\ S!SavedRow(c) = [request[c].read EXCEPT !.status = request[c].arg]
          /\ request[c].arg \in S!Statuses /\ request[c].read \in RowType
      BY <1>1, <2>3 DEF S!SavedRow, Writes
    <3> QED
      BY <3>1 DEF RowType
  <2> QED
    BY <1>1, <2>1, <2>2, <2>3 DEF Writes
<1>3. /\ S!AfterSave(c) = S!Idle
      \/ /\ S!AfterSave(c) \in RequestType /\ S!AfterSave(c).at \in QuietAt
         /\ S!AfterSave(c).life = request[c].life
  <2>1. /\ "create" \in QuietAt /\ "list" \in QuietAt
    BY DEF QuietAt
  <2>2. PICK r1 : r1 = S!GoesTo(c, "create")
    OBVIOUS
  <2>3. PICK r2 : r2 = S!GoesTo(c, "list")
    OBVIOUS
  <2>4. S!AfterSave(c) \in {r1, r2, S!Idle}
    BY <2>2, <2>3 DEF S!AfterSave
  <2>5. r1 \in RequestType /\ r1.at \in QuietAt /\ r1.life = request[c].life
    BY <1>1, <2>1, <2>2, GoesQuietly DEF S!GoesTo
  <2>6. r2 \in RequestType /\ r2.at \in QuietAt /\ r2.life = request[c].life
    BY <1>1, <2>1, <2>3, GoesQuietly DEF S!GoesTo
  <2> QED
    BY <2>4, <2>5, <2>6
<1>4. S!Wrote(c, AllFields, S!AfterSave(c))
  BY DEF S!Save, AllFields
<1>5. Steps(c, request'[c], AllFields) /\ Quiet(c)
  BY <1>1, <1>3, <1>4, QuietSteps, FieldsKnown
<1> QED
  BY <1>1, <1>2, <1>5 DEF S!Save

(* Versions are numbered from 1 on.                                        *)
LEMMA VersionsNumbered ==
  ASSUME RowsTyped
  PROVE  \E n \in Nat : /\ versions \in [1 .. n -> BOOLEAN] /\ DOMAIN versions = 1 .. n
                        /\ Cardinality(1 .. n) = n /\ S!NextVersion = n + 1
<1>1. PICK n \in Nat : versions \in [1 .. n -> BOOLEAN]
  BY DEF RowsTyped
<1>2. DOMAIN versions = 1 .. n
  BY <1>1
<1>3. Cardinality(1 .. n) = n
  BY FS_Interval
<1>4. \A x \in (1 .. n) \union {0} : (\A y \in (1 .. n) \union {0} : x >= y) <=> x = n
  OBVIOUS
<1>5. n \in (1 .. n) \union {0}
  OBVIOUS
<1>6. S!Max((1 .. n) \union {0}) = n
  BY <1>4, <1>5 DEF S!Max
<1> QED
  BY <1>1, <1>2, <1>3, <1>6 DEF S!NextVersion

LEMMA BaseOfIs ==
  ASSUME RowsTyped, NEW c \in Requesters
  PROVE  S!BaseOf(c) \in Nat
<1>1. PICK n \in Nat : versions \in [1 .. n -> BOOLEAN] /\ DOMAIN versions = 1 .. n
  BY VersionsNumbered
<1>3. CASE request[c].op = "modify" /\ versions # <<>>
  <2>1. n # 0
    BY <1>1, <1>3
  <2>2. 1 \in 1 .. n /\ \A x \in 1 .. n : (\A y \in 1 .. n : x <= y) <=> x = 1
    BY <2>1
  <2>3. S!Min(1 .. n) = 1
    BY <2>2 DEF S!Min
  <2> QED
    BY <1>1, <1>3, <2>3 DEF S!BaseOf
<1>5. CASE request[c].op # "modify" /\ S!Active # {}
  <2>1. S!Active \subseteq 1 .. n
    BY <1>1 DEF S!Active
  <2> DEFINE T == {k \in Nat : n - k \in S!Active}
  <2>2. T \subseteq Nat /\ T # {}
    <3>1. PICK v \in S!Active : TRUE
      BY <1>5
    <3>2. n - v \in Nat /\ n - (n - v) = v
      BY <2>1
    <3> QED
      BY <3>1, <3>2
  <2>3. \E x \in T : \A y \in T : x <= y
    BY <2>2, LeastNatural
  <2>4. \E m \in S!Active : \A y \in S!Active : m >= y
    <3>1. PICK x \in T : \A y \in T : x <= y
      BY <2>3
    <3>2. \A y \in S!Active : n - y \in T /\ n - x >= y
      <4> TAKE y \in S!Active
      <4>1. y \in 1 .. n /\ n - y \in Nat /\ n - (n - y) = y
        BY <2>1
      <4>2. n - y \in T
        BY <4>1
      <4>3. x \in Nat /\ x <= n - y
        BY <3>1, <4>2
      <4> QED
        BY <4>1, <4>2, <4>3
    <3> QED
      BY <3>1, <3>2
  <2>5. S!Max(S!Active) \in S!Active
    BY <2>4 DEF S!Max
  <2> QED
    BY <1>5, <2>1, <2>5 DEF S!BaseOf
<1>6. CASE ~(request[c].op = "modify" /\ versions # <<>>) /\ ~(request[c].op # "modify" /\ S!Active # {})
  BY <1>6 DEF S!BaseOf
<1> QED
  BY <1>3, <1>5, <1>6

LEMMA ListEffect ==
  ASSUME RowsTyped, RequestsTyped, NEW c \in Requesters, S!List(c)
  PROVE  Steps(c, request'[c], {}) /\ Quiet(c) /\ StoreKept /\ requests' = requests
<1>1. request \in Requests /\ request[c] \in RequestType
  BY BusyIs DEF S!List, RequestsTyped
<1>2. PICK q : q = S!GoesTo(c, "create")
  OBVIOUS
<1>3. PICK r : r = [q EXCEPT !.version = S!BaseOf(c)]
  OBVIOUS
<1>4. q \in RequestType /\ q.at \in QuietAt /\ q.life = request[c].life
  BY <1>1, <1>2, GoesQuietly DEF S!GoesTo, QuietAt
<1>5. r \in RequestType /\ r.at \in QuietAt /\ r.life = request[c].life
  BY <1>1, <1>3, <1>4, BaseOfIs, QuietVersion
<1>6. S!Becomes(c, S!Idle) \/ S!Becomes(c, r)
  BY <1>2, <1>3 DEF S!List
<1>7. Steps(c, request'[c], {}) /\ Quiet(c)
  BY <1>1, <1>5, <1>6, QuietSteps, FieldsKnown
<1> QED
  BY <1>7 DEF S!List, StoreKept

(* A version is added to those there are, none of which changes.           *)
LEMMA CreateEffect ==
  ASSUME RowsTyped, RequestsTyped, NEW c \in Requesters, S!Create(c)
  PROVE  /\ Quiet(c) /\ UNCHANGED <<life, stats, requests, lately, refused>>
         /\ \/ /\ Steps(c, request'[c], {}) /\ UNCHANGED <<row, versions>>
            \/ /\ Steps(c, request'[c], {"current"}) /\ {row, row'} \subseteq RowType
               /\ row'.mode = row.mode /\ row'.status = row.status /\ row # NoRow
               /\ S!Active' = S!Active /\ DOMAIN versions \subseteq DOMAIN versions'
               /\ \E n \in Nat : versions' \in [1 .. n -> BOOLEAN]
<1>1. request \in Requests /\ request[c] \in RequestType
  BY BusyIs DEF S!Create, RequestsTyped
<1>2. PICK n \in Nat : /\ versions \in [1 .. n -> BOOLEAN] /\ DOMAIN versions = 1 .. n
                       /\ S!NextVersion = n + 1
  BY VersionsNumbered
<1>3. CASE /\ row # NoRow /\ S!NextVersion \notin DOMAIN versions
           /\ versions' = [v \in DOMAIN versions \union {S!NextVersion} |->
                             v # S!NextVersion /\ versions[v]]
           /\ row' = [row EXCEPT !.current = S!NextVersion]
           /\ S!Wrote(c, {"current"}, S!AfterCreate(c))
           /\ UNCHANGED refused
  <2>0. S!NextVersion \in Nat
    BY <1>2
  <2>1. PICK q : q = S!GoesTo(c, "select")
    OBVIOUS
  <2>2. PICK r : r = [q EXCEPT !.version = S!NextVersion]
    OBVIOUS
  <2>3. q \in RequestType /\ q.at \in QuietAt /\ q.life = request[c].life
    BY <1>1, <2>1, GoesQuietly DEF S!GoesTo, QuietAt
  <2>4. r \in RequestType /\ r.at \in QuietAt /\ r.life = request[c].life
    BY <1>1, <2>0, <2>2, <2>3, QuietVersion
  <2>5. S!AfterCreate(c) \in {S!Idle, r}
    BY <2>1, <2>2 DEF S!AfterCreate
  <2>6. Steps(c, request'[c], {"current"}) /\ Quiet(c)
    BY <1>1, <1>3, <2>4, <2>5, QuietSteps, FieldsKnown
  <2>7. /\ {row, row'} \subseteq RowType /\ row'.mode = row.mode /\ row'.status = row.status
    BY <1>2, <1>3 DEF RowsTyped, RowType
  <2>8. versions' = [v \in 1 .. n + 1 |-> v # n + 1 /\ versions[v]]
    <3>1. (1 .. n) \union {n + 1} = 1 .. n + 1
      OBVIOUS
    <3> QED
      BY <1>2, <1>3, <3>1
  <2>9. \A v \in 1 .. n + 1 : (v # n + 1 /\ versions[v]) \in BOOLEAN
    BY <1>2
  <2>10. versions' \in [1 .. n + 1 -> BOOLEAN] /\ DOMAIN versions' = 1 .. n + 1
    BY <2>8, <2>9
  <2>11. S!Active' = S!Active
    <3>1. \A v : v \in 1 .. n + 1 <=> v \in 1 .. n \/ v = n + 1
      OBVIOUS
    <3>2. \A v : v \in 1 .. n + 1 /\ versions'[v] <=> v \in 1 .. n /\ v # n + 1 /\ versions[v]
      BY <2>8, <3>1, Zenon
    <3>3. \A v \in 1 .. n : v # n + 1
      OBVIOUS
    <3>4. \A v : v \in 1 .. n + 1 /\ versions'[v] <=> v \in 1 .. n /\ versions[v]
      BY <3>2, <3>3, Zenon
    <3> QED
      BY <1>2, <2>10, <3>4, Zenon DEF S!Active
  <2>12. DOMAIN versions \subseteq DOMAIN versions' /\ n + 1 \in Nat
    BY <1>2, <2>10
  <2> QED
    BY <1>3, <2>6, <2>7, <2>10, <2>11, <2>12 DEF S!Create
<1>4. CASE /\ row = NoRow \/ S!NextVersion \in DOMAIN versions
           /\ refused' = (refused \/ row # NoRow)
           /\ S!Becomes(c, S!Idle)
           /\ UNCHANGED <<row, versions>>
  <2>1. row = NoRow
    BY <1>2, <1>4
  <2>2. UNCHANGED refused
    BY <1>4, <2>1 DEF RowsTyped
  <2>3. Steps(c, request'[c], {}) /\ Quiet(c)
    BY <1>1, <1>4, QuietSteps, FieldsKnown
  <2> QED
    BY <1>4, <2>2, <2>3 DEF S!Create
<1> QED
  BY <1>3, <1>4 DEF S!Create

LEMMA SelectEffect ==
  ASSUME RowsTyped, RequestsTyped, NEW c \in Requesters, S!Select(c)
  PROVE  /\ StoreKept /\ requests' = requests /\ Steps(c, request'[c], {})
         /\ \/ request'[c] = S!Idle
            \/ /\ request'[c] \in RequestType /\ request'[c].at = "clear"
               /\ request'[c].life = life /\ request'[c].version \in DOMAIN versions
<1>1. request \in Requests /\ request[c] \in RequestType
  BY BusyIs DEF S!Select, RequestsTyped
<1>2. PICK q : q = S!GoesTo(c, "clear")
  OBVIOUS
<1>3. PICK r : r = [q EXCEPT !.life = life]
  OBVIOUS
<1>4. q \in RequestType /\ q.at = "clear" /\ q.version = request[c].version
  BY <1>1, <1>2, AtIs DEF S!GoesTo, Queries
<1>5. r \in RequestType /\ r.at = "clear" /\ r.version = request[c].version /\ r.life = life
  BY <1>3, <1>4, LifeIs DEF RowsTyped
<1>6. S!Becomes(c, S!Idle) \/ (S!Becomes(c, r) /\ request[c].version \in DOMAIN versions)
  BY <1>2, <1>3 DEF S!Select
<1>7. /\ Steps(c, request'[c], {})
      /\ request'[c] = S!Idle \/ (request'[c] = r /\ request[c].version \in DOMAIN versions)
  <2>1. CASE S!Becomes(c, S!Idle)
    <3>1. Steps(c, S!Idle, {})
      BY <1>1, <2>1, BecomesIs
    <3> QED
      BY <3>1 DEF Steps
  <2>2. CASE S!Becomes(c, r) /\ request[c].version \in DOMAIN versions
    <3>1. Steps(c, r, {})
      BY <1>1, <1>5, <2>2, BecomesIs
    <3> QED
      BY <2>2, <3>1 DEF Steps
  <2> QED
    BY <1>6, <2>1, <2>2
<1> QED
  BY <1>5, <1>7 DEF S!Select, StoreKept

LEMMA ClearEffect ==
  ASSUME RowsTyped, RequestsTyped, NEW c \in Requesters, S!Clear(c)
  PROVE  /\ request[c] \in RequestType /\ request[c].at = "clear"
         /\ request'[c] \in RequestType /\ request'[c].at = "mark"
         /\ request'[c].life = request[c].life /\ request'[c].version = request[c].version
         /\ Steps(c, request'[c], {})
         /\ UNCHANGED <<row, life, stats, requests, refused>>
         /\ DOMAIN versions' = DOMAIN versions /\ S!Active' = {}
         /\ \E n \in Nat : versions' \in [1 .. n -> BOOLEAN]
         /\ lately' = IF \E d \in Requesters \ {c} : S!Busy(d, "mark") THEN "crossed" ELSE "open"
<1>1. request \in Requests /\ request[c] \in RequestType /\ request[c].at = "clear"
  BY BusyIs DEF S!Clear, RequestsTyped
<1>2. PICK q : q = S!GoesTo(c, "mark")
  OBVIOUS
<1>3. /\ q \in RequestType /\ q.at = "mark" /\ q.version = request[c].version
      /\ q.life = request[c].life
  BY <1>1, <1>2, AtIs DEF S!GoesTo, Queries
<1>4. Steps(c, q, {})
  BY <1>1, <1>2, <1>3, BecomesIs DEF S!Clear
<1>5. request'[c] = q
  BY <1>4 DEF Steps
<1>6. versions' = [v \in DOMAIN versions |-> FALSE]
  BY DEF S!Clear, S!ClearAll
<1>7. DOMAIN versions' = DOMAIN versions /\ S!Active' = {}
  BY <1>6 DEF S!Active
<1>8. \E n \in Nat : versions' \in [1 .. n -> BOOLEAN]
  BY <1>6 DEF RowsTyped
<1> QED
  BY <1>1, <1>3, <1>4, <1>5, <1>7, <1>8 DEF S!Clear

LEMMA MarkEffect ==
  ASSUME RowsTyped, RequestsTyped, NEW c \in Requesters, S!Mark(c)
  PROVE  /\ request[c] \in RequestType /\ request[c].at = "mark"
         /\ Quiet(c) /\ Steps(c, request'[c], {})
         /\ UNCHANGED <<row, life, stats, requests, refused>>
         /\ DOMAIN versions' = DOMAIN versions
         /\ \E n \in Nat : versions' \in [1 .. n -> BOOLEAN]
         /\ lately' = IF lately = "open" /\ request[c].life = life THEN "done" ELSE lately
         /\ request[c].life # life => versions' = versions
         /\ request[c].life = life /\ S!Active = {} /\ request[c].version \in DOMAIN versions =>
              S!Active' = {request[c].version}
<1>1. request \in Requests /\ request[c] \in RequestType /\ request[c].at = "mark"
  BY BusyIs DEF S!Mark, RequestsTyped
<1>2. PICK q : q = S!GoesTo(c, "point")
  OBVIOUS
<1>3. q \in RequestType /\ q.at \in QuietAt /\ q.life = request[c].life
  BY <1>1, <1>2, GoesQuietly DEF S!GoesTo, QuietAt
<1>4. Quiet(c) /\ Steps(c, request'[c], {})
  BY <1>1, <1>2, <1>3, QuietSteps, FieldsKnown DEF S!Mark
<1>5. PICK n \in Nat : versions \in [1 .. n -> BOOLEAN]
  BY DEF RowsTyped
<1>6. versions' = [v \in DOMAIN versions |->
                     versions[v] \/ (v = request[c].version /\ request[c].life = life)]
  BY DEF S!Mark
<1>7. /\ DOMAIN versions' = DOMAIN versions
      /\ \A v \in DOMAIN versions :
           versions'[v] = (versions[v] \/ (v = request[c].version /\ request[c].life = life))
  BY <1>6
<1>8. \A v \in DOMAIN versions :
        (versions[v] \/ (v = request[c].version /\ request[c].life = life)) \in BOOLEAN
  BY <1>5
<1>9. versions' \in [1 .. n -> BOOLEAN]
  BY <1>5, <1>6, <1>8
<1>10. ASSUME request[c].life # life
       PROVE  versions' = versions
  <2>1. \A v \in DOMAIN versions : versions'[v] = versions[v]
    <3>1. \A v \in DOMAIN versions : versions'[v] = (versions[v] \/ FALSE)
      BY <1>7, <1>10, Zenon
    <3>2. \A v \in DOMAIN versions : versions[v] \in BOOLEAN
      BY <1>5
    <3> QED
      BY <3>1, <3>2
  <2> QED
    BY <1>5, <1>7, <1>9, <2>1
<1>11. ASSUME request[c].life = life, S!Active = {}, request[c].version \in DOMAIN versions
       PROVE  S!Active' = {request[c].version}
  <2>1. \A v \in DOMAIN versions : ~versions[v]
    BY <1>11, Zenon DEF S!Active
  <2>2. \A v \in DOMAIN versions : versions'[v] <=> v = request[c].version
    BY <1>7, <1>11, <2>1, Zenon
  <2> QED
    BY <1>7, <1>11, <2>2, Zenon DEF S!Active
<1> QED
  BY <1>1, <1>4, <1>7, <1>9, <1>10, <1>11 DEF S!Mark

LEMMA PointEffect ==
  ASSUME RowsTyped, RequestsTyped, NEW c \in Requesters, S!Point(c)
  PROVE  /\ Quiet(c) /\ Steps(c, request'[c], {"current"})
         /\ UNCHANGED <<versions, life, stats, requests, lately, refused>>
         /\ \/ row' = row
            \/ /\ {row, row'} \subseteq RowType /\ row # NoRow
               /\ row'.mode = row.mode /\ row'.status = row.status
<1>1. request \in Requests /\ request[c] \in RequestType
  BY BusyIs DEF S!Point, RequestsTyped
<1>2. Quiet(c) /\ Steps(c, request'[c], {"current"})
  BY <1>1, QuietSteps, FieldsKnown DEF S!Point
<1>3. CASE row = NoRow
  BY <1>2, <1>3 DEF S!Point
<1>4. CASE row # NoRow
  <2>1. row \in RowType /\ request[c].version \in Nat
    BY <1>1, <1>4 DEF RowsTyped, RequestType
  <2>2. row' = [row EXCEPT !.current = request[c].version]
    BY <1>4 DEF S!Point
  <2>3. row' \in RowType /\ row'.mode = row.mode /\ row'.status = row.status
    BY <2>1, <2>2 DEF RowType
  <2> QED
    BY <1>2, <1>4, <2>1, <2>3 DEF S!Point
<1> QED
  BY <1>3, <1>4

LEMMA DeleteEffect ==
  ASSUME RowsTyped, RequestsTyped, NEW c \in Requesters, S!Delete(c)
  PROVE  /\ Quiet(c) /\ Steps(c, request'[c], AllFields)
         /\ row' = NoRow /\ versions' = <<>> /\ lately' = "never"
         /\ life' = IF row = NoRow THEN life ELSE life + 1
         /\ UNCHANGED <<stats, requests, refused>>
<1>1. request \in Requests /\ request[c] \in RequestType
  BY BusyIs DEF S!Delete, RequestsTyped
<1>2. Quiet(c) /\ Steps(c, request'[c], AllFields)
  BY <1>1, QuietSteps, FieldsKnown DEF S!Delete, AllFields
<1> QED
  BY <1>2 DEF S!Delete, RowsTyped

LEMMA WriteEffect ==
  ASSUME RowsTyped, RequestsTyped, NEW c \in Requesters, S!Write(c)
  PROVE  /\ request[c] \in RequestType /\ request[c].at = "write"
         /\ Quiet(c) /\ Steps(c, request'[c], {"status"})
         /\ UNCHANGED <<versions, life, stats, requests, lately, refused>>
         /\ \/ row' = row /\ row = NoRow
            \/ /\ {row, row'} \subseteq RowType /\ row # NoRow
               /\ row'.mode = row.mode /\ row'.current = row.current
               /\ row'.status = request[c].arg
<1>1. /\ request \in Requests /\ request[c] \in RequestType /\ request[c].at = "write"
      /\ request[c].arg \in S!Statuses
  BY BusyIs DEF S!Write, RequestsTyped, Writes
<1>2. Quiet(c) /\ Steps(c, request'[c], {"status"})
  BY <1>1, QuietSteps, FieldsKnown DEF S!Write
<1>3. CASE row = NoRow
  BY <1>1, <1>2, <1>3 DEF S!Write
<1>4. CASE row # NoRow
  <2>1. row \in RowType
    BY <1>4 DEF RowsTyped
  <2>2. row' = [row EXCEPT !.status = request[c].arg]
    BY <1>4 DEF S!Write
  <2>3. /\ row' \in RowType /\ row'.mode = row.mode /\ row'.current = row.current
        /\ row'.status = request[c].arg
    BY <1>1, <2>1, <2>2 DEF RowType
  <2> QED
    BY <1>1, <1>2, <1>4, <2>1, <2>3 DEF S!Write
<1> QED
  BY <1>3, <1>4

LEMMA EndEffect ==
  ASSUME RequestsTyped, NEW c \in Requesters, S!Keep(c) \/ S!Fail(c)
  PROVE  Quiet(c) /\ Steps(c, request'[c], {}) /\ StoreKept /\ requests' = requests
<1>1. S!Becomes(c, S!Idle) /\ StoreKept /\ requests' = requests
  BY DEF S!Keep, S!Fail, StoreKept
<1>2. Quiet(c) /\ Steps(c, request'[c], {})
  BY <1>1, QuietSteps, FieldsKnown DEF RequestsTyped
<1> QED
  BY <1>1, <1>2

(* The statistics of a backtest are its own until another one touches them.*)
OwnStats(c) ==
  request[c] \in RequestType /\ "stats" \notin request[c].since =>
    /\ request[c].at = "preload" => stats = S!NoStats
    /\ request[c].at = "simulate" => stats.prices = {c}
    /\ request[c].at = "keep" => request[c].saw = {c}

OwnStatsAll == \A c \in Requesters : OwnStats(c)

(* A step of a backtest on the statistics.                                 *)
Computes(c) ==
  /\ request'[c] \in RequestType /\ request'[c].at \in {"preload", "simulate", "keep"}
  /\ request'[c].life = request[c].life
  /\ Steps(c, request'[c], {"stats"}) /\ StatsTyped' /\ OwnStats(c)'
  /\ UNCHANGED <<row, versions, life, requests, lately, refused>>

LEMMA NoStatsTyped == S!NoStats \in [loaded : Requesters \union {NoRow}, prices : SUBSET Requesters]
BY DEF S!NoStats

LEMMA ResolveEffect ==
  ASSUME RequestsTyped, StatsTyped, NEW c \in Requesters, S!Resolve(c)
  PROVE  \/ Computes(c)
         \/ Quiet(c) /\ Steps(c, request'[c], {}) /\ StoreKept /\ requests' = requests
<1>1. request \in Requests /\ request[c] \in RequestType
  BY BusyIs DEF S!Resolve, RequestsTyped
<1>2. PICK q : q = S!GoesTo(c, "preload")
  OBVIOUS
<1>3. PICK r : r = [q EXCEPT !.since = {}]
  OBVIOUS
<1>4. q \in RequestType /\ q.at = "preload" /\ q.life = request[c].life
  BY <1>1, <1>2, AtIs DEF S!GoesTo, Queries
<1>s. {} \in SUBSET Known
  OBVIOUS
<1>5. r \in RequestType /\ r.at = "preload" /\ r.life = request[c].life
  BY <1>3, <1>4, <1>s, SinceIs
<1>6. CASE stats' = S!ResetStatistics /\ S!Wrote(c, {"stats"}, r)
  <2>1. Steps(c, r, {"stats"})
    BY <1>1, <1>5, <1>6, WroteIs, FieldsKnown
  <2>2. request'[c] = r
    BY <2>1 DEF Steps
  <2>3. stats' = S!NoStats /\ StatsTyped'
    BY <1>6, NoStatsTyped DEF S!ResetStatistics, StatsTyped
  <2>4. S!NoStats' = S!NoStats
    BY DEF S!NoStats
  <2> QED
    BY <1>5, <2>1, <2>2, <2>3, <2>4 DEF S!Resolve, Computes, OwnStats
<1>7. CASE S!Becomes(c, S!Idle) /\ UNCHANGED stats
  <2>1. Quiet(c) /\ Steps(c, request'[c], {})
    BY <1>1, <1>7, QuietSteps, FieldsKnown
  <2> QED
    BY <1>7, <2>1 DEF S!Resolve, StoreKept
<1> QED
  BY <1>2, <1>3, <1>6, <1>7 DEF S!Resolve

LEMMA PreloadEffect ==
  ASSUME RequestsTyped, StatsTyped, NEW c \in Requesters, OwnStats(c), S!Preload(c)
  PROVE  Computes(c)
<1>1. request \in Requests /\ request[c] \in RequestType /\ request[c].at = "preload"
  BY BusyIs DEF S!Preload, RequestsTyped
<1>2. PICK q : q = S!GoesTo(c, "simulate")
  OBVIOUS
<1>3. /\ q \in RequestType /\ q.at = "simulate" /\ q.life = request[c].life
      /\ q.since = request[c].since
  BY <1>1, <1>2, AtIs DEF S!GoesTo, Queries
<1>4. Steps(c, q, {"stats"})
  BY <1>1, <1>2, <1>3, WroteIs, FieldsKnown DEF S!Preload
<1>5. request'[c] = q
  BY <1>4 DEF Steps
<1>6. stats' = IF stats.loaded # NoRow THEN stats ELSE [loaded |-> c, prices |-> {c}]
  BY DEF S!Preload
<1>7. StatsTyped'
  BY <1>6 DEF StatsTyped
<1>8. "stats" \notin q.since => stats'.prices = {c}
  BY <1>1, <1>3, <1>6 DEF OwnStats, S!NoStats
<1> QED
  BY <1>3, <1>4, <1>5, <1>7, <1>8 DEF S!Preload, Computes, OwnStats

LEMMA SimulateEffect ==
  ASSUME RequestsTyped, StatsTyped, NEW c \in Requesters, OwnStats(c), S!Simulate(c)
  PROVE  Computes(c)
<1>1. request \in Requests /\ request[c] \in RequestType /\ request[c].at = "simulate"
  BY BusyIs DEF S!Simulate, RequestsTyped
<1>2. PICK q : q = S!GoesTo(c, "keep")
  OBVIOUS
<1>3. PICK r : r = [q EXCEPT !.saw = stats'.prices]
  OBVIOUS
<1>4. /\ q \in RequestType /\ q.at = "keep" /\ q.life = request[c].life
      /\ q.since = request[c].since
  BY <1>1, <1>2, AtIs DEF S!GoesTo, Queries
<1>5. PICK p : p = stats.prices \union {c}
  OBVIOUS
<1>6. stats' = [stats EXCEPT !.prices = p]
  BY <1>5 DEF S!Simulate
<1>7. p \in SUBSET Requesters
  BY <1>5 DEF StatsTyped
<1>8. StatsTyped' /\ stats'.prices = p
  BY <1>6, <1>7 DEF StatsTyped
<1>9. /\ r \in RequestType /\ r.at = "keep" /\ r.life = request[c].life
      /\ r.since = request[c].since /\ r.saw = p
  BY <1>3, <1>4, <1>7, <1>8, SawIs
<1>10. Steps(c, r, {"stats"})
  BY <1>1, <1>2, <1>3, <1>9, WroteIs, FieldsKnown DEF S!Simulate
<1>11. request'[c] = r
  BY <1>10 DEF Steps
<1>12. "stats" \notin r.since => r.saw = {c}
  BY <1>1, <1>5, <1>9 DEF OwnStats
<1> QED
  BY <1>8, <1>9, <1>10, <1>11, <1>12 DEF S!Simulate, Computes, OwnStats


-----------------------------------------------------------------------------
LEMMA OthersOwnStats ==
  ASSUME NEW c \in Requesters, NEW d \in Requesters \ {c}, NEW fields, OwnStats(d),
         Steps(c, request'[c], fields), stats' = stats \/ "stats" \in fields
  PROVE  OwnStats(d)'
<1>0. S!NoStats' = S!NoStats
  BY DEF S!NoStats
<1>1. CASE request'[d] = S!Idle
  BY <1>1, NotIdle DEF OwnStats
<1>2. CASE request[d] \in RequestType /\ Learns(request[d], request'[d], fields)
  BY <1>0, <1>2 DEF Learns, OwnStats
<1> QED
  BY <1>1, <1>2 DEF Steps

KnowsOf(d) == request[d] \in RequestType => KnowsRow(request[d])

LEMMA OthersKnow ==
  ASSUME NEW c \in Requesters, NEW d \in Requesters \ {c}, NEW fields,
         KnowsOf(d),
         Steps(c, request'[c], fields),
         \/ row' = row
         \/ AllFields \subseteq fields
         \/ /\ row # NoRow /\ row' # NoRow
            /\ row'.mode = row.mode \/ "mode" \in fields
            /\ row'.status = row.status \/ "status" \in fields
            /\ row'.current = row.current \/ "current" \in fields
  PROVE  KnowsOf(d)'
<1>1. CASE request'[d] = S!Idle
  BY <1>1, NotIdle DEF KnowsOf
<1>2. CASE request[d] \in RequestType /\ Learns(request[d], request'[d], fields)
  BY <1>2 DEF Learns, KnowsOf, KnowsRow, AllFields, S!Fields
<1> QED
  BY <1>1, <1>2 DEF Steps

LEMMA RequestsKept ==
  ASSUME RequestsTyped, NEW c \in Requesters, NEW fields, Steps(c, request'[c], fields),
         life \in Nat, life' \in Nat, life' >= life,
         request'[c] \in RequestType => Writes(request'[c]) /\ request'[c].life <= life'
  PROVE  RequestsTyped'
<1>1. request' \in Requests
  BY DEF Steps
<1>2. ASSUME NEW d \in Requesters \ {c}, request'[d] \in RequestType
      PROVE  Writes(request'[d]) /\ request'[d].life <= life'
  <2>1. request[d] \in RequestType /\ Learns(request[d], request'[d], fields)
    BY <1>2, NotIdle DEF Steps
  <2>2. Writes(request[d]) /\ request[d].life <= life
    BY <2>1 DEF RequestsTyped
  <2>3. Writes(request'[d])
    BY <2>1, <2>2 DEF Learns, Writes
  <2>4. request'[d].life = request[d].life /\ request[d].life \in Nat
    BY <2>1 DEF Learns, RequestType
  <2> QED
    BY <2>2, <2>3, <2>4
<1>3. \A d \in Requesters : request'[d] \in RequestType => Writes(request'[d]) /\ request'[d].life <= life'
  BY <1>2
<1> QED
  BY <1>1, <1>3 DEF RequestsTyped

LEMMA QuietWrites ==
  ASSUME RequestsTyped, NEW c \in Requesters, Quiet(c), life \in Nat, life' \in Nat, life' >= life
  PROVE  request'[c] \in RequestType => Writes(request'[c]) /\ request'[c].life <= life'
<1>1. SUFFICES ASSUME request'[c] \in RequestType
               PROVE  Writes(request'[c]) /\ request'[c].life <= life'
  OBVIOUS
<1>2. /\ {request[c], request'[c]} \subseteq RequestType /\ request'[c].at \in QuietAt
      /\ request'[c].life = request[c].life
  BY <1>1, NotIdle DEF Quiet
<1>3. request[c].life \in Nat /\ request[c].life <= life
  BY <1>2 DEF RequestsTyped, RequestType
<1>4. request'[c].at \notin {"save", "write"}
  BY <1>2 DEF QuietAt
<1> QED
  BY <1>2, <1>3, <1>4 DEF Writes

(* What a step of c does to the store, as the others see it.               *)
Shapes(c, fields) ==
  /\ Steps(c, request'[c], fields)
  /\ RowsTyped' /\ life' >= life
  /\ \/ row' = row
     \/ AllFields \subseteq fields
     \/ /\ row # NoRow /\ row' # NoRow
        /\ row'.mode = row.mode \/ "mode" \in fields
        /\ row'.status = row.status \/ "status" \in fields
        /\ row'.current = row.current \/ "current" \in fields

StoreTyped == RowsTyped /\ StatsTyped /\ RequestsTyped

LEMMA RowsKept ==
  ASSUME RowsTyped, UNCHANGED <<row, versions, life, refused>>, requests' \in Nat
  PROVE  RowsTyped' /\ life' >= life
BY DEF RowsTyped

LEMMA RowIsSomething ==
  ASSUME StoreAssumption
  PROVE  NoRow \notin RowType
BY DEF StoreAssumption, S!StoreAssumption, RowType

LEMMA StepShapes ==
  ASSUME StoreAssumption, StoreTyped, NEW c \in Requesters, OwnStats(c),
         \/ S!Begin(c) \/ S!BeginBlind(c) \/ S!Save(c) \/ S!List(c) \/ S!Create(c)
         \/ S!Select(c) \/ S!Clear(c) \/ S!Mark(c) \/ S!Point(c) \/ S!Delete(c) \/ S!Write(c)
         \/ S!Resolve(c) \/ S!Preload(c) \/ S!Simulate(c) \/ S!Keep(c) \/ S!Fail(c)
  PROVE  /\ \E fields : Shapes(c, fields) /\ (stats' = stats \/ "stats" \in fields)
         /\ request'[c] \in RequestType => Writes(request'[c]) /\ request'[c].life <= life'
         /\ StatsTyped' /\ OwnStats(c)' /\ KnowsOf(c)'
<1>0. /\ RowsTyped /\ StatsTyped /\ RequestsTyped /\ life \in Nat /\ requests \in Nat
      /\ NoRow \notin RowType
  BY RowIsSomething DEF StoreTyped, RowsTyped
<1>s. ASSUME stats' = stats PROVE StatsTyped'
  BY <1>0, <1>s DEF StatsTyped
<1>q. ASSUME Quiet(c), stats' = stats, life' \in Nat, life' >= life
      PROVE  /\ request'[c] \in RequestType => Writes(request'[c]) /\ request'[c].life <= life'
             /\ StatsTyped' /\ OwnStats(c)' /\ KnowsOf(c)'
  <2>1. request'[c] \in RequestType => request'[c].at \in QuietAt
    BY <1>q, NotIdle DEF Quiet
  <2>2. OwnStats(c)' /\ KnowsOf(c)'
    BY <2>1 DEF OwnStats, KnowsOf, KnowsRow, QuietAt
  <2> QED
    BY <1>0, <1>q, <1>s, <2>2, QuietWrites
<1>k. ASSUME StoreKept, requests' \in Nat, Steps(c, request'[c], {})
      PROVE  /\ \E fields : Shapes(c, fields) /\ (stats' = stats \/ "stats" \in fields)
             /\ stats' = stats /\ life' \in Nat /\ life' >= life
  BY <1>0, <1>k, RowsKept DEF StoreKept, Shapes
<1>1. CASE S!Begin(c) \/ S!BeginBlind(c)
  <2>1. /\ Steps(c, request'[c], {}) /\ StoreKept /\ requests' \in Nat
        /\ request'[c] \in RequestType /\ Writes(request'[c]) /\ request'[c].life = life
        /\ request'[c].at \in {"save", "write"} \union QuietAt
        /\ KnowsRow(request'[c])
    BY <1>0, <1>1, BeginEffect
  <2>2. KnowsOf(c)'
    BY <2>1 DEF KnowsOf, KnowsRow, StoreKept
  <2>3. OwnStats(c)'
    BY <2>1 DEF OwnStats, QuietAt
  <2>4. life' = life /\ request'[c].life <= life'
    BY <1>0, <2>1 DEF StoreKept
  <2> QED
    BY <1>0, <1>k, <1>s, <2>1, <2>2, <2>3, <2>4
<1>2. CASE S!Save(c)
  <2>1. /\ Steps(c, request'[c], AllFields) /\ Quiet(c) /\ row' \in RowType
        /\ UNCHANGED <<versions, life, stats, requests, lately, refused>>
    BY <1>0, <1>2, SaveEffect
  <2>2. RowsTyped' /\ life' >= life /\ life' \in Nat
    BY <1>0, <2>1 DEF RowsTyped
  <2>3. Shapes(c, AllFields)
    BY <2>1, <2>2 DEF Shapes
  <2> QED
    BY <1>q, <2>1, <2>2, <2>3
<1>3. CASE S!List(c)
  <2>1. Steps(c, request'[c], {}) /\ Quiet(c) /\ StoreKept /\ requests' = requests
    BY <1>0, <1>3, ListEffect
  <2> QED
    BY <1>0, <1>k, <1>q, <2>1
<1>4. CASE S!Create(c)
  <2>1. Quiet(c) /\ UNCHANGED <<life, stats, requests, lately, refused>>
    BY <1>0, <1>4, CreateEffect
  <2>2. CASE Steps(c, request'[c], {}) /\ UNCHANGED <<row, versions>>
    BY <1>0, <1>k, <1>q, <2>1, <2>2 DEF StoreKept
  <2>3. CASE /\ Steps(c, request'[c], {"current"}) /\ {row, row'} \subseteq RowType
             /\ row'.mode = row.mode /\ row'.status = row.status /\ row # NoRow
             /\ \E n \in Nat : versions' \in [1 .. n -> BOOLEAN]
    <3>1. RowsTyped' /\ life' >= life /\ life' \in Nat
      BY <1>0, <2>1, <2>3 DEF RowsTyped
    <3>2. Shapes(c, {"current"})
      BY <1>0, <2>3, <3>1 DEF Shapes
    <3> QED
      BY <1>q, <2>1, <3>1, <3>2
  <2> QED
    BY <1>0, <1>4, <2>2, <2>3, CreateEffect
<1>5. CASE S!Select(c)
  <2>1. /\ StoreKept /\ requests' = requests /\ Steps(c, request'[c], {})
        /\ \/ request'[c] = S!Idle
           \/ /\ request'[c] \in RequestType /\ request'[c].at = "clear"
              /\ request'[c].life = life
    BY <1>0, <1>5, SelectEffect
  <2>2. OwnStats(c)' /\ KnowsOf(c)'
    BY <2>1, NotIdle DEF OwnStats, KnowsOf, KnowsRow
  <2>3. request'[c] \in RequestType => Writes(request'[c]) /\ request'[c].life <= life'
    BY <1>0, <2>1, NotIdle DEF Writes, StoreKept
  <2> QED
    BY <1>0, <1>k, <1>s, <2>1, <2>2, <2>3
<1>6. CASE S!Clear(c)
  <2>1. /\ request[c] \in RequestType
        /\ request'[c] \in RequestType /\ request'[c].at = "mark"
        /\ request'[c].life = request[c].life /\ Steps(c, request'[c], {})
        /\ UNCHANGED <<row, life, stats, requests, refused>>
        /\ DOMAIN versions' = DOMAIN versions
        /\ \E n \in Nat : versions' \in [1 .. n -> BOOLEAN]
    BY <1>0, <1>6, ClearEffect
  <2>2. OwnStats(c)' /\ KnowsOf(c)' /\ Writes(request'[c])
    BY <2>1 DEF OwnStats, KnowsOf, KnowsRow, Writes
  <2>3. RowsTyped' /\ life' = life
    BY <1>0, <2>1 DEF RowsTyped
  <2>4. request'[c].life <= life'
    BY <1>0, <2>1 DEF RequestsTyped
  <2>5. Shapes(c, {})
    BY <1>0, <2>1, <2>3 DEF Shapes
  <2> QED
    BY <1>s, <2>1, <2>2, <2>4, <2>5
<1>7. CASE S!Mark(c)
  <2>1. /\ Quiet(c) /\ Steps(c, request'[c], {})
        /\ UNCHANGED <<row, life, stats, requests, refused>>
        /\ DOMAIN versions' = DOMAIN versions
        /\ \E n \in Nat : versions' \in [1 .. n -> BOOLEAN]
    BY <1>0, <1>7, MarkEffect
  <2>2. RowsTyped' /\ life' = life /\ life' >= life /\ life' \in Nat
    BY <1>0, <2>1 DEF RowsTyped
  <2>3. Shapes(c, {})
    BY <1>0, <2>1, <2>2 DEF Shapes
  <2> QED
    BY <1>q, <2>1, <2>2, <2>3
<1>8. CASE S!Point(c)
  <2>1. /\ Quiet(c) /\ Steps(c, request'[c], {"current"})
        /\ UNCHANGED <<versions, life, stats, requests, lately, refused>>
        /\ \/ row' = row
           \/ /\ {row, row'} \subseteq RowType /\ row # NoRow
              /\ row'.mode = row.mode /\ row'.status = row.status
    BY <1>0, <1>8, PointEffect
  <2>2. RowsTyped' /\ life' = life /\ life' >= life /\ life' \in Nat
    BY <1>0, <2>1 DEF RowsTyped
  <2>3. Shapes(c, {"current"})
    BY <1>0, <2>1, <2>2 DEF Shapes
  <2> QED
    BY <1>q, <2>1, <2>2, <2>3
<1>9. CASE S!Delete(c)
  <2>1. /\ Quiet(c) /\ Steps(c, request'[c], AllFields)
        /\ row' = NoRow /\ versions' = <<>>
        /\ life' = IF row = NoRow THEN life ELSE life + 1
        /\ UNCHANGED <<stats, requests, refused>>
    BY <1>0, <1>9, DeleteEffect
  <2>2. life' >= life /\ life' \in Nat
    BY <1>0, <2>1
  <2>3. DOMAIN versions' = {} /\ versions' \in [1 .. 0 -> BOOLEAN]
    BY <2>1
  <2>4. RowsTyped'
    BY <1>0, <2>1, <2>2, <2>3 DEF RowsTyped
  <2>5. Shapes(c, AllFields)
    BY <2>1, <2>2, <2>4 DEF Shapes
  <2> QED
    BY <1>q, <2>1, <2>2, <2>5
<1>10. CASE S!Write(c)
  <2>1. /\ Quiet(c) /\ Steps(c, request'[c], {"status"})
        /\ UNCHANGED <<versions, life, stats, requests, lately, refused>>
        /\ \/ row' = row
           \/ /\ {row, row'} \subseteq RowType /\ row # NoRow
              /\ row'.mode = row.mode /\ row'.current = row.current
    BY <1>0, <1>10, WriteEffect
  <2>2. RowsTyped' /\ life' = life /\ life' >= life /\ life' \in Nat
    BY <1>0, <2>1 DEF RowsTyped
  <2>3. Shapes(c, {"status"})
    BY <1>0, <2>1, <2>2 DEF Shapes
  <2> QED
    BY <1>q, <2>1, <2>2, <2>3
<1>11. CASE S!Resolve(c) \/ S!Preload(c) \/ S!Simulate(c)
  <2>1. \/ Computes(c)
        \/ Quiet(c) /\ Steps(c, request'[c], {}) /\ StoreKept /\ requests' = requests
    BY <1>0, <1>11, ResolveEffect, PreloadEffect, SimulateEffect
  <2>2. CASE Computes(c)
    <3>1. /\ request[c] \in RequestType
          /\ request'[c] \in RequestType /\ request'[c].at \in {"preload", "simulate", "keep"}
          /\ request'[c].life = request[c].life
          /\ Steps(c, request'[c], {"stats"}) /\ StatsTyped' /\ OwnStats(c)'
          /\ UNCHANGED <<row, versions, life, requests, lately, refused>>
      BY <1>0, <1>11, <2>2, BusyIs DEF Computes, S!Resolve, S!Preload, S!Simulate, RequestsTyped
    <3>2. KnowsOf(c)' /\ Writes(request'[c])
      BY <3>1 DEF KnowsOf, KnowsRow, Writes
    <3>3. RowsTyped' /\ life' >= life
      BY <1>0, <3>1, RowsKept
    <3>4. request'[c].life <= life'
      BY <1>0, <3>1 DEF RequestsTyped
    <3>5. Shapes(c, {"stats"})
      BY <3>1, <3>3 DEF Shapes
    <3> QED
      BY <3>1, <3>2, <3>4, <3>5
  <2>3. CASE Quiet(c) /\ Steps(c, request'[c], {}) /\ StoreKept /\ requests' = requests
    BY <1>0, <1>k, <1>q, <2>3
  <2> QED
    BY <2>1, <2>2, <2>3
<1>12. CASE S!Keep(c) \/ S!Fail(c)
  <2>1. Quiet(c) /\ Steps(c, request'[c], {}) /\ StoreKept /\ requests' = requests
    BY <1>0, <1>12, EndEffect
  <2> QED
    BY <1>0, <1>k, <1>q, <2>1
<1> QED
  BY <1>1, <1>2, <1>3, <1>4, <1>5, <1>6, <1>7, <1>8, <1>9, <1>10, <1>11, <1>12

(* An activation under way in the life of the strategy it found.           *)
Within(c, at) == request[c] \in RequestType /\ request[c].at = at /\ request[c].life = life

Activations ==
  /\ lately \in {"never", "open", "done", "crossed"}
  /\ \A c \in Requesters : Within(c, "clear") \/ Within(c, "mark") =>
       request[c].version \in DOMAIN versions
  /\ \A c \in Requesters : Within(c, "mark") => lately \in {"open", "crossed"}
  /\ lately = "open" =>
       \A c, d \in Requesters : Within(c, "mark") /\ Within(d, "mark") => c = d
  /\ lately \in {"never", "open"} => S!Active = {}
  /\ lately = "done" => \E v \in DOMAIN versions : S!Active = {v}

LEMMA OthersWithin ==
  ASSUME NEW c \in Requesters, NEW fields, Steps(c, request'[c], fields), life' = life,
         NEW d \in Requesters \ {c}, NEW at, Within(d, at)'
  PROVE  Within(d, at) /\ request'[d].version = request[d].version
BY NotIdle DEF Steps, Learns, Within

(* A step that is not of an activation.                                    *)
LEMMA NotActivating ==
  ASSUME Activations, NEW c \in Requesters, NEW fields, Steps(c, request'[c], fields),
         life' = life, lately' = lately, S!Active' = S!Active,
         DOMAIN versions \subseteq DOMAIN versions',
         request'[c] \in RequestType => request'[c].at \notin {"clear", "mark"}
  PROVE  Activations'
<1>1. \A d \in Requesters : Within(d, "clear")' \/ Within(d, "mark")' => d # c
  BY DEF Within
<1>2. \A d \in Requesters : \A at \in {"clear", "mark"} : Within(d, at)' =>
        Within(d, at) /\ request'[d].version = request[d].version
  BY <1>1, OthersWithin
<1>3. /\ \A d \in Requesters : Within(d, "mark")' => Within(d, "mark")
      /\ \A d \in Requesters : Within(d, "clear")' \/ Within(d, "mark")' =>
           request'[d].version \in DOMAIN versions'
  BY <1>2 DEF Activations
<1> QED
  BY <1>3 DEF Activations

LEMMA ActiveSame ==
  ASSUME versions' = versions
  PROVE  S!Active' = S!Active /\ DOMAIN versions \subseteq DOMAIN versions'
BY DEF S!Active

LEMMA QuietAway ==
  ASSUME NEW c, Quiet(c)
  PROVE  request'[c] \in RequestType => request'[c].at \notin {"clear", "mark"}
BY NotIdle DEF Quiet, QuietAt

LEMMA ActivationsKept ==
  ASSUME StoreAssumption, StoreTyped, Activations, NEW c \in Requesters, OwnStats(c),
         \/ S!Begin(c) \/ S!BeginBlind(c) \/ S!Save(c) \/ S!List(c) \/ S!Create(c)
         \/ S!Select(c) \/ S!Clear(c) \/ S!Mark(c) \/ S!Point(c) \/ S!Delete(c) \/ S!Write(c)
         \/ S!Resolve(c) \/ S!Preload(c) \/ S!Simulate(c) \/ S!Keep(c) \/ S!Fail(c)
  PROVE  Activations'
<1>0. RowsTyped /\ StatsTyped /\ RequestsTyped /\ life \in Nat
  BY DEF StoreTyped, RowsTyped
<1>k. ASSUME NEW fields, Steps(c, request'[c], fields), UNCHANGED <<versions, life, lately>>,
             request'[c] \in RequestType => request'[c].at \notin {"clear", "mark"}
      PROVE  Activations'
  BY <1>k, NotActivating, ActiveSame
<1>1. CASE S!Begin(c) \/ S!BeginBlind(c)
  <2>1. /\ Steps(c, request'[c], {}) /\ StoreKept
        /\ request'[c].at \in {"save", "write"} \union QuietAt
    BY <1>0, <1>1, BeginEffect
  <2> QED
    BY <1>k, <2>1 DEF StoreKept, QuietAt
<1>2. CASE S!Save(c)
  BY <1>0, <1>2, <1>k, SaveEffect, QuietAway
<1>3. CASE S!List(c) \/ S!Keep(c) \/ S!Fail(c)
  <2>1. Steps(c, request'[c], {}) /\ Quiet(c) /\ StoreKept
    BY <1>0, <1>3, ListEffect, EndEffect
  <2> QED
    BY <1>k, <2>1, QuietAway DEF StoreKept
<1>4. CASE S!Create(c)
  <2>1. Quiet(c) /\ UNCHANGED <<life, lately>>
    BY <1>0, <1>4, CreateEffect
  <2>2. CASE Steps(c, request'[c], {}) /\ UNCHANGED versions
    BY <1>k, <2>1, <2>2, QuietAway
  <2>3. CASE /\ Steps(c, request'[c], {"current"})
             /\ S!Active' = S!Active /\ DOMAIN versions \subseteq DOMAIN versions'
    BY <2>1, <2>3, QuietAway, NotActivating
  <2> QED
    BY <1>0, <1>4, <2>2, <2>3, CreateEffect
<1>5. CASE S!Select(c)
  <2>1. StoreKept /\ Steps(c, request'[c], {})
    BY <1>0, <1>5, SelectEffect
  <2>2. CASE request'[c] = S!Idle
    BY <1>k, <2>1, <2>2, NotIdle DEF StoreKept
  <2>3. CASE /\ request'[c] \in RequestType /\ request'[c].at = "clear"
             /\ request'[c].version \in DOMAIN versions
    <3>1. \A d \in Requesters : Within(d, "mark")' => Within(d, "mark")
      BY <2>1, <2>3, OthersWithin DEF Within, StoreKept
    <3>2. \A d \in Requesters \ {c} : Within(d, "clear")' \/ Within(d, "mark")' =>
            request'[d].version \in DOMAIN versions
      BY <2>1, OthersWithin DEF Activations, StoreKept
    <3>3. \A d \in Requesters : Within(d, "clear")' \/ Within(d, "mark")' =>
            request'[d].version \in DOMAIN versions'
      BY <2>1, <2>3, <3>2 DEF StoreKept
    <3>4. UNCHANGED <<versions, lately>> /\ S!Active' = S!Active
      BY <2>1, ActiveSame DEF StoreKept
    <3> QED
      BY <3>1, <3>3, <3>4 DEF Activations
  <2> QED
    BY <1>0, <1>5, <2>2, <2>3, SelectEffect
<1>6. CASE S!Clear(c)
  <2>1. /\ request[c] \in RequestType /\ request[c].at = "clear"
        /\ request'[c] \in RequestType /\ request'[c].at = "mark"
        /\ request'[c].life = request[c].life /\ request'[c].version = request[c].version
        /\ Steps(c, request'[c], {}) /\ life' = life
        /\ DOMAIN versions' = DOMAIN versions /\ S!Active' = {}
        /\ lately' = IF \E d \in Requesters \ {c} : S!Busy(d, "mark") THEN "crossed" ELSE "open"
    BY <1>0, <1>6, ClearEffect
  <2>2. Within(c, "mark")' => Within(c, "clear")
    BY <2>1 DEF Within
  <2>3. \A d \in Requesters : Within(d, "clear")' \/ Within(d, "mark")' =>
          request'[d].version \in DOMAIN versions'
    <3>1. ASSUME NEW d \in Requesters \ {c}, Within(d, "clear")' \/ Within(d, "mark")'
          PROVE  request'[d].version \in DOMAIN versions'
      BY <2>1, <3>1, OthersWithin DEF Activations
    <3>2. ASSUME Within(c, "clear")' \/ Within(c, "mark")'
          PROVE  request'[c].version \in DOMAIN versions'
      BY <2>1, <2>2, <3>2 DEF Activations, Within
    <3> QED
      BY <3>1, <3>2
  <2>4. ASSUME lately' = "open", NEW d \in Requesters, Within(d, "mark")'
        PROVE  d = c
    <3>1. \A e \in Requesters \ {c} : ~S!Busy(e, "mark")
      BY <2>1, <2>4
    <3>2. d # c => Within(d, "mark")
      BY <2>1, <2>4, OthersWithin
    <3> QED
      BY <3>1, <3>2, NotIdle DEF Within, S!Busy
  <2>5. lately' \in {"open", "crossed"}
    BY <2>1
  <2> QED
    BY <2>1, <2>3, <2>4, <2>5 DEF Activations
<1>7. CASE S!Mark(c)
  <2>1. /\ request[c] \in RequestType /\ request[c].at = "mark"
        /\ Quiet(c) /\ Steps(c, request'[c], {}) /\ life' = life
        /\ DOMAIN versions' = DOMAIN versions
        /\ lately' = IF lately = "open" /\ request[c].life = life THEN "done" ELSE lately
        /\ request[c].life # life => versions' = versions
        /\ request[c].life = life /\ S!Active = {} /\ request[c].version \in DOMAIN versions =>
             S!Active' = {request[c].version}
    BY <1>0, <1>7, MarkEffect
  <2>2. CASE request[c].life # life
    BY <1>k, <2>1, <2>2, QuietAway
  <2>3. CASE request[c].life = life
    <3>1. Within(c, "mark")
      BY <2>1, <2>3 DEF Within
    <3>2. request[c].version \in DOMAIN versions /\ lately \in {"open", "crossed"}
      BY <3>1 DEF Activations
    <3>3. \A d \in Requesters : Within(d, "clear")' \/ Within(d, "mark")' => d # c
      BY <2>1, QuietAway DEF Within
    <3>4. \A d \in Requesters : \A at \in {"clear", "mark"} : Within(d, at)' =>
            Within(d, at) /\ request'[d].version = request[d].version
      BY <2>1, <3>3, OthersWithin
    <3>5. \A d \in Requesters : Within(d, "clear")' \/ Within(d, "mark")' =>
            request'[d].version \in DOMAIN versions'
      BY <2>1, <3>4 DEF Activations
    <3>6. CASE lately = "open"
      <4>1. S!Active' = {request[c].version} /\ lately' = "done"
        BY <2>1, <2>3, <3>2, <3>6 DEF Activations
      <4>2. \A d \in Requesters : ~Within(d, "mark")'
        BY <3>1, <3>3, <3>4, <3>6 DEF Activations
      <4> QED
        BY <2>1, <3>2, <3>5, <4>1, <4>2 DEF Activations
    <3>7. CASE lately = "crossed"
      BY <2>1, <3>5, <3>7 DEF Activations
    <3> QED
      BY <3>2, <3>6, <3>7
  <2> QED
    BY <2>2, <2>3
<1>8. CASE S!Point(c)
  BY <1>0, <1>8, <1>k, PointEffect, QuietAway
<1>9. CASE S!Delete(c)
  <2>1. /\ Quiet(c) /\ Steps(c, request'[c], AllFields)
        /\ versions' = <<>> /\ lately' = "never"
        /\ life' = IF row = NoRow THEN life ELSE life + 1
    BY <1>0, <1>9, DeleteEffect
  <2>2. S!Active' = {}
    BY <2>1 DEF S!Active
  <2>3. ASSUME NEW d \in Requesters, NEW at \in {"clear", "mark"}, Within(d, at)'
        PROVE  FALSE
    <3>1. d # c
      BY <2>1, <2>3, QuietAway DEF Within
    <3>2. /\ request[d] \in RequestType /\ request[d].at = at /\ request[d].life = life'
          /\ request[d].life <= life /\ request[d].life \in Nat
      BY <1>0, <2>1, <2>3, <3>1, NotIdle DEF Within, Steps, Learns, RequestsTyped, RequestType
    <3>3. row = NoRow /\ life' = life
      BY <1>0, <2>1, <3>2
    <3>4. DOMAIN versions = {} /\ Within(d, at)
      BY <1>0, <3>2, <3>3 DEF RowsTyped, Within
    <3> QED
      BY <3>4 DEF Activations
  <2> QED
    BY <2>1, <2>2, <2>3 DEF Activations
<1>10. CASE S!Write(c)
  BY <1>0, <1>10, <1>k, WriteEffect, QuietAway
<1>11. CASE S!Resolve(c) \/ S!Preload(c) \/ S!Simulate(c)
  <2>1. \/ Computes(c)
        \/ Quiet(c) /\ Steps(c, request'[c], {}) /\ StoreKept
    BY <1>0, <1>11, ResolveEffect, PreloadEffect, SimulateEffect
  <2>2. CASE Computes(c)
    BY <1>k, <2>2 DEF Computes
  <2>3. CASE Quiet(c) /\ Steps(c, request'[c], {}) /\ StoreKept
    BY <1>k, <2>3, QuietAway DEF StoreKept
  <2> QED
    BY <2>1, <2>2, <2>3
<1> QED
  BY <1>1, <1>2, <1>3, <1>4, <1>5, <1>6, <1>7, <1>8, <1>9, <1>10, <1>11
-----------------------------------------------------------------------------
KnowsAll == \A c \in Requesters : KnowsOf(c)

StoreInv == StoreTyped /\ OwnStatsAll /\ KnowsAll /\ Activations

LEMMA StoreInit == S!Init => StoreInv
<1> SUFFICES ASSUME S!Init PROVE StoreInv
  OBVIOUS
<1>1. \A c \in Requesters : request[c] = S!Idle /\ request[c] \notin RequestType
  BY NotIdle DEF S!Init
<1>2. request \in Requests
  BY DEF S!Init, Requests
<1>3. versions \in [1 .. 0 -> BOOLEAN] /\ DOMAIN versions = {}
  BY DEF S!Init
<1>4. RowsTyped
  BY <1>3 DEF S!Init, RowsTyped
<1>5. StatsTyped
  BY NoStatsTyped DEF S!Init, StatsTyped
<1>6. S!Active = {}
  BY <1>3 DEF S!Active
<1> QED
  BY <1>1, <1>2, <1>4, <1>5, <1>6
  DEF StoreInv, StoreTyped, RequestsTyped, OwnStatsAll, OwnStats, KnowsAll, KnowsOf, Activations,
      Within, S!Init

LEMMA StoreStep ==
  ASSUME StoreAssumption, StoreInv, [S!Next]_S!vars
  PROVE  StoreInv'
<1>1. CASE UNCHANGED S!vars
  BY <1>1 DEF S!vars, StoreInv, StoreTyped, RowsTyped, StatsTyped, RequestsTyped, Requests,
     OwnStatsAll, OwnStats, S!NoStats, KnowsAll, KnowsOf, KnowsRow, Activations, Within, S!Active
<1>2. ASSUME NEW c \in Requesters,
         \/ S!Begin(c) \/ S!BeginBlind(c) \/ S!Save(c) \/ S!List(c) \/ S!Create(c)
         \/ S!Select(c) \/ S!Clear(c) \/ S!Mark(c) \/ S!Point(c) \/ S!Delete(c) \/ S!Write(c)
         \/ S!Resolve(c) \/ S!Preload(c) \/ S!Simulate(c) \/ S!Keep(c) \/ S!Fail(c)
      PROVE  StoreInv'
  <2>0. StoreTyped /\ Activations /\ OwnStats(c) /\ (\A d \in Requesters : OwnStats(d) /\ KnowsOf(d))
    BY DEF StoreInv, OwnStatsAll, KnowsAll
  <2>1. /\ \E fields : Shapes(c, fields) /\ (stats' = stats \/ "stats" \in fields)
        /\ request'[c] \in RequestType => Writes(request'[c]) /\ request'[c].life <= life'
        /\ StatsTyped' /\ OwnStats(c)' /\ KnowsOf(c)'
    BY <1>2, <2>0, StepShapes
  <2>2. Activations'
    BY <1>2, <2>0, ActivationsKept
  <2>3. PICK fields : Shapes(c, fields) /\ (stats' = stats \/ "stats" \in fields)
    BY <2>1
  <2>4. RowsTyped' /\ life \in Nat /\ life' \in Nat /\ life' >= life /\ Steps(c, request'[c], fields)
    BY <2>0, <2>3 DEF Shapes, StoreTyped, RowsTyped
  <2>5. RequestsTyped'
    BY <2>0, <2>1, <2>4, RequestsKept DEF StoreTyped
  <2>6. \A d \in Requesters \ {c} : OwnStats(d)'
    BY <2>0, <2>3, <2>4, OthersOwnStats
  <2>7. \A d \in Requesters \ {c} : KnowsOf(d)'
    BY <2>0, <2>3, OthersKnow DEF Shapes
  <2>8. OwnStatsAll' /\ KnowsAll'
    BY <2>1, <2>6, <2>7 DEF OwnStatsAll, KnowsAll
  <2> QED
    BY <2>1, <2>2, <2>4, <2>5, <2>8 DEF StoreInv, StoreTyped
<1> QED
  BY <1>1, <1>2 DEF S!Next

LEMMA StoreInvariant == S!Spec => []StoreInv
BY StoreInit, StoreStep, StoreAssumption, PTL DEF S!Spec

(* Whatever requests cross or break off, no two versions are active unless *)
(* two activations ran into each other, exactly one is once an activation  *)
(* ran to its end, and versions are numbered without a gap; and what a     *)
(* version says went through the checks its request promises.              *)
THEOREM VersionsAlwaysSound == StrategiesSpec => []VersionsAreSound
<1>1. StoreInv => S!VersionsInOrder
  <2> SUFFICES ASSUME StoreInv PROVE S!VersionsInOrder
    OBVIOUS
  <2>1. RowsTyped /\ Activations
    BY DEF StoreInv, StoreTyped
  <2>2. PICK n \in Nat : DOMAIN versions = 1 .. n /\ Cardinality(1 .. n) = n
    BY <2>1, VersionsNumbered
  <2>c. \A X : S!Cardinality(X) = Cardinality(X)
    BY Zenon DEF S!Cardinality, Cardinality, S!IsFiniteSet, IsFiniteSet
  <2>3. S!EveryVersionGetsItsNumber
    BY <2>1, <2>2, <2>c DEF S!EveryVersionGetsItsNumber, RowsTyped
  <2>4. CASE lately \in {"never", "open"}
    <3>1. Cardinality(S!Active) = 0
      BY <2>1, <2>4, FS_EmptySet DEF Activations
    <3> QED
      BY <2>3, <2>4, <3>1, <2>c DEF S!VersionsInOrder, S!OneVersionRuns
  <2>5. CASE lately = "done"
    <3>1. \E v : S!Active = {v}
      BY <2>1, <2>5 DEF Activations
    <3>2. Cardinality(S!Active) = 1
      BY <3>1, FS_Singleton
    <3> QED
      BY <2>3, <2>5, <3>2, <2>c DEF S!VersionsInOrder, S!OneVersionRuns
  <2>6. CASE lately = "crossed"
    BY <2>3, <2>6 DEF S!VersionsInOrder, S!OneVersionRuns
  <2> QED
    BY <2>1, <2>4, <2>5, <2>6 DEF Activations
<1> QED
  BY <1>1, PartsOfStrategies, StoreInvariant, TextsInvariant, PTL DEF VersionsAreSound

(* The result of a backtest that no other one ran into is made of its own  *)
(* prices, however many ran before it or broke off.                        *)
THEOREM PricesAlwaysOwn == StrategiesSpec => []OwnPricesOnly
<1>1. StoreInv => OwnPricesOnly
  <2> SUFFICES ASSUME StoreInv, NEW c \in Requesters, S!Busy(c, "keep")
               PROVE  request[c].saw = {c} \/ "stats" \in request[c].since
    BY DEF OwnPricesOnly, S!OwnPricesOnly
  <2>1. request[c] \in RequestType /\ request[c].at = "keep" /\ OwnStats(c)
    BY BusyIs DEF StoreInv, StoreTyped, RequestsTyped, OwnStatsAll
  <2> QED
    BY <2>1 DEF OwnStats
<1> QED
  BY <1>1, PartsOfStrategies, StoreInvariant, PTL

-----------------------------------------------------------------------------
(* Only its own step takes a request away from a query.                    *)
LEMMA OthersStayAt ==
  ASSUME NEW c \in Requesters, NEW d \in Requesters \ {c}, NEW fields,
         Steps(c, request'[c], fields), NEW at, S!Busy(d, at)
  PROVE  S!Busy(d, at)'
BY NotIdle DEF Steps, Learns, S!Busy, S!Idle

LEMMA SavesKnowingly ==
  ASSUME StoreAssumption, StoreInv, NEW c \in Requesters, S!Save(c)
  PROVE  IF row = NoRow THEN "exists" \in S!OwnFields(c) \union request[c].since
         ELSE \A f \in S!Fields \ (S!OwnFields(c) \union request[c].since) : row'[f] = row[f]
<1>1. /\ RowsTyped /\ RequestsTyped /\ KnowsOf(c)
  BY DEF StoreInv, StoreTyped, KnowsAll
<1>2. /\ request[c] \in RequestType /\ request[c].at = "save" /\ row' = S!SavedRow(c)
      /\ Writes(request[c]) /\ KnowsRow(request[c])
  BY <1>1, SaveEffect DEF RequestsTyped, KnowsOf
<1>3. CASE request[c].op \in {"create", "generate"}
  <2>1. S!OwnFields(c) = S!Fields \union {"exists"}
    BY <1>3 DEF S!OwnFields
  <2> QED
    BY <2>1
<1>4. CASE request[c].op \in {"edit", "toggle"}
  <2>1. S!OwnFields(c) = {"mode"}
    BY <1>4 DEF S!OwnFields
  <2>2. /\ row' = [request[c].read EXCEPT !.mode = request[c].arg]
        /\ request[c].read \in RowType
    BY <1>2, <1>4 DEF S!SavedRow, Writes
  <2>3. row'.status = request[c].read.status /\ row'.current = request[c].read.current
    BY <2>2 DEF RowType
  <2> QED
    BY <1>2, <1>4, <2>1, <2>3 DEF KnowsRow, AllFields, S!Fields
<1>5. CASE request[c].op = "lifecycle"
  <2>1. S!OwnFields(c) = {"status"}
    BY <1>5 DEF S!OwnFields
  <2>2. /\ row' = [request[c].read EXCEPT !.status = request[c].arg]
        /\ request[c].read \in RowType
    BY <1>2, <1>5 DEF S!SavedRow, Writes
  <2>3. row'.mode = request[c].read.mode /\ row'.current = request[c].read.current
    BY <2>2 DEF RowType
  <2> QED
    BY <1>2, <1>5, <2>1, <2>3 DEF KnowsRow, AllFields, S!Fields
<1> QED
  BY <1>2, <1>3, <1>4, <1>5 DEF Writes

LEMMA MovesKnowingly ==
  ASSUME StoreAssumption, StoreInv, NEW c \in Requesters, S!Write(c), row # row',
         "status" \notin request[c].since
  PROVE  row'.status \in S!ValidTransitions[row.status]
<1>1. /\ RowsTyped /\ RequestsTyped /\ KnowsOf(c)
  BY DEF StoreInv, StoreTyped, KnowsAll
<1>2. /\ request[c] \in RequestType /\ request[c].at = "write" /\ row # NoRow
      /\ row'.status = request[c].arg /\ Writes(request[c]) /\ KnowsRow(request[c])
  BY <1>1, WriteEffect DEF RequestsTyped, KnowsOf
<1>3. request[c].read.status = row.status
  BY <1>2 DEF KnowsRow, Writes, AllFields, S!Fields
<1> QED
  BY <1>2, <1>3 DEF Writes

(* No save loses what another request wrote before it read, or brings a    *)
(* strategy back that was gone when it read; and the status moves along    *)
(* the table unless it was written since.                                  *)
THEOREM WritesAlwaysSound == StrategiesSpec => WritesAreSound
<1>1. ASSUME StoreAssumption, StoreInv, [S!Next]_S!vars, NEW c \in Requesters, NEW at \in {"save", "write"},
             S!Busy(c, at), ~S!Busy(c, at)', row' # row
      PROVE  (at = "save" /\ S!Save(c)) \/ (at = "write" /\ S!Write(c))
  <2>1. PICK d \in Requesters :
         \/ S!Begin(d) \/ S!BeginBlind(d) \/ S!Save(d) \/ S!List(d) \/ S!Create(d)
         \/ S!Select(d) \/ S!Clear(d) \/ S!Mark(d) \/ S!Point(d) \/ S!Delete(d) \/ S!Write(d)
         \/ S!Resolve(d) \/ S!Preload(d) \/ S!Simulate(d) \/ S!Keep(d) \/ S!Fail(d)
    BY <1>1 DEF S!Next, S!vars
  <2>2. StoreTyped /\ OwnStats(d) /\ request \in Requests
    BY <1>1 DEF StoreInv, OwnStatsAll, StoreTyped, RequestsTyped
  <2>3. \E fields : Shapes(d, fields)
    BY <1>1, <2>1, <2>2, StepShapes
  <2>4. d = c
    BY <1>1, <2>3, OthersStayAt DEF Shapes
  <2>5. request[c] \in RequestType /\ request[c].at = at
    BY <1>1, <2>2, BusyIs
  <2>6. ~S!Begin(c) /\ ~S!BeginBlind(c)
    BY <2>5, NotIdle DEF S!Begin, S!BeginBlind, S!Arrives
  <2>7. ~S!Keep(c) /\ ~S!Fail(c)
    BY <1>1 DEF S!Keep, S!Fail
  <2>8. \/ S!Save(c) \/ S!Write(c)
    BY <1>1, <2>1, <2>4, <2>5, <2>6, <2>7
    DEF S!List, S!Create, S!Select, S!Clear, S!Mark, S!Point, S!Delete, S!Resolve, S!Preload,
        S!Simulate, S!Busy
  <2> QED
    BY <2>5, <2>8 DEF S!Save, S!Write, S!Busy
<1>2. ASSUME StoreAssumption, StoreInv, [S!Next]_S!vars, row' # row
      PROVE  /\ \A c \in Requesters : S!Saves(c) =>
                  IF row = NoRow THEN "exists" \in S!OwnFields(c) \union request[c].since
                  ELSE \A f \in S!Fields \ (S!OwnFields(c) \union request[c].since) : row'[f] = row[f]
             /\ \A c \in Requesters :
                  S!Busy(c, "write") /\ ~S!Busy(c, "write")' /\ "status" \notin request[c].since =>
                    row'.status \in S!ValidTransitions[row.status]
  <2>1. ASSUME NEW c \in Requesters, S!Saves(c)
        PROVE  IF row = NoRow THEN "exists" \in S!OwnFields(c) \union request[c].since
               ELSE \A f \in S!Fields \ (S!OwnFields(c) \union request[c].since) : row'[f] = row[f]
    <3>1. S!Save(c)
      BY <1>1, <1>2, <2>1 DEF S!Saves
    <3> QED
      BY <1>2, <3>1, SavesKnowingly
  <2>2. ASSUME NEW c \in Requesters, S!Busy(c, "write"), ~S!Busy(c, "write")',
               "status" \notin request[c].since
        PROVE  row'.status \in S!ValidTransitions[row.status]
    <3>1. S!Write(c)
      BY <1>1, <1>2, <2>2
    <3> QED
      BY <1>2, <2>2, <3>1, MovesKnowingly
  <2> QED
    BY <2>1, <2>2
<1>3. StoreAssumption /\ StoreInv /\ [S!Next]_S!vars =>
        [\A c \in Requesters : S!Saves(c) =>
           IF row = NoRow THEN "exists" \in S!OwnFields(c) \union request[c].since
           ELSE \A f \in S!Fields \ (S!OwnFields(c) \union request[c].since) : row'[f] = row[f]]_S!vars
  <2> SUFFICES ASSUME StoreAssumption, StoreInv, [S!Next]_S!vars, NEW c \in Requesters, S!Saves(c)
               PROVE  IF row = NoRow THEN "exists" \in S!OwnFields(c) \union request[c].since
                      ELSE \A f \in S!Fields \ (S!OwnFields(c) \union request[c].since) : row'[f] = row[f]
    OBVIOUS
  <2>1. row' # row
    BY DEF S!Saves
  <2> QED
    BY <1>2, <2>1, Zenon
<1>4. StoreAssumption /\ StoreInv /\ [S!Next]_S!vars =>
        [\A c \in Requesters :
           S!Busy(c, "write") /\ ~S!Busy(c, "write")' /\ row # row'
             /\ "status" \notin request[c].since =>
             row'.status \in S!ValidTransitions[row.status]]_S!vars
  BY <1>2
<1> QED
  BY <1>3, <1>4, PartsOfStrategies, StoreInvariant, StoreAssumption, PTL
  DEF S!Spec, WritesAreSound, S!WritesAreSound, S!LosesNothingUnseen, S!StatusMovesAllowed
=============================================================================
