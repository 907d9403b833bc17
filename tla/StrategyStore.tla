---------------------------- MODULE StrategyStore -----------------------------
(***************************************************************************)
(* One strategy's row and its configuration versions in the database, as   *)
(* the routes of the API (routes/strategies.py, strategy_backtest.py), the *)
(* repository (strategy_repository_pg.py), the lifecycle service in memory *)
(* (strategy_lifecycle.py), the one over the database                      *)
(* (strategy_lifecycle_service.py) and the backtest jobs use them.  A      *)
(* request runs from one query to the next; requests of other clients run  *)
(* between.  create_version is one transaction that locks the row, hence   *)
(* one step; set_active_version is three statements, hence three.          *)
(***************************************************************************)
EXTENDS Integers, FiniteSets, FiniteSetsExt, Functions

CONSTANTS
  Clients,     \* requests that run side by side
  MaxVersions, \* bound: versions of the strategy
  MaxRequests, \* bound: requests in all
  None         \* no row, no client

Modes    == {"paper", "live"}
Statuses == {"draft", "validated", "active", "paused", "archived"}

StoreAssumption ==
  /\ {MaxVersions, MaxRequests} \subseteq Nat
  /\ None \notin Clients \union [mode : Modes, status : Statuses, current : Nat]

VARIABLES
  row,      \* the row of strategies, or None
  versions, \* strategy_versions: is_active by version number
  life,     \* history: how often the strategy was deleted
  job,      \* the request of each client
  stats,    \* get_price_statistics() of the strategy's symbol
  requests, \* history: requests so far
  lately,   \* history: what became of the last set_active_version
  refused   \* history: an insert met a version of its own number

vars == <<row, versions, life, job, stats, requests, lately, refused>>

Fields   == {"mode", "status", "current"}

Active == {v \in DOMAIN versions : versions[v]}

(* A request: what it is, the query it comes to next, the row it read, the *)
(* mode or status it was asked for, the version it works on and the life   *)
(* of the strategy it found that in, and what others wrote since it read.  *)
Idle == [op |-> "none"]

Request(op, at, arg) ==
  [op |-> op, at |-> at, read |-> row, arg |-> arg, version |-> 0, life |-> life,
   since |-> {}, saw |-> {}]

Busy(c, at) == job[c].op # "none" /\ job[c].at = at

Becomes(c, request) == job' = [job EXCEPT ![c] = request]

(* The others learn that c wrote; c goes on to the query `at`, or ends.    *)
Wrote(c, fields, next) ==
  job' = [d \in Clients |->
            IF d = c THEN next
            ELSE IF job[d].op = "none" THEN Idle
            ELSE [job[d] EXCEPT !.since = @ \union fields]]

GoesTo(c, at) == [job[c] EXCEPT !.at = at]
-----------------------------------------------------------------------------
(* A request arrives.  Most begin with get_by_id or a read of the status   *)
(* and end there if the strategy is not found.                             *)
Arrives(c) == job[c] = Idle /\ requests < MaxRequests /\ requests' = requests + 1

StoreUnchanged == UNCHANGED <<row, versions, life, stats, lately, refused>>

BeginEdit(c) == \E m \in Modes : Becomes(c, Request("edit", "save", m))

BeginToggle(c) ==
  \E m \in Modes \ {row.mode} : Becomes(c, Request("toggle", "save", m))

BeginDelete(c) == Becomes(c, Request("delete", "delete", None))

BeginUpdateActive(c) == Becomes(c, Request("update_active", "list", None))

BeginModify(c) == Becomes(c, Request("modify", "list", None))

BeginLifecycle(c) ==
  \E s \in {"active", "validated", "paused"} :
    Becomes(c, Request("lifecycle", "save", s))

BeginBacktest(c) ==
  Becomes(c, [Request("backtest", "resolve", None) EXCEPT !.version = row.current])

(* VALID_TRANSITIONS, and transition() up to the end of its first query.   *)
ValidTransitions ==
  [draft     |-> {"validated", "active"},
   validated |-> {"active", "draft"},
   active    |-> {"paused", "archived", "draft"},
   paused    |-> {"active", "archived"},
   archived  |-> {}]

ResolveAction(status) == ValidTransitions[status]

BeginTransition(c) ==
  \E s \in ResolveAction(row.status) : Becomes(c, Request("transition", "write", s))

Begin(c) ==
  /\ Arrives(c) /\ row # None
  /\ \/ BeginEdit(c) \/ BeginToggle(c) \/ BeginDelete(c) \/ BeginUpdateActive(c)
     \/ BeginModify(c) \/ BeginLifecycle(c) \/ BeginBacktest(c) \/ BeginTransition(c)
  /\ StoreUnchanged

(* The requests that read nothing first, and create_strategy, of which     *)
(* there is one: a new strategy has a new id.                              *)
BeginBlind(c) ==
  /\ Arrives(c)
  /\ \/ Becomes(c, Request("new_version", "create", None))
     \/ \E v \in 1 .. MaxVersions :
          Becomes(c, [Request("activate", "select", None) EXCEPT !.version = v])
     \/ /\ requests = 0
        /\ \E op \in {"create", "generate"} : Becomes(c, Request(op, "save", "paper"))
  /\ StoreUnchanged
-----------------------------------------------------------------------------
NewRow(mode) == [mode |-> mode, status |-> "draft", current |-> 1]

(* StrategyDefinition with a default in place of what was read.            *)
SavedRowRebuilt(c) ==
  IF job[c].op = "lifecycle" THEN [job[c].read EXCEPT !.status = job[c].arg]
  ELSE NewRow(job[c].arg)

(* The entity a request saves: the row as it read it, with its own field.  *)
SavedRow(c) ==
  CASE job[c].op \in {"create", "generate"} -> NewRow(job[c].arg)
    [] job[c].op \in {"edit", "toggle"}     -> [job[c].read EXCEPT !.mode = job[c].arg]
    [] job[c].op = "lifecycle"              -> [job[c].read EXCEPT !.status = job[c].arg]

AfterSave(c) ==
  CASE job[c].op \in {"create", "generate"} -> GoesTo(c, "create")
    [] job[c].op = "toggle"                 -> GoesTo(c, "list")
    [] OTHER                                -> Idle

(* save: an upsert of the whole row, one statement.                        *)
Save(c) ==
  /\ Busy(c, "save")
  /\ row' = SavedRow(c)
  /\ Wrote(c, Fields \union {"exists"}, AfterSave(c))
  /\ UNCHANGED <<versions, life, stats, requests, lately, refused>>

(* list_versions, newest first, and the version the request works from.    *)
BaseOf(c) ==
  CASE job[c].op = "modify" /\ versions # <<>> -> Min(DOMAIN versions)
    [] job[c].op # "modify" /\ Active # {}     -> Max(Active)
    [] OTHER                                   -> 0

List(c) ==
  /\ Busy(c, "list")
  /\ Becomes(c, IF BaseOf(c) = 0 THEN Idle
                ELSE [GoesTo(c, "create") EXCEPT !.version = BaseOf(c)])
  /\ UNCHANGED <<row, versions, life, stats, requests, lately, refused>>

NextFromCurrent == (IF row = None THEN 0 ELSE row.current) + 1

NextVersion == Max(DOMAIN versions \union {0}) + 1

AfterCreate(c) ==
  IF job[c].op \in {"create", "toggle", "update_active"}
  THEN [GoesTo(c, "select") EXCEPT !.version = NextVersion]
  ELSE Idle

(* create_version.  A strategy that is gone fails the foreign key.  A      *)
(* number that is taken is tried again, five times, with the same result.  *)
Create(c) ==
  /\ Busy(c, "create")
  /\ \/ /\ row # None /\ NextVersion \notin DOMAIN versions
        /\ NextVersion <= MaxVersions
        /\ versions' = [v \in DOMAIN versions \union {NextVersion} |->
                          v # NextVersion /\ versions[v]]
        /\ row' = [row EXCEPT !.current = NextVersion]
        /\ Wrote(c, {"current"}, AfterCreate(c))
        /\ UNCHANGED refused
     \/ /\ row = None \/ NextVersion \in DOMAIN versions
        /\ refused' = (refused \/ row # None)
        /\ Becomes(c, Idle)
        /\ UNCHANGED <<row, versions>>
  /\ UNCHANGED <<life, stats, requests, lately>>
-----------------------------------------------------------------------------
(* set_active_version: find the version, then three statements, each       *)
(* committed on its own.                                                   *)
Select(c) ==
  /\ Busy(c, "select")
  /\ Becomes(c, IF job[c].version \in DOMAIN versions
                THEN [GoesTo(c, "clear") EXCEPT !.life = life] ELSE Idle)
  /\ UNCHANGED <<row, versions, life, stats, requests, lately, refused>>

ClearAll == [v \in DOMAIN versions |-> FALSE]

Clear(c) ==
  /\ Busy(c, "clear")
  /\ versions' = ClearAll
  /\ lately' = IF \E d \in Clients \ {c} : Busy(d, "mark") THEN "crossed" ELSE "open"
  /\ Becomes(c, GoesTo(c, "mark"))
  /\ UNCHANGED <<row, life, stats, requests, refused>>

Mark(c) ==
  /\ Busy(c, "mark")
  /\ versions' = [v \in DOMAIN versions |->
                    versions[v] \/ (v = job[c].version /\ job[c].life = life)]
  /\ lately' = IF lately = "open" /\ job[c].life = life THEN "done" ELSE lately
  /\ Becomes(c, GoesTo(c, "point"))
  /\ UNCHANGED <<row, life, stats, requests, refused>>

Point(c) ==
  /\ Busy(c, "point")
  /\ row' = IF row = None THEN None ELSE [row EXCEPT !.current = job[c].version]
  /\ Wrote(c, {"current"}, Idle)
  /\ UNCHANGED <<versions, life, stats, requests, lately, refused>>

(* DELETE, which takes the versions with it.                               *)
Delete(c) ==
  /\ Busy(c, "delete")
  /\ row' = None /\ versions' = <<>> /\ lately' = "never"
  /\ life' = life + (IF row = None THEN 0 ELSE 1)
  /\ Wrote(c, Fields \union {"exists"}, Idle)
  /\ UNCHANGED <<stats, requests, refused>>

(* transition(): the status and its event in one transaction, of which the *)
(* event fails when the strategy is gone.                                  *)
Write(c) ==
  /\ Busy(c, "write")
  /\ row' = IF row = None THEN None ELSE [row EXCEPT !.status = job[c].arg]
  /\ Wrote(c, {"status"}, Idle)
  /\ UNCHANGED <<versions, life, stats, requests, lately, refused>>
-----------------------------------------------------------------------------
(* A backtest job, with the statistics of prices that all share: whose     *)
(* history is loaded, and whose prices the averages are made of.           *)
NoStats == [loaded |-> None, prices |-> {}]

KeptStatistics == stats

ResetStatistics == NoStats

(* run_backtest of the service, and of the engine until it awaits.         *)
Resolve(c) ==
  /\ Busy(c, "resolve")
  /\ IF row # None /\ job[c].version \in DOMAIN versions
     THEN /\ stats' = ResetStatistics
          /\ Wrote(c, {"stats"}, [GoesTo(c, "preload") EXCEPT !.since = {}])
     ELSE Becomes(c, Idle) /\ UNCHANGED stats
  /\ UNCHANGED <<row, versions, life, requests, lately, refused>>

(* load_historical_prices returns at once for a symbol that is loaded.     *)
Preload(c) ==
  /\ Busy(c, "preload")
  /\ stats' = IF stats.loaded # None THEN stats ELSE [loaded |-> c, prices |-> {c}]
  /\ Wrote(c, {"stats"}, GoesTo(c, "simulate"))
  /\ UNCHANGED <<row, versions, life, requests, lately, refused>>

(* The loop over the candles has no await.                                 *)
Simulate(c) ==
  /\ Busy(c, "simulate")
  /\ stats' = [stats EXCEPT !.prices = @ \union {c}]
  /\ Wrote(c, {"stats"}, [GoesTo(c, "keep") EXCEPT !.saw = stats'.prices])
  /\ UNCHANGED <<row, versions, life, requests, lately, refused>>

(* The result goes to a table of its own.                                  *)
Keep(c) ==
  /\ Busy(c, "keep")
  /\ Becomes(c, Idle)
  /\ UNCHANGED <<row, versions, life, stats, requests, lately, refused>>

(* Any query may fail, and the request ends with an error.                 *)
Fail(c) ==
  /\ job[c] # Idle
  /\ Becomes(c, Idle)
  /\ UNCHANGED <<row, versions, life, stats, requests, lately, refused>>
-----------------------------------------------------------------------------
Init ==
  /\ row = None /\ versions = <<>> /\ life = 0
  /\ job = [c \in Clients |-> Idle]
  /\ stats = NoStats /\ requests = 0
  /\ lately = "never" /\ refused = FALSE

Next ==
  \E c \in Clients :
    \/ Begin(c) \/ BeginBlind(c) \/ Save(c) \/ List(c) \/ Create(c)
    \/ Select(c) \/ Clear(c) \/ Mark(c) \/ Point(c) \/ Delete(c) \/ Write(c)
    \/ Resolve(c) \/ Preload(c) \/ Simulate(c) \/ Keep(c) \/ Fail(c)

Spec == Init /\ [][Next]_vars
-----------------------------------------------------------------------------
(* strategy_runner.py joins a strategy with its active version.  Whatever  *)
(* requests cross or break off, at most one is active unless two           *)
(* activations ran into each other, and exactly one once an activation ran *)
(* to its end: else a strategy is loaded twice, or drops out.              *)
OneVersionRuns ==
  /\ lately # "crossed" => Cardinality(Active) <= 1
  /\ lately = "done" => Cardinality(Active) = 1

(* create_version counts from the versions there are, not from             *)
(* current_version, which an activation, a stale save or a broken request  *)
(* may have left anywhere: numbers have no gap and no insert is refused.   *)
EveryVersionGetsItsNumber ==
  ~refused /\ DOMAIN versions = 1 .. Cardinality(DOMAIN versions)

(* What the versions of a strategy promise, whatever requests cross.       *)
VersionsInOrder == OneVersionRuns /\ EveryVersionGetsItsNumber

(* A save writes the whole row, but loses nothing it was not asked to      *)
(* change, and brings no deleted strategy back, unless another request     *)
(* wrote that since it read.                                               *)
OwnFields(c) ==
  CASE job[c].op \in {"edit", "toggle"} -> {"mode"}
    [] job[c].op = "lifecycle"          -> {"status"}
    [] OTHER                            -> Fields \union {"exists"}

Saves(c) == Busy(c, "save") /\ row' # row /\ ~Busy(c, "save")'

LosesNothingUnseen ==
  [][\A c \in Clients : Saves(c) =>
       IF row = None THEN "exists" \in OwnFields(c) \union job[c].since
       ELSE \A f \in Fields \ (OwnFields(c) \union job[c].since) : row'[f] = row[f]]_vars

(* The status only moves along the table of the lifecycle service over the *)
(* database, from the status it is then, unless someone wrote it between   *)
(* the read and the write.                                                 *)
StatusMovesAllowed ==
  [][\A c \in Clients :
       Busy(c, "write") /\ ~Busy(c, "write")' /\ row # row'
         /\ "status" \notin job[c].since =>
         row'.status \in ValidTransitions[row.status]]_vars

(* Requests overwrite nothing they have not seen, in whatever order they   *)
(* read and write the row.                                                 *)
WritesAreSound == LosesNothingUnseen /\ StatusMovesAllowed

(* A backtest that no other ran into is decided by its own prices, however *)
(* many ran before or broke off: "Deterministic results".                  *)
OwnPricesOnly ==
  \A c \in Clients :
    Busy(c, "keep") => job[c].saw = {c} \/ "stats" \in job[c].since

(* "Get current config version": an LLM modification starts from the       *)
(* newest version.                                                         *)
ModifiesCurrent ==
  \A c \in Clients :
    Busy(c, "create") /\ job[c].op = "modify" /\ job[c].since = {} =>
      job[c].version = Max(DOMAIN versions)
=============================================================================
