------------------------------ MODULE Registry -------------------------------
(***************************************************************************)
(* The table `symbols` and those who write it: the synchronisation with    *)
(* the exchange (asset_sync_service.py, run by cli/sync_assets.py), the    *)
(* requests of the API (routes/symbols.py over symbol_manager.py, and      *)
(* routes/config.py over config_manager.py) and the volatile-symbol        *)
(* collector (cli/collect_volatile.py), which stores the trades of the     *)
(* symbols that are active when it stores them.  Beside it the table       *)
(* `indicator_definitions` and its requests (routes/indicators.py over     *)
(* indicator_manager.py).  Every statement has a connection and a          *)
(* transaction of its own: one step each.                                  *)
(***************************************************************************)
EXTENDS Integers, Sequences, FiniteSets

CONSTANTS
  Symbols,     \* rows there may be
  Excluded,    \* the symbols whose quote is in EU_EXCLUDED_QUOTES
  Euro,        \* the symbols activate_eu_compliant() is for
  Indicators,  \* names of indicators
  Clients,     \* requests that run side by side
  MaxRules,    \* bound: versions of the exchange's trading rules
  MaxRequests, \* bound: requests in all
  MaxTrades,   \* bound: trades the collector receives
  BatchSize,   \* DataCollector.batch_size
  NoRow        \* no row in the table

(* A row: the exchange's rules it holds (0: the defaults), whether its     *)
(* min_notional, the one of them that may be, is NULL, and its two flags.  *)
Row == [rules : 0 .. MaxRules, bare : BOOLEAN, allowed : BOOLEAN, active : BOOLEAN]

(* A row of the other table: the parameters, one of two, and its flag.     *)
Definition == [params : 0 .. 1, active : BOOLEAN]

RegistryAssumption ==
  /\ Excluded \subseteq Symbols /\ Euro \subseteq Symbols \ Excluded
  /\ NoRow \notin Row \union Definition
  /\ {MaxRules, MaxRequests, MaxTrades} \subseteq Nat /\ BatchSize \in Nat \ {0}

VARIABLES
  table,     \* symbols, by name
  defs,      \* indicator_definitions, by name
  exchange,  \* what exchangeInfo says of each symbol
  sync,      \* the run of AssetSyncService.sync()
  calls,     \* the request of each client
  asked,     \* history: requests so far
  touched,   \* history: rows others wrote since the sync fetched
  removed,   \* history: rows deleted, ever
  collector, \* the DataCollector
  kept,      \* the trades it stored
  left       \* history: the trades it dropped on purpose

vars == <<table, defs, exchange, sync, calls, asked, touched, removed, collector, kept, left>>

(* exchangeInfo lists a symbol with its rules; one that is halted is not   *)
(* TRADING, one that is odd has no base or quote or a filter that is no    *)
(* number.                                                                 *)
Halted == 0
Odd    == -1
Info   == Odd .. MaxRules

Idle == [phase |-> "idle"]
Calm == [op |-> "none"]

Trade == [id : 1 .. MaxTrades, symbol : Symbols]

Exists(s) == table[s] # NoRow

(* A statement of somebody else than the sync, that writes these rows.     *)
Writes(new) ==
  /\ table' = [s \in Symbols |-> IF s \in DOMAIN new THEN new[s] ELSE table[s]]
  /\ touched' = IF sync = Idle THEN {} ELSE touched \union DOMAIN new

Silent == UNCHANGED <<table, touched>>
-----------------------------------------------------------------------------
(* AssetSyncService.  A failing fetch or read of the table ends the sync,  *)
(* having done nothing.                                                    *)
Fetch(auto, delist, eu) ==
  /\ sync = Idle
  /\ sync' = [phase |-> "known", auto |-> auto, delist |-> delist, eu |-> eu,
              listed |-> exchange]
  /\ touched' = {}
  /\ UNCHANGED <<table, defs, exchange, calls, asked, removed, collector, kept, left>>

SyncKeeps == UNCHANGED <<defs, exchange, calls, asked, touched, removed, collector, kept, left>>

(* _fetch_exchange_info() leaves out what is not TRADING.                  *)
Listed == {s \in Symbols : sync.listed[s] # Halted}

(* _get_existing_symbols(): read once, before the first symbol.            *)
GetExisting ==
  /\ sync.phase = "known"
  /\ \/ sync' = [phase |-> "failed"]
     \/ sync' = [phase |-> "each", auto |-> sync.auto, delist |-> sync.delist,
                 eu |-> sync.eu, listed |-> sync.listed,
                 known |-> {s \in Symbols : Exists(s)}, todo |-> Listed,
                 seen |-> {}, errors |-> 0, gone |-> {}]
  /\ UNCHANGED table /\ SyncKeeps

CheckEuCompliance(s) == s \notin Excluded

(* _parse_symbol(): the row as the sync would have it.                     *)
Parsed(s) ==
  LET allowed == sync.eu => CheckEuCompliance(s)
  IN  [rules |-> sync.listed[s], bare |-> FALSE, allowed |-> allowed,
       active |-> sync.auto /\ allowed]

DiffersInRules(row, new) == row.rules # new.rules

(* The WHERE of _update_symbol(): a comparison with NULL is not true.      *)
Differs(row, new) ==
  \/ row.rules # new.rules
  \/ row.allowed # new.allowed
  \/ row.active # new.active

UpdateSymbol(s) ==
  table' = [table EXCEPT ![s] = IF Exists(s) /\ Differs(@, Parsed(s)) THEN Parsed(s) ELSE @]

AddSymbol(s) == ~Exists(s) /\ table' = [table EXCEPT ![s] = Parsed(s)]

(* The loop of sync(), one symbol after the other as they were fetched.    *)
(* A symbol that fails is counted, and seen.                               *)
Skip(s) ==
  /\ sync.listed[s] = Odd
  /\ sync' = [sync EXCEPT !.todo = @ \ {s}]
  /\ UNCHANGED table

Store(s) ==
  /\ sync.listed[s] # Odd
  /\ sync' = [sync EXCEPT !.todo = @ \ {s}, !.seen = @ \union {s}]
  /\ IF s \in sync.known THEN UpdateSymbol(s) ELSE AddSymbol(s)

Fail(s) ==
  /\ sync.listed[s] # Odd
  /\ sync' = [sync EXCEPT !.todo = @ \ {s}, !.seen = @ \union {s}, !.errors = 1]
  /\ UNCHANGED table

SyncSymbol ==
  /\ sync.phase = "each"
  /\ \E s \in sync.todo : Skip(s) \/ Store(s) \/ Fail(s)
  /\ SyncKeeps

(* _deactivate_delisted_symbols(): the rows are chosen first, then each is *)
(* switched off, which fails as a whole if one of them does.               *)
Delisted == {s \in Symbols : Exists(s) /\ s \notin sync.seen /\ table[s].active}

SelectDelisted ==
  /\ sync.phase = "each" /\ sync.todo = {}
  /\ sync' = IF sync.delist THEN [sync EXCEPT !.phase = "gone", !.gone = Delisted]
             ELSE [sync EXCEPT !.phase = "ended"]
  /\ UNCHANGED table /\ SyncKeeps

DeactivateDelisted ==
  /\ sync.phase = "gone"
  /\ IF sync.gone = {} THEN sync' = [sync EXCEPT !.phase = "ended"] /\ UNCHANGED table
     ELSE \E s \in sync.gone :
            /\ sync' = [sync EXCEPT !.gone = @ \ {s}]
            /\ table' = [table EXCEPT ![s] = IF Exists(s) THEN [@ EXCEPT !.active = FALSE]
                                             ELSE @]
  /\ SyncKeeps

(* run_sync() of the command: the result, or AssetSyncError.               *)
RunSync ==
  /\ \/ sync.phase \in {"failed", "ended"}
     \/ sync.phase = "gone" /\ sync.gone # {}
  /\ sync' = Idle /\ touched' = {}
  /\ UNCHANGED <<table, defs, exchange, calls, asked, removed, collector, kept, left>>

(* The exchange lists, halts and changes symbols as it likes.              *)
ExchangeChanges ==
  /\ sync.phase = "idle" /\ asked < MaxRequests /\ asked' = asked + 1
  /\ \E s \in Symbols : \E i \in Info \ {exchange[s]} : exchange' = [exchange EXCEPT ![s] = i]
  /\ UNCHANGED <<table, defs, sync, calls, touched, removed, collector, kept, left>>
-----------------------------------------------------------------------------
(* SymbolManager: what its statements make of a row.                       *)
ActivateSymbol(row, body)   == [row EXCEPT !.active = TRUE]
DeactivateSymbol(row, body) == [row EXCEPT !.active = FALSE]
AllowSymbol(row, body)      == [row EXCEPT !.allowed = TRUE]
DisallowSymbol(row, body)   == [row EXCEPT !.allowed = FALSE]
UpdateWhole(row, body)      == body

BulkActivate(ids)   == [s \in {t \in ids : Exists(t)} |-> [table[s] EXCEPT !.active = TRUE]]
BulkDeactivate(ids) == [s \in {t \in ids : Exists(t)} |-> [table[s] EXCEPT !.active = FALSE]]

ActivateEuCompliant ==
  [s \in {t \in Euro : Exists(t) /\ table[t].allowed} |-> [table[s] EXCEPT !.active = TRUE]]

(* _row_to_symbol(): what a client is shown has a default for a NULL.      *)
RowToSymbol(row) == [row EXCEPT !.bare = FALSE]

(* A request with two statements: the row is looked up, and a missing one  *)
(* answered with 404; then it is written, whatever became of it.           *)
Begins(c) == calls[c] = Calm /\ asked < MaxRequests /\ asked' = asked + 1

FindsAnyway(c, op, s, body) ==
  calls' = [calls EXCEPT ![c] = [op |-> op, on |-> s, body |-> body, at |-> "found",
                                 hit |-> FALSE]]

Finds(c, op, s, body) ==
  calls' = [calls EXCEPT ![c] = [op |-> op, on |-> s, body |-> body,
                                 at |-> IF Exists(s) THEN "found" ELSE "404",
                                 hit |-> FALSE]]

Ask(c, op, s) == Finds(c, op, s, NoRow)

AskActivate(c, s)   == Ask(c, "activate", s)
AskDeactivate(c, s) == Ask(c, "deactivate", s)
AskAllow(c, s)      == Ask(c, "allow", s)
AskDisallow(c, s)   == Ask(c, "disallow", s)
AskDelete(c, s)     == Ask(c, "delete", s)

(* GET, and later a PUT of the whole configuration with a flag changed.    *)
GetSymbol(c, s) ==
  calls' = [calls EXCEPT ![c] =
              IF Exists(s) THEN [op |-> "held", on |-> s, body |-> RowToSymbol(table[s])]
              ELSE Calm]

AskUpdate(c) ==
  /\ calls[c].op = "held"
  /\ \E on \in BOOLEAN : Finds(c, "update", calls[c].on, [calls[c].body EXCEPT !.active = on])
  /\ Silent

Request(c) ==
  /\ \/ /\ Begins(c)
        /\ \E s \in Symbols :
             \/ AskActivate(c, s) \/ AskDeactivate(c, s) \/ AskAllow(c, s)
             \/ AskDisallow(c, s) \/ AskDelete(c, s) \/ GetSymbol(c, s)
     \/ AskUpdate(c) /\ UNCHANGED asked
  /\ Silent
  /\ UNCHANGED <<defs, exchange, sync, removed, collector, kept, left>>

Written(op, row, body) ==
  CASE op = "activate" -> ActivateSymbol(row, body)
    [] op = "deactivate" -> DeactivateSymbol(row, body)
    [] op = "allow" -> AllowSymbol(row, body)
    [] op = "disallow" -> DisallowSymbol(row, body)
    [] op = "update" -> UpdateWhole(row, body)

Answers(c, at, hit) == calls' = [calls EXCEPT ![c].at = at, ![c].hit = hit]

Found(c) == calls[c].op \notin {"none", "held"} /\ calls[c].at = "found"

WriteFound(c) ==
  LET s == calls[c].on IN
  /\ Found(c) /\ calls[c].op \in {"activate", "deactivate", "allow", "disallow", "update"}
  /\ Answers(c, "200", Exists(s))
  /\ IF Exists(s) THEN Writes([t \in {s} |-> Written(calls[c].op, table[s], calls[c].body)])
     ELSE Silent
  /\ UNCHANGED <<defs, exchange, sync, asked, removed, collector, kept, left>>

(* delete_entry(): the candles and trades of a symbol forbid it.           *)
DeleteEntry(c) ==
  LET s == calls[c].on IN
  /\ Found(c) /\ calls[c].op = "delete"
  /\ ~ \E t \in kept : t.symbol = s
  /\ Answers(c, "200", Exists(s))
  /\ Writes([t \in {s} |-> NoRow])
  /\ removed' = removed \union {s}
  /\ UNCHANGED <<defs, exchange, sync, asked, collector, kept, left>>

(* A statement that raises: the managers catch it, the routes answer 500.  *)
FailFound(c) ==
  /\ Found(c) /\ Answers(c, "500", FALSE) /\ Silent
  /\ UNCHANGED <<defs, exchange, sync, asked, removed, collector, kept, left>>

(* Requests of one statement: the bulk ones, which tell how many rows they *)
(* met, and the PUT of an entry, which looks for no row before and does    *)
(* not look at what the statement met: only one that raises is told apart. *)
Tells(c, s, at) ==
  calls' = [calls EXCEPT ![c] = [op |-> "entry", on |-> s, body |-> NoRow, at |-> at,
                                 hit |-> at = "200" /\ Exists(s)]]

UpdateEntry(c, s) ==
  \/ /\ Tells(c, s, "200")
     /\ \E f \in {"allowed", "active"}, on \in BOOLEAN :
          Writes([t \in {u \in {s} : Exists(u)} |-> [table[t] EXCEPT ![f] = on]])
  \/ Tells(c, s, "500") /\ Silent

OneStatement(c) ==
  /\ Begins(c)
  /\ \/ /\ \/ \E ids \in SUBSET Symbols : Writes(BulkActivate(ids)) \/ Writes(BulkDeactivate(ids))
           \/ Writes(ActivateEuCompliant)
        /\ UNCHANGED calls
     \/ \E s \in Symbols : UpdateEntry(c, s)
  /\ UNCHANGED <<defs, exchange, sync, removed, collector, kept, left>>

Leaves(c) ==
  /\ calls[c].op \notin {"none", "held"} /\ ~Found(c)
  /\ calls' = [calls EXCEPT ![c] = Calm]
  /\ UNCHANGED <<table, defs, exchange, sync, asked, touched, removed, collector, kept, left>>
-----------------------------------------------------------------------------
(* IndicatorManager, behind the same two statements.                       *)
ActivateIndicator(row, body)   == [row EXCEPT !.active = TRUE]
DeactivateIndicator(row, body) == [row EXCEPT !.active = FALSE]

(* update_indicator(): only the fields that were given.                    *)
UpdateIndicator(row, body) == [f \in DOMAIN row |-> IF f \in DOMAIN body THEN body[f]
                                                    ELSE row[f]]

Known(n) == defs[n] # NoRow

FindsIndicator(c, op, n, body) ==
  calls' = [calls EXCEPT ![c] = [op |-> op, on |-> n, body |-> body,
                                 at |-> IF Known(n) THEN "found" ELSE "404", hit |-> FALSE]]

AskActivateIndicator(c, n)   == FindsIndicator(c, "switch_on", n, NoRow)
AskDeactivateIndicator(c, n) == FindsIndicator(c, "switch_off", n, NoRow)
AskUnregister(c, n)          == FindsIndicator(c, "unregister", n, NoRow)

AskUpdateIndicator(c, n) ==
  \E body \in [{"params"} -> {0, 1}] \union [{"active"} -> BOOLEAN] \union Definition :
    FindsIndicator(c, "change", n, body)

(* Only a name that is not there goes on to the INSERT, which gives no     *)
(* params_schema and no code_hash: NOT NULL refuses it.                    *)
AskRegister(c, n) ==
  calls' = [calls EXCEPT ![c] = [op |-> "register", on |-> n, body |-> NoRow,
                                 at |-> IF Known(n) THEN "409" ELSE "found", hit |-> FALSE]]

RegisterIndicator(c) == Found(c) /\ calls[c].op = "register" /\ Answers(c, "500", FALSE)
                        /\ UNCHANGED defs

Switched(op, row, body) ==
  CASE op = "switch_on" -> ActivateIndicator(row, body)
    [] op \in {"switch_off", "unregister"} -> DeactivateIndicator(row, body)
    [] op = "change" -> UpdateIndicator(row, body)

WriteDefinition(c) ==
  LET n == calls[c].on IN
  /\ Found(c) /\ calls[c].op \in {"switch_on", "switch_off", "unregister", "change"}
  /\ Answers(c, "200", Known(n))
  /\ defs' = [defs EXCEPT ![n] = IF Known(n) THEN Switched(calls[c].op, @, calls[c].body) ELSE @]

AskIndicators(c) ==
  /\ Begins(c)
  /\ \E n \in Indicators :
       \/ AskActivateIndicator(c, n) \/ AskDeactivateIndicator(c, n) \/ AskUnregister(c, n)
       \/ AskUpdateIndicator(c, n) \/ AskRegister(c, n)
  /\ UNCHANGED defs

ServeIndicators ==
  /\ \E c \in Clients :
       \/ AskIndicators(c)
       \/ (RegisterIndicator(c) \/ WriteDefinition(c)) /\ UNCHANGED asked
  /\ UNCHANGED <<table, exchange, sync, touched, removed, collector, kept, left>>
-----------------------------------------------------------------------------
(* DataCollector.  get_volatile_symbols() has picked from the tickers.     *)
Collects == UNCHANGED <<defs, exchange, sync, calls, asked, removed>>

GetVolatileSymbols ==
  /\ collector.phase = "off"
  /\ \E picks \in SUBSET Symbols \ {{}} :
       collector' = [phase |-> "setup", picks |-> picks, todo |-> picks,
                     buffer |-> <<>>, received |-> {}, why |-> "none"]
  /\ UNCHANGED <<table, touched, kept, left>> /\ Collects

(* setup_database(): the default rules for a new row, and both flags on.   *)
SetupDatabase ==
  /\ collector.phase = "setup"
  /\ IF collector.todo = {} THEN collector' = [collector EXCEPT !.phase = "on"] /\ Silent
     ELSE \E s \in collector.todo :
            /\ collector' = [collector EXCEPT !.todo = @ \ {s}]
            /\ Writes([t \in {s} |->
                 IF Exists(t) THEN [table[t] EXCEPT !.active = TRUE, !.allowed = TRUE]
                 ELSE [rules |-> 0, bare |-> FALSE, allowed |-> TRUE, active |-> TRUE]])
  /\ UNCHANGED <<kept, left>> /\ Collects

Stores(why) == [collector EXCEPT !.phase = "store", !.why = why]

(* A message: the batch is stored when it is full, or when its time has    *)
(* come, which this model leaves open.                                     *)
Takes(t) == [collector EXCEPT !.buffer = Append(@, t), !.received = @ \union {t}]

Receive ==
  /\ collector.phase = "on" /\ Cardinality(collector.received) < MaxTrades
  /\ \E s \in collector.picks :
       LET after == Takes([id |-> Cardinality(collector.received) + 1, symbol |-> s])
       IN  collector' \in
             {[after EXCEPT !.phase = "store", !.why = "full"]}
               \union (IF Len(after.buffer) >= BatchSize THEN {} ELSE {after})
  /\ UNCHANGED <<table, touched, kept, left>> /\ Collects

(* A second without a message, and any other exception of the loop.        *)
Timeout ==
  /\ collector.phase = "on" /\ collector.buffer # <<>>
  /\ collector' \in {Stores("timeout"), Stores("again")}
  /\ UNCHANGED <<table, touched, kept, left>> /\ Collects

(* _store_trades(): each trade is looked up and inserted; an unknown       *)
(* symbol, one that is not active and a failing insert drop it.            *)
Inserted == {collector.buffer[i] : i \in {j \in 1 .. Len(collector.buffer) :
               LET s == collector.buffer[j].symbol IN Exists(s) /\ table[s].active}}

Buffered == {collector.buffer[i] : i \in 1 .. Len(collector.buffer)}

StoreTrades ==
  /\ collector.phase = "store"
  /\ \E bad \in SUBSET Inserted :
       /\ kept' = kept \union (Inserted \ bad)
       /\ left' = left \union (((Buffered \ Inserted) \union bad) \ kept)
  /\ collector' = [collector EXCEPT !.phase = "on", !.buffer = <<>>, !.why = "none"]
  /\ Silent /\ Collects

(* No connection, for the whole batch.  Only a failure inside the try is   *)
(* answered, with a second attempt; any other ends the collector.          *)
StoreFailsAndClears ==
  /\ collector.phase = "store"
  /\ collector' = IF collector.why = "full"
                  THEN [collector EXCEPT !.phase = "on", !.buffer = <<>>]
                  ELSE [collector EXCEPT !.phase = "ended"]
  /\ UNCHANGED <<table, touched, kept, left>> /\ Collects

StoreFails ==
  /\ collector.phase = "store"
  /\ collector' = IF collector.why = "full" THEN [collector EXCEPT !.why = "again"]
                  ELSE [collector EXCEPT !.phase = "ended"]
  /\ UNCHANGED <<table, touched, kept, left>> /\ Collects

Kill ==
  /\ collector.phase \in {"setup", "on", "store"}
  /\ collector' = [collector EXCEPT !.phase = "ended"]
  /\ UNCHANGED <<table, touched, kept, left>> /\ Collects
-----------------------------------------------------------------------------
(* The requests left are all of the bound, or fewer.                       *)
(* Rows from before: the defaults of the table, min_notional perhaps NULL. *)
Seeded == [rules : {0}, bare : BOOLEAN, allowed : {TRUE}, active : {TRUE}]

Init ==
  /\ table \in [Symbols -> Seeded \union {NoRow}]
  /\ defs \in [Indicators -> {NoRow} \union [params : {0}, active : BOOLEAN]]
  /\ exchange \in [Symbols -> Info]
  /\ sync = Idle
  /\ calls = [c \in Clients |-> Calm]
  /\ asked \in 0 .. MaxRequests /\ touched = {} /\ removed = {}
  /\ collector = [phase |-> "off", picks |-> {}, todo |-> {}, buffer |-> <<>>,
                  received |-> {}, why |-> "none"]
  /\ kept = {} /\ left = {}

Sync == \/ \E auto, delist, eu \in BOOLEAN : Fetch(auto, delist, eu)
        \/ GetExisting \/ SyncSymbol \/ SelectDelisted \/ DeactivateDelisted \/ RunSync

Serve == \E c \in Clients :
           \/ Request(c) \/ WriteFound(c) \/ DeleteEntry(c) \/ FailFound(c)
           \/ OneStatement(c) \/ Leaves(c)

Collect == \/ GetVolatileSymbols \/ SetupDatabase \/ Receive \/ Timeout
           \/ StoreTrades \/ StoreFails \/ Kill

Next == Sync \/ ExchangeChanges \/ Serve \/ ServeIndicators \/ Collect

RegistrySpec == Init /\ [][Next]_vars
-----------------------------------------------------------------------------
TypeOK ==
  /\ table \in [Symbols -> Row \union {NoRow}]
  /\ defs \in [Indicators -> Definition \union {NoRow}]
  /\ exchange \in [Symbols -> Info]
  /\ sync.phase \in {"idle", "known", "failed", "each", "gone", "ended"}
  /\ asked \in 0 .. MaxRequests
  /\ {touched, removed} \subseteq SUBSET Symbols
  /\ collector.phase \in {"off", "setup", "on", "store", "ended"}
  /\ kept \subseteq Trade /\ left \subseteq Trade

(* A sync that counted no error leaves every symbol that nobody else wrote *)
(* meanwhile as the exchange lists it - its rules, allowed as the filter   *)
(* of the EU says, active if it is to be - and, if it was asked to,        *)
(* everything it did not see switched off (asset_sync_service.py:131).     *)
(* Not promised is a minimum notional where the row has NULL: the sync     *)
(* takes that for unchanged (:370), and repairs it only with another value *)
(* of the row, so the formula leaves it out.                               *)
SyncTakesEffect ==
  sync.phase = "ended" /\ sync.errors = 0 =>
    \A s \in Symbols \ touched :
      /\ s \in sync.seen =>
           /\ Exists(s)
           /\ [table[s] EXCEPT !.bare = FALSE] = Parsed(s)
      /\ s \notin sync.seen /\ sync.delist => ~(Exists(s) /\ table[s].active)

(* A client is told of success only if its statement met the row it asked  *)
(* for, or somebody deleted that row after it was found                    *)
(* (routes/symbols.py:121); but the PUT of an entry, which is answered 200 *)
(* also for a row that never was.                                          *)
Succeeds(c) == calls[c].op \notin {"none", "held"} /\ calls[c].at = "200"

AnswersAreTrue ==
  \A c \in Clients :
    Succeeds(c) /\ calls[c].op # "entry" => calls[c].hit \/ calls[c].on \in removed

(* What that PUT promises and does not keep: 404 for an entry that is not  *)
(* there (routes/config.py:143; config_manager.py:171 ignores what the     *)
(* UPDATE met).                                                            *)
EntriesAreFound ==
  \A c \in Clients :
    Succeeds(c) /\ calls[c].op = "entry" => calls[c].hit \/ calls[c].on \in removed

(* As long as the collector runs, each trade it received is in its buffer, *)
(* stored, or was left out at a store that came so far: one store that     *)
(* fails loses nothing (collect_volatile.py:173).                          *)
CollectedIsKept ==
  collector.phase # "ended" => collector.received \subseteq Buffered \union kept \union left
=============================================================================
