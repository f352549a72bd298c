--------------------------- MODULE ResearchPipeline ---------------------------
(***************************************************************************)
(* From what the bot records to the models it loads: the outcome backfill  *)
(* and the order record of the two modules below, the dataset build        *)
(* (datasets/builder.rs), the training jobs (models/forecast.rs,           *)
(* models/execution.rs) and the start of the bot with its gate for active  *)
(* mode (main.rs).                                                         *)
(*                                                                         *)
(* Two processes share the files: the bot, which every 18 cycles runs a    *)
(* backfill and a build between its trades, and the jobs that              *)
(* rebuild_models.sh starts one after the other.                           *)
(***************************************************************************)
EXTENDS OutcomeBackfill, OrderRecord, Lists, SequencesExt

CONSTANTS
  Mids,             \* mid prices of market_state lines, in cents; None for no quote
  FillPrice,        \* the price at which every order fills, in cents
  FillWindows,      \* BOT_FILL_TARGET_WINDOWS_SECS, in ticks
  MarkoutWindow,    \* the first of BOT_MARKOUT_WINDOWS_SECS, in ticks
  TrainPct,         \* the percentage of rows that train
  ValidationPct,    \* the percentage below which a row validates
  TrainSources,     \* BOT_EXECUTION_TRAIN_SOURCES
  Supplement,       \* the rows of BOT_EXECUTION_SUPPLEMENTAL_PATHS that parse
  MinTrainRows,     \* BOT_POLICY_ACTIVE_MIN_*_TRAIN_ROWS
  MinLiveRows,      \* BOT_POLICY_ACTIVE_MIN_EXECUTION_LIVE_REAL_ROWS
  MaxModelAge,      \* BOT_POLICY_ACTIVE_MAX_MODEL_AGE_HOURS, in ticks
  Scenarios         \* bounds: see Bounds

Files == <<"forecast", "execution", "live_real">>
FileNames == {Files[i] : i \in DOMAIN Files}
Kinds == {"forecast", "execution"}
Bot == Periodic
Rebuild == CHOOSE p \in Procs : p # Bot

\* What a behaviour explores: how the bot is started, its orders and those of
\* earlier runs, the tickers traded before and the markets that move, how many
\* lines, trainings, deaths and lost lines, how long, whether files are built,
\* and the rebuild's first job.
Bounds ==
  [settings : SUBSET Settings, before : SUBSET Cids, orders : SUBSET Cids,
   traded : SUBSET Traded, markets : SUBSET Tickers, lines : Nat, trains : Nat,
   deaths : 0 .. MaxDeaths, lost : 0 .. MaxFaults, time : 0 .. MaxTime,
   builds : BOOLEAN, job : {"backfill", "forecast", "execution", "idle"}]

ASSUME PipelineAssumption ==
  /\ Scenarios \subseteq Bounds
  /\ \E p \in Procs : p # Bot /\ Procs = {p, Bot}
  /\ MinLiveRows \in Nat
  /\ TrainPct \in 1 .. ValidationPct /\ ValidationPct \in 1 .. 100
  /\ Len(FillWindows) = 2

VARIABLES
  bounds,    \* the scenario of this behaviour
  lines,     \* market_state: quotes recorded
  data,      \* the dataset files, None while missing
  build,     \* the build under way, None for none
  task,      \* what each process is at
  train,     \* the training under way, None for none
  trained,   \* number of model versions so far
  archive,   \* versions whose artifact.json is whole
  manifest,  \* versions in manifest.jsonl
  latest,    \* latest.json of each kind, None while missing or half written
  bot        \* the models the bot runs with, and its policy mode, or that it was refused

fileVars == <<lines, data, build, train, trained, archive, manifest, latest>>
vars == <<backfillVars, orderVars, fileVars, bounds, task, bot>>

-----------------------------------------------------------------------------
(* Rows of the datasets (builder.rs).  Labels keep the names they have in  *)
(* the files, which is how main.rs looks for them.                         *)

SplitName(i, total) ==
  IF (i - 1) * 100 < TrainPct * total THEN "train"
  ELSE IF (i - 1) * 100 < ValidationPct * total THEN "validation" ELSE "test"

\* A mutant: the latest rows come first.
LatestFirst(rows) ==
  {s \in SetToSeqs(rows) : \A i, j \in DOMAIN s : i < j => s[i].feature_ts >= s[j].feature_ts}

\* Files are read in the order of the directory, rows are put in order of time:
\* which of two rows of one time comes first is open.
InTime(rows) ==
  {s \in SetToSeqs(rows) : \A i, j \in DOMAIN s : i < j => s[i].feature_ts <= s[j].feature_ts}

AssignSplits(rows) ==
  {[i \in DOMAIN s |-> [row |-> s[i], split |-> SplitName(i, Len(s))]] : s \in InTime(rows)}

ForecastRows ==
  {[ticker |-> l.ticker, feature_ts |-> l.ts,
    label_outcome_yes |-> outcomes[l.ticker].last.yes,
    label_resolution_status |-> outcomes[l.ticker].last.status] :
      l \in {k \in lines : outcomes[k.ticker] # Nil}}

Intents(c) == {i \in DOMAIN life[c] : life[c][i].type = "intent"}
Intent(c)  == life[c][Min(Intents(c))]

\* The last line that has a status.
WithStatus(c) == {i \in DOMAIN life[c] : life[c][i].status # None}
Terminal(c)   == life[c][Max(WithStatus(c))]

FilledWithin(c, window) ==
  \E i \in DOMAIN life[c] :
    /\ life[c][i].filled > 0
    /\ life[c][i].ts - Intent(c).ts \in 0 .. window

\* A mutant: what the intent line says is believed.
IsPaperByIntent(c) == Intent(c).mode = "paper"

IsPaper(c) ==
  \/ Intent(c).mode = "paper"
  \/ WithStatus(c) # {} /\ Terminal(c).mode = "paper"
  \/ \E i \in DOMAIN life[c] : life[c][i].id \in {"paper", "sim"}

ClassifyExecutionSource(c) ==
  IF Intent(c).origin = "bootstrap_synthetic" THEN "bootstrap_synthetic"
  ELSE IF IsPaper(c) THEN "organic_paper" ELSE "live_real"

\* A mutant: the fills of all lines are added up.
SummedQty(c) == FoldLeft(LAMBDA sum, e : sum + e.filled, 0, life[c])

TerminalQty(c) == IF WithStatus(c) = {} THEN 0 ELSE Terminal(c).filled

\* All orders are for YES on the first ticker.
OrderTicker == 1

\* The mid of the first line at or after the window, however late it is.
MarkoutBps(c) ==
  LET later == {l \in lines : l.ticker = OrderTicker
                                /\ l.ts >= Intent(c).ts + MarkoutWindow}
      first == {l \in later : \A k \in later : l.ts <= k.ts}
  IN IF TerminalQty(c) = 0 \/ first = {} THEN {None}
     ELSE {IF l.mid = None THEN None ELSE ((l.mid - FillPrice) * 10000) \div FillPrice :
             l \in first}

\* Several lines of one time leave a choice of markout.
ExecutionRow(c, markout) ==
  [client_order_id |-> c, feature_ts |-> Intent(c).ts,
   execution_source_class |-> ClassifyExecutionSource(c),
   label_filled_within_30s |-> FilledWithin(c, FillWindows[1]),
   label_filled_within_5m |-> FilledWithin(c, FillWindows[2]),
   label_terminal_filled_qty |-> TerminalQty(c),
   label_markout_bps_5m |-> markout]

\* Orders without an intent line are left out.
Recorded == {c \in Cids : Intents(c) # {}}

LiveReal(rows) ==
  At(rows, {i \in DOMAIN rows : rows[i].row.execution_source_class = "live_real"})

-----------------------------------------------------------------------------
(* The build: everything is read first, then file after file is truncated  *)
(* and written line by line.  Bound: one build at a time.                  *)

StartBuild(p) ==
  /\ task[p] = "build" /\ build = None
  /\ \E markouts \in [Recorded -> UNION {MarkoutBps(c) : c \in Recorded}] :
       /\ \A c \in Recorded : markouts[c] \in MarkoutBps(c)
       /\ \E forecast \in AssignSplits(ForecastRows),
             execution \in AssignSplits({ExecutionRow(c, markouts[c]) : c \in Recorded}) :
            build' = [by |-> p, left |-> Files,
                      rows |-> [forecast |-> forecast, execution |-> execution,
                                live_real |-> LiveReal(execution)]]
  /\ UNCHANGED <<backfillVars, orderVars, bounds, task, bot,
                 lines, data, train, trained, archive, manifest, latest>>

Building(p) == build # None /\ build.by = p /\ build.left # <<>>

WritePart(p) ==
  /\ Building(p)
  /\ LET f == Head(build.left) IN
     \E n \in 0 .. Len(build.rows[f]) - 1, broken \in BOOLEAN :
       data' = [data EXCEPT ![f] =
                  [rows |-> SubSeq(build.rows[f], 1, n), broken |-> broken]]
  /\ UNCHANGED <<backfillVars, orderVars, bounds, task, bot,
                 lines, build, train, trained, archive, manifest, latest>>

WriteJsonlDataset(p) ==
  /\ Building(p)
  /\ data' = [data EXCEPT ![Head(build.left)] =
                [rows |-> build.rows[Head(build.left)], broken |-> FALSE]]
  /\ build' = [build EXCEPT !.left = Tail(@)]
  /\ UNCHANGED <<backfillVars, orderVars, bounds, task, bot,
                 lines, train, trained, archive, manifest, latest>>

EndBuild(p) ==
  /\ build # None /\ build.by = p /\ build.left = <<>>
  /\ build' = None
  /\ task' = [task EXCEPT ![p] = IF p = Bot THEN "idle" ELSE "forecast"]
  /\ UNCHANGED <<backfillVars, orderVars, bounds, bot,
                 lines, data, train, trained, archive, manifest, latest>>

-----------------------------------------------------------------------------
(* Training.  A line that does not parse fails the job; a file that ends   *)
(* early is taken for a smaller dataset.                                   *)

\* A mutant: the label is enough.
TrainableAnyStatus(kind, r) ==
  IF kind = "forecast" THEN r.row.label_outcome_yes # Nil
  ELSE r.row.execution_source_class \in TrainSources

Trainable(kind, r) ==
  IF kind = "forecast"
  THEN r.row.label_resolution_status = "resolved" /\ r.row.label_outcome_yes # Nil
  ELSE r.row.execution_source_class \in TrainSources

\* The execution training adds the rows of its supplemental files, and does with
\* them alone while there is no dataset.
LoadedRows(kind) ==
  LET rows == IF data[kind] = None THEN <<>> ELSE data[kind].rows
  IN IF kind = "execution" THEN rows \o Supplement ELSE rows

TrainingRows(kind) ==
  LET rows == LoadedRows(kind) IN At(rows, {i \in DOMAIN rows : Trainable(kind, rows[i])})

TrainSplit(rows) == At(rows, {i \in DOMAIN rows : rows[i].split = "train"})

\* Only the forecast needs a row that trains.
Enough(kind) ==
  /\ data[kind] # None => ~data[kind].broken
  /\ IF kind = "forecast" THEN TrainSplit(TrainingRows(kind)) # <<>>
     ELSE TrainingRows(kind) # <<>>

AfterTraining(kind) == IF kind = "forecast" THEN "execution" ELSE "idle"

Artifact(kind) ==
  [version |-> trained + 1, trained_at |-> clock, rows |-> TrainSplit(TrainingRows(kind)),
   live_real_rows |->
     IF kind = "forecast" THEN 0 ELSE Len(LiveReal(TrainingRows(kind)))]

\* A mutant: the artifact of the version comes after latest.json.
StepsLatestFirst == <<"truncate", "latest", "version", "manifest">>

\* write_artifact: <version>/artifact.json, then latest.json over the old
\* one, then a line of the manifest.
ArtifactSteps == <<"version", "truncate", "latest", "manifest">>

StartTraining(kind) ==
  /\ task[Rebuild] = kind /\ train = None
  /\ IF Enough(kind) /\ trained < bounds.trains
     THEN /\ train' = [kind |-> kind, artifact |-> Artifact(kind), left |-> ArtifactSteps]
          /\ trained' = trained + 1
          /\ UNCHANGED task
     ELSE /\ task' = [task EXCEPT ![Rebuild] = AfterTraining(kind)]
          /\ UNCHANGED <<train, trained>>
  /\ UNCHANGED <<backfillVars, orderVars, bounds, bot,
                 lines, data, build, archive, manifest, latest>>

WriteArtifact ==
  /\ train # None /\ train.left # <<>>
  /\ train' = [train EXCEPT !.left = Tail(@)]
  /\ LET k == train.kind
         v == train.artifact.version
     IN \/ /\ Head(train.left) = "version"
           /\ archive' = archive \cup {v}
           /\ UNCHANGED <<latest, manifest>>
        \/ /\ Head(train.left) \in {"truncate", "latest"}
           /\ latest' = [latest EXCEPT ![k] =
                IF Head(train.left) = "latest" THEN train.artifact ELSE None]
           /\ UNCHANGED <<archive, manifest>>
        \/ /\ Head(train.left) = "manifest"
           /\ manifest' = manifest \cup {v}
           /\ UNCHANGED <<archive, latest>>
  /\ UNCHANGED <<backfillVars, orderVars, bounds, bot, lines, data, build, trained, task>>

EndTraining ==
  /\ train # None /\ train.left = <<>>
  /\ train' = None
  /\ task' = [task EXCEPT ![Rebuild] = AfterTraining(train.kind)]
  /\ UNCHANGED <<backfillVars, orderVars, bounds, bot,
                 lines, data, build, trained, archive, manifest, latest>>

-----------------------------------------------------------------------------
(* The start of the bot (main.rs).                                         *)

\* A model that is missing or does not parse is a warning: no model.
LoadRuntimeModel(kind) == latest[kind]

FieldValues(rows, field) ==
  {i \in DOMAIN rows : field \in DOMAIN rows[i].row /\ rows[i].row[field] # None}

SumOver(rows, is, field) ==
  FoldLeft(LAMBDA sum, i : IF i \in is THEN sum + rows[i].row[field] ELSE sum,
           0, [i \in DOMAIN rows |-> i])

\* The live-real dataset must show enough rows with a markout, and no loss.
ShowsGain(field) ==
  /\ data["live_real"] # None
  /\ LET rows == data["live_real"].rows
         known == FieldValues(rows, field)
     IN Cardinality(known) >= MinLiveRows /\ SumOver(rows, known, field) >= 0

ValidateLivePerformance == ShowsGain("markout_5m_bps")

ArtifactFits(m, minLive) ==
  /\ m # None
  /\ clock - m.trained_at <= MaxModelAge
  /\ Len(m.rows) >= MinTrainRows
  /\ m.live_real_rows >= minLive

ModelsFit ==
  ArtifactFits(LoadRuntimeModel("forecast"), 0)
    /\ ArtifactFits(LoadRuntimeModel("execution"), MinLiveRows)

\* Paper capture has no models and asks for none.
Admitted(s, policy) ==
  s.capture \/ (policy = "active" => ModelsFit /\ ValidateLivePerformance)

StartBot(s, policy) ==
  /\ settings = None /\ s \in bounds.settings
  /\ IF Admitted(s, policy)
     THEN /\ settings' = s
          /\ bot' = [capture |-> s.capture, policy |-> policy,
                     forecast |-> IF s.capture THEN None ELSE LoadRuntimeModel("forecast"),
                     execution |-> IF s.capture THEN None ELSE LoadRuntimeModel("execution")]
     ELSE settings' = None /\ bot' = [bot EXCEPT !.policy = "refused"]
  /\ UNCHANGED <<backfillVars, fileVars, bounds, task, clock, orders, life, lost>>

-----------------------------------------------------------------------------
(* The processes.                                                          *)

BeginTasks ==
  /\ settings # None /\ InFlight = {} /\ task[Bot] = "idle"
  /\ StartBackfill(Bot)
  /\ task' = [task EXCEPT ![Bot] = "backfill"]
  /\ UNCHANGED <<orderVars, fileVars, bounds, bot>>

BeginRebuild ==
  /\ task[Rebuild] = "backfill" /\ StartBackfill(Rebuild)
  /\ UNCHANGED <<orderVars, fileVars, bounds, task, bot>>

EndBackfill(p) ==
  /\ AppendOutcomes(p)
  /\ task' = [task EXCEPT ![p] = IF bounds.builds THEN "build" ELSE "idle"]
  /\ UNCHANGED <<orderVars, fileVars, bounds, bot>>

Fetch(t) ==
  /\ \E p \in Procs : FetchOutcome(p, t) \/ FetchFails(p, t)
  /\ UNCHANGED <<orderVars, fileVars, bounds, task, bot>>

World(t) ==
  /\ t \in bounds.markets
  /\ Settle(t) \/ MarketStateChanges(t)
  /\ UNCHANGED <<orderVars, fileVars, bounds, task, bot>>

\* A scan of the bot or of the collector records a quote.
RecordMarket(t) ==
  /\ t \in bounds.markets /\ Cardinality(lines) < bounds.lines
  /\ \E mid \in Mids : lines' = lines \cup {[ticker |-> t, ts |-> clock, mid |-> mid]}
  /\ UNCHANGED <<backfillVars, orderVars, bounds, task, bot,
                 data, build, train, trained, archive, manifest, latest>>

\* A call of the engine, which the bot makes between its tasks.
OrderCall(c) ==
  /\ task[Bot] = "idle" /\ c \in bounds.orders
  /\ \/ PlaceIntent(c) \/ PaperFills(c) \/ SubmitFails(c) \/ Submit(c) \/ Poll(c)
     \/ PollFails(c) \/ CancelIoc(c) \/ GtcRests(c) \/ RecordTerminal(c)
  /\ lost' <= bounds.lost
  /\ filled' = IF \E i \in DOMAIN life'[c] : life'[c][i].filled > 0
               THEN filled \cup {OrderTicker} ELSE filled
  /\ UNCHANGED <<answer, scanned, outcomes, backfill, overlapped, deaths,
                 fileVars, bounds, task, bot>>

OrderWorld ==
  /\ \/ clock < bounds.time /\ Tick
     \/ \E c \in Cids : ExchangeMoves(c) \/ LatencyPasses(c)
  /\ UNCHANGED <<backfillVars, fileVars, bounds, task, bot>>

\* The bot is killed, perhaps in the middle of an append or of a file.
BotDies ==
  /\ settings # None /\ deaths < bounds.deaths
  /\ IF backfill[Bot] # Nil THEN BackfillDies(Bot)
     ELSE /\ deaths' = deaths + 1
          /\ UNCHANGED <<answer, scanned, filled, outcomes, backfill, overlapped>>
  /\ settings' = None
  /\ OrderCallDies
  /\ build' = IF build # None /\ build.by = Bot THEN None ELSE build
  /\ task' = [task EXCEPT ![Bot] = "idle"]
  /\ UNCHANGED <<clock, life, lost, bounds, bot,
                 lines, data, train, trained, archive, manifest, latest>>

\* A job of the rebuild is killed: the script stops there.
RebuildDies ==
  /\ task[Rebuild] # "idle" /\ deaths < bounds.deaths
  /\ IF backfill[Rebuild] # Nil THEN BackfillDies(Rebuild)
     ELSE /\ deaths' = deaths + 1
          /\ UNCHANGED <<answer, scanned, filled, outcomes, backfill, overlapped>>
  /\ build' = IF build # None /\ build.by = Rebuild THEN None ELSE build
  /\ train' = None
  /\ task' = [task EXCEPT ![Rebuild] = "idle"]
  /\ UNCHANGED <<orderVars, bounds, bot,
                 lines, data, trained, archive, manifest, latest>>

Init ==
  /\ bounds \in Scenarios
  /\ BackfillInit(bounds.traded) /\ OrderInit(bounds.before)
  /\ \A t \in Tickers \ bounds.markets : answer[t].result = Nil
  /\ lines = {} /\ data = [f \in FileNames |-> None]
  /\ build = None /\ train = None /\ trained = 0
  /\ archive = {} /\ manifest = {} /\ latest = [k \in Kinds |-> None]
  /\ task = [p \in Procs |-> IF p = Bot THEN "idle" ELSE bounds.job]
  /\ bot = [capture |-> FALSE, policy |-> "shadow", forecast |-> None, execution |-> None]

Next ==
  \/ \E t \in Tickers : World(t) \/ Fetch(t) \/ RecordMarket(t)
  \/ BeginTasks \/ BeginRebuild
  \/ \E p \in Procs : EndBackfill(p) \/ StartBuild(p) \/ WritePart(p)
                        \/ WriteJsonlDataset(p) \/ EndBuild(p)
  \/ \E k \in Kinds : StartTraining(k)
  \/ WriteArtifact \/ EndTraining
  \/ \E s \in Settings, policy \in {"shadow", "active"} : StartBot(s, policy)
  \/ \E c \in Cids : OrderCall(c)
  \/ OrderWorld \/ BotDies \/ RebuildDies

Spec == Init /\ [][Next]_vars

-----------------------------------------------------------------------------
(* Properties.                                                             *)

TypeOK ==
  /\ BackfillTypeOK /\ OrderTypeOK
  /\ bounds \in Scenarios
  /\ Cardinality(lines) <= bounds.lines
  /\ \A f \in FileNames : data[f] = None \/ data[f].broken \in BOOLEAN
  /\ build = None \/ build.by \in Procs
  /\ \/ train = None
     \/ train.kind \in Kinds /\ Len(train.left) <= Len(ArtifactSteps)
  /\ trained \in 0 .. bounds.trains
  /\ archive \cup manifest \subseteq 1 .. trained
  /\ \A p \in Procs : task[p] \in {"idle", "backfill", "build", "forecast", "execution"}
  /\ bot.policy \in {"shadow", "active", "refused"}

\* What the forecast model learns from is how the market ended: neither the
\* empty result of a market that still trades, nor the value a canceled one
\* carries, nor an overtaken record becomes a label.
LearnsTrueOutcomes ==
  LET Holds(m) == \A i \in DOMAIN m.rows :
        LET r == m.rows[i].row
        IN answer[r.ticker] = [status |-> "settled", result |-> r.label_outcome_yes]
  IN /\ latest["forecast"] # None => Holds(latest["forecast"])
     /\ bot.forecast # None => Holds(bot.forecast)

\* No row that validates or tests is older than a row that trains, whatever
\* the order in which the recorded files are read and wherever a killed or
\* running build has cut the file.
SplitsFollowTime ==
  \A f \in FileNames : data[f] # None =>
    \A i, j \in DOMAIN data[f].rows :
      data[f].rows[i].split = "train" /\ data[f].rows[j].split # "train"
        => data[f].rows[i].row.feature_ts <= data[f].rows[j].row.feature_ts

ExecutionRows ==
  UNION {{data[f].rows[i].row : i \in DOMAIN data[f].rows} :
           f \in {g \in {"execution", "live_real"} : data[g] # None}}

\* A row counted as a live one that shows a fill is of an order the exchange
\* filled: the engine's own fills and those of the paper exchange stay out,
\* whatever mode the recorder assumed and whichever line was lost.
LiveRealFillsReal ==
  \A r \in ExecutionRows :
    (r.execution_source_class = "live_real"
       /\ (r.label_filled_within_5m \/ r.label_terminal_filled_qty > 0))
      => orders[r.client_order_id].venue = "real"

\* The quantity a row gives as filled was filled: reports repeat the total,
\* and a row must not add them up.
FillsNotOverstated ==
  \A r \in ExecutionRows :
    r.label_terminal_filled_qty <= orders[r.client_order_id].fills

\* The models the bot runs with can be traced: their version's own file is
\* whole, although latest.json and the manifest are written after it and a
\* training may be killed between any two writes.
RunsArchivedModels ==
  \A k \in Kinds : bot[k] # None => bot[k].version \in archive

\* Evidence opens the gate for active mode: with models that fit, and a live-real
\* file that shows enough rows with a markout and no loss, a start is admitted
\* (README.md:107, README.md:520).
GateOpensOnEvidence ==
  \A s \in bounds.settings :
    ModelsFit /\ ShowsGain("label_markout_bps_5m") => Admitted(s, "active")
=============================================================================
