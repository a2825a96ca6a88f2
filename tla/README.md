# pcap_agent in TLA+

pcap_agent answers questions about a packet capture. A *planner* (an LLM agent)
turns a query into a plan of steps, an *executor* runs the steps one after the
other through the same kind of agent and writes a report, a *session* keeps the
rounds of a conversation in SQLite, and *main* ties them together around a
Docker container in which the agents' tools run. This directory specifies that
program in TLA+, model-checks the specifications with TLC and proves theorems
about them with TLAPS.

    tlc -workers 2 -config MCExecutor.cfg MCExecutor.tla      # model-check
    tlapm ExecutorProofs.tla                                  # check proofs

`PROJECT.json` has the list of runs, the lines each definition models, the
hazards the properties are for, the theorems and the findings. Paths below are
relative to `src/`.

## 1. The system

| component | state | operations | talks to |
|---|---|---|---|
| executor, `internal/executor/executor.go` | PlanState (step index, findings, operation log), closure copies of it | `Run`: a graph with the loop is-last → prepare → template → agent → parse, and a final chain | agent, emitter |
| planner, `internal/planner/planner.go` | none between calls | `Run`: prompt → agent → parse | agent, emitter, session's history |
| answer extraction, `internal/common/utils.go` | none | `ExtractJSON` | planner, executor |
| session and store, `internal/session/*.go` | tables sessions, rounds, steps; a handle's round number | `NewSession`, `ResumeSession`, `History`, `SaveRound` | SQLite; other instances of the program through it |
| emitter, `internal/events/*.go` | closed flag, subscribers' channels, a RWMutex | `Emit`, `Subscribe`, `Close`; consumers' loops | planner and executor emit; the printer and `ESConsumer` receive |
| conversation summary, `internal/summary/*.go` | none of its own; the agent's conversation | `MessageModifier`, `BeforeModel` | called by the agent before each model call; calls a summarizer model |
| main, `cmd/main.go` | flags, container, signal channel, `sync.Once` | setup, REPL, clean-up, signal handler | everything |
| sandbox, `internal/virtual_env/sandbox.go` | the container | create, copy a file | Docker |
| tools, `internal/tools/*.go` | none | `bash`, the editor behind `SafeToolWrapper` | called by an agent, one goroutine per call of a message; act in the container |
| logger and metrics, `pkg/logger/*.go` | the callback's counter `cb.Step` | `OnStart` of every node and tool, `Metrics.Emit`, `Fatalf` | called by agents and by the legacy orchestrator; Elasticsearch |
| legacy orchestrator, `internal/orche/orch.go` | PlanState, round records | `MakePlanner`, `MakeExecutor` | agent, metrics; `cmd/test.go` calls it, main does not |
| prompts, `internal/prompts` | none | | |
| demos, `cmd/test*.go`, `internal/summary/example` | | | |

What is hard about it:

- *Interleavings.* Emit, Subscribe and Close of several goroutines; main's
  clean-up and the signal handler's; several instances over one database; the
  tool calls of one message, which share a counter without a lock.
- *Ordering and stale state.* Prompts formatted from a state that grows from
  step to step; a result built from copies of it; a round number read once when
  a session is resumed.
- *Crashes and partial failures.* A save of several statements without a
  transaction; an agent, a decode or a summarizer that fails in the middle; a
  query that fails in the planner, in the executor or while it is saved, and a
  conversation that goes on afterwards.
- *Limits.* Channels that drop when full; a graph of at most 100 supersteps; the
  token budgets of the summary.
- *Sequences.* Several compactions of one conversation; several runs over one
  session with a new container each.

## 2. The modules

| module | models | state ↔ code |
|---|---|---|
| `PlanRun` | what running a plan promises, without the graph | |
| `Executor` | one `Executor.Run` | `node`, `ran`: eino's supersteps; `idx`, `findings`, `opLog`: PlanState; `captured*`: the closure variables; `prompt`: the state the current prompt was formatted from |
| `ExtractJSON` | `ExtractJSON` as operators on token sequences, and what a proper answer is | |
| `Planner` | one `Planner.Run`, on top of `ExtractJSON` | `place`: the graph's node; `object`: what is handed to `json.Unmarshal` |
| `Session` | sessions over the store, as any number of instances use them | `sessions`, `rounds`, `steps`: the tables; `roundNum`: the handle's; `cur`: how far a save is |
| `Emitter` | `ChannelEmitter` and the loops of its consumers | `readers`, `pending`: the RWMutex; `queue`, `taken`: a channel as what was sent and how much was received |
| `Memory` | what the summary promises an agent | |
| `Compaction` | an agent's conversation and its compaction | `messages`: the conversation, a summary being the numbers of the messages it condenses |
| `Program` | main, the signal handler, restarts | `main`, `handler`: where the goroutines stand; `once`: `cleanupOnce` |
| `Conversation` | what the REPL promises its user, session by session | |
| `Repl` | main's loop over one instance each of `Session`, `Planner` and `Executor` | `stage`: the loop; `content`: what a stored round says; the rest is the components' own state |
| `Agent` | one ReAct agent run with its callback and its tools | `calls`: the goroutines of a message's tool calls; `step`: `cb.Step` |
| `Orche` | the legacy planner and executor, on top of `Agent` | `node`, `ran`: the supersteps; `notes`: PlanState; `records`: `roundRecords`; `metrics`: the reports to Elasticsearch |

How they fit together:

    Conversation      <-- implements -- Repl  = Session + Planner + Executor
    PlanRun           <-- implements -- Executor
    PlanRun           <-- implements -- Orche = Agent + the legacy graphs
    Memory            <-- implements -- Compaction

Each refinement is a mapping `Promise == INSTANCE ... WITH` in the detailed
module, and `PromiseKept == Promise!Spec` is a property of its run. `X` has its
TLC instance in `MCX` and its theorems in `XProofs`. Operators called *Variant*
in a comment are plausible bugs of the definition that follows them; no
specification uses them. Each property is broken by one of them (`mutants` in
`PROJECT.json`).

Choices worth knowing:

- *Executor.* Every node is an action and takes one superstep; any node may run
  into the superstep limit. An agent answers anything or fails; what matters of an
  answer is what its text does to the parse node: it decodes, with or without
  findings and actions, it does not, or `ExtractJSON` panics on it. What eino makes
  of a panic is left open: an error of the node, or the end of the process. An
  empty plan, prompts that do not load and a graph that does not compile are
  refused before there is a graph, without an event. A step is known by its position in the
  plan; the code prints and stores the plan's own step ids, which are an LLM's
  labels and need not be unique. In a react node the agent's run is one step.
- *ExtractJSON.* Tokens are a backtick, the braces, the end of a line, the word
  json and anything else. Fences are three backticks in a row wherever they
  start, so four of them are two fences, as for `strings.Index` and
  `LastIndex`; the slice between these panics, and what the graph makes of a
  panic is left open. Braces within JSON strings are not modelled, fences within
  them are. A *proper* answer is one object and prose around it that has no braces,
  and either fewer than two fences in all of it, or the object right inside a fence
  with or without a header; prose and object may have fences of their own then.
  The bare object that the prompts ask for is proper unless its own strings
  have two fences: what happens to it then is part of the property.
- *Session.* SQLite's statements are atomic and each can fail. A row's id is its
  position, the order of the inserts. `clean[s]` is the hypothesis of two
  properties: no two instances held `s` at once and no insert into `rounds`
  failed; it is a history variable and guards nothing.
- *Emitter.* Go's RWMutex lets a writer wait for the readers inside and keeps new
  ones out meanwhile: `Announce`, `Granted`. What a writer does under the lock is
  one step. The actions of consumers include never receiving at all.
- *Compaction.* Both entry points are modelled, `MessageModifier`, which the
  program uses, and `BeforeModel`, which it does not and which returns an error
  where the other exits. Blocks are defined by which message answers which, not
  by the loop that collects them. Nil messages, which the loops skip, do not
  occur: neither agent makes one.
- *Repl.* The components are instances of their own modules, so that a query is
  the steps of `Planner`, then of `Executor`, then of `Session`'s save, and any of
  their failures happens in any of them. What the loop adds is what passes between
  them: which sections of the history are not empty, the plan's length, the notes.
  The process may exit between any two steps. In `Conversation` an answered query
  that could not be stored leaves nothing behind, and a memory that cannot be read
  is told in part: both are what `main` does after logging the error.
- *Agent.* The graph is eino's: a model node, a tools node that runs the calls of
  one message at once and joins them, a limit on the nodes. `OnStart` runs for the
  graph, each node and each tool; its `cb.Step++` is a load and a store.
- *Orche.* A log type is the pair of the chain it is of and what happened. Where
  `Executor` emits events, the legacy code reports to Elasticsearch, and a failing
  report is only logged. The order in which the graph's nodes report, the record
  of each agent run and the counts in the records are modelled. `cause` is the error the caller is
  given; a panic in the parsing and a failed set-up leave no report of their own, so
  that without it the reports could not be held against what happened.
- *Program.* `Killed` stands for SIGKILL at any time and for a signal before
  `Notify` was called. The removal of the container is two steps, so that the
  other goroutine and another signal come in between; it is assumed to return.
  The bodies of a query are single steps: their content is in the other modules.

## 3. The runs

| run | states | what it shows |
|---|---|---|
| `executor` | 1417 | every plan and every sequence of answers, ones whose parsing panics among them: prompts, results and events are complete and agree; the superstep limit cuts off exactly the plans too long for it |
| `planner` | 212 thousand | 4429 answers, 1545 of them proper, 26 of them one object and nothing else: a proper one has exactly its object decoded, a bare object is cut or panics exactly if it has two fences in it |
| `session` | 1.45 million | two instances on one session, failing statements, exits and resumptions: acknowledged rounds are complete, clean sessions are numbered and remembered without gaps |
| `emitter` | 197 thousand | producers, late or idle consumers and a closer in every interleaving: no panic, order kept, drops only at a full channel, nobody stuck |
| `compaction` | 72 thousand | conversations over several compactions: nothing lost or doubled, calls keep their results, shape and budget hold |
| `program` | 13 thousand | signals at every point, failures of every step of the setup, clean-ups that race, restarts: the container is removed and the program ends |
| `repl` | 293 thousand | two queries in one session or in two through planner, executor and save, with every failure and an exit between any two steps: each is told what the answered ones of its session left behind and nothing of the other, its events tell how it ended, and it ends |
| `orche` | 365 thousand | the legacy orchestrator with agents whose tool calls race and answers whose parsing panics: it implements `PlanRun` like the executor, and its reports and records tell what happened, as far as it reports it |
| `session_prev_report`, `compaction_recent`, `program_fatal`, `program_capture` | violations | one statement of a comment each that the code does not keep, section 5 |

Properties, by module:

- **Executor**: `ContextComplete` (every prompt has all that earlier steps
  reported, in order), `ResultComplete` (so has the result, although it comes
  from closure copies; an error comes with nothing), `LastStepIsFinal` (the
  unguarded `Steps[idx]` is in range and the final chain runs exactly the last
  step), `StepBudget` (five supersteps a step), `EventProtocol` (the event
  sequence a subscriber sees agrees with what is returned and why), `PromiseKept`
  (implements `PlanRun`), `RunReturns` (liveness: `Run` returns, unless an answer
  panics and the panic gets through the graph).
- **Planner**: `ProperRepliesAreDecoded` (a proper answer has exactly its object
  decoded; an answer as the prompts ask for it, one object and nothing else, is
  decoded as it is exactly if it has fewer than two fences in it, and cut short
  or lost to a panic if it has), `OneEvent`.
- **Session**: `AckedComplete` (an acknowledged round has all its steps),
  `CleanNumbering`, `CleanHistory` (a clean session's rounds are numbered without
  gaps and remembered completely), `OwnRoundsRemembered` (without any hypothesis:
  nobody is given a history that lacks their own rounds).
- **Emitter**: `NoPanic`, `DeliveredInOrder`, `EveryEventAccounted` (delivered or
  dropped at a full channel, nothing else), `EmitNeverBlocks`, `ConsumersLeave`
  (liveness).
- **Compaction**: `Shape`, `PairsTogether` (no tool call without its results),
  `WithinBudget`, `PreambleKept` (action property), `PromiseKept` (implements
  `Memory`: nothing is lost over any number of compactions, nothing is there
  twice).
- **Program**: `Tidy` (only Fatalf and a kill leave a container),
  `GivenCaptureIsThere`, `InterruptEnds`, `QuitEnds` (liveness).
- **Repl**: `PromiseKept` (implements `Conversation`: whichever round failed, was
  saved in part or cut off, a query is told exactly what the answered ones of
  its session left behind, and leaves behind exactly what its agents noted), `FeedTellsOutcome`
  (what a subscriber can make of a query's events, with the gap the code has:
  a query whose plan is empty, or for which the executor's graph cannot be set up,
  ends without a word), `QueryEnds` (liveness).
- **Orche**: `PromiseKept` (implements `PlanRun`), `MetricsTruthful` (the reports
  are the one trail a plan of that length leaves, cut off where the error given to
  the caller says, and then what the code reports of that error: the node's, if it
  is one of an agent or of decoding, and the executor's, unless its graph could not
  be set up; there is a record for each agent run in it; a
  record's count is never more than the calls of `OnStart` that were made, and
  never less than those nothing overlapped, plus one if any overlapped).

### Bounds

- `executor`: plans of up to 4 steps, a limit of 15 supersteps (code: 100). A plan
  of 3 uses the limit up exactly, one of 4 exceeds it at the last step. The
  theorems hold for any numbers.
- `planner`: all texts of up to 4 tokens, which has every way in which fences
  overlap and braces are missing, and all compositions of prose, fence, header,
  object, fence and rest given in `MCPlanner`, with fences in the prose and in the
  object. Plans of up to 2 steps.
- `session`: 2 instances, 1 session, 2 rounds of up to 2 steps, round numbers up
  to 3, so that a number may be ahead of the count by a failed insert and two
  instances may give out the same one. The instances are interchangeable
  (symmetry); no liveness is checked there. The run of
  the violation has 1 instance, up to 4 rounds and numbers up to 5: two failed
  inserts, a round numbered 3, an exit, a resumption and a round numbered 2.
- `emitter`: 2 producers of 2 events, 2 consumers, channels of 1 event (code:
  256), so that they fill up with the first event. The closer may close again.
- `compaction`: messages of 1 or 3 tokens, a threshold of 6 and a budget of 4, up
  to 2 calls a message and 8 messages a run: two compactions, one of which has
  an earlier summary in it.
- `program`: 3 runs, 2 captures: a new session, and two resumptions with the same
  capture, the other or none.
- `repl`: 2 sessions, 2 queries, plans of up to 3 steps under a limit of 10
  supersteps that 2 fit and 3 exceed, planner's answers that are a plan, no plan and
  a panic. The second query is the first with a history, and an exit, a resumption
  or a new session and a failed insert fit between the two; what the parts do in
  larger instances is in their own runs.
- `orche`: plans of up to 3 steps, a limit of 14 supersteps that a plan of 3
  exceeds with its last node, messages of up to 2 tool calls (two increments that
  race), agents of up to 3 nodes, so that one may call tools and answer, or call
  tools twice and run into the limit.

`CHECK_DEADLOCK FALSE` is set for `compaction`, where a run of the agent ends, and
for `program`, where the last run does.

### Fairness

- `Executor`: weak fairness of the whole. `Run` is one goroutine, which nothing
  blocks but the agent; the agent is assumed to return (it has a step limit of
  its own, 200, and its model calls and tools are external).
- `Emitter`: weak fairness for each goroutine inside `Emit`, and for a writer
  that waits for the lock. Go's scheduler is fair to runnable goroutines and its
  RWMutex does not starve a writer. Nobody has to call anything and no consumer
  has to receive: `ConsumersLeave` is of consumers that go on receiving.
- `Program`: weak fairness for the handler's goroutine and for main once it is on
  its way out. Not for the REPL, which may wait for its user for ever: an interrupt
  ends the program all the same.
- `Repl`: weak fairness of the loop's own steps, which are one goroutine's, and of
  the end of a process that a panic has hit. None of the user, who need not type,
  nor of an exit otherwise.
- `Session`, `Compaction`, `Planner`, `Orche`: none, they have safety properties
  only.

## 4. The proofs

| module | theorems | argument |
|---|---|---|
| `ExecutorProofs` | all of Executor's safety properties and `PromiseKept` | `Control` ties the node to the index, the superstep count (`ran` is five times the steps done plus the place in the chain) and the errors; `Collected` says that state, copies and prompts are complete up to the index, by the lemmas on `Lists`; `Announced` says which events have been handed out at each node. The refinement uses `Collected`: the report's notes are the result's only because copies, state and prompt agree |
| `SessionProofs` | all of Session's properties except the one that fails | `InStep`: in a clean session the only holder's round number is the number of rows, and rows are numbered by position; `SavesInOrder`: a save has stored the steps before its next one; `OwnAt`: a handle that counts no rounds has none of its own |
| `EmitterProofs` | all of Emitter's safety properties | `Locked`: no writer acts while a reader is inside, and channels are shut only when closed; `Enrolled`: the subscribers' list holds each consumer once, from when it subscribes; `InOrderAt` and `AccountedAt`: for one consumer, what its channel holds of each producer, by whether that producer's current Emit has tried it yet |
| `ProgramProofs` | Program's safety properties | `Removed`: once the function of the Once has run the container is removed, and only callers of it get past it; `Located`: the path and the files by where main stands |
| `CompactionProofs` | all of Compaction's safety properties, and that it implements `Memory` | `IInv`: the preamble is in front (`Layout`), the summary and the rest have what was said between them, each thing once (`Contents`), and a call's results follow it without a gap (`Calls`). A compaction moves the messages it keeps by a monotonic map (`Moved`) that `Compacted` derives from `Rank` and `At`, a step of the agent adds to them (`Added`). Which blocks fit the budget does not matter to any of that. `WithinBudget` is about just these blocks: below |
| `PlannerProofs` | all of Planner's properties | `BareReply`: with fewer than two fences nothing is stripped and the object of an object is itself, with two what is stripped is shorter than the answer. `ProperFound`: a balanced object begins and ends with a brace (`BalancedEnds`, on the count of braces of each prefix), these are the outermost of a proper text (`ObjectFound`), the header's fence lies before and the closing one after them (`FenceBefore`, `FenceAfter`), and what the outermost fences enclose, without its first line or with it, still has the object in it whole (`FencedReply`) |
| `OrcheProofs` | all of Orche's properties, `PromiseKept` included | `Control` ties the node to the index, the notes and the prompt, and says where the agent is idle; `Counted` bounds `cb.Step` by the calls of `OnStart`, counting a goroutine that has loaded the counter and not stored it; `Trail` says how much of the trail has been reported at each node and, once the graph has failed, what of the failure, by its cause (`TrailBreaks`, `TrailPanics`), and `Recorded` counts the agent runs in it |
| `ReplProofs` | all of Repl's safety properties, that it implements `Conversation`, and that its parts keep in it what they promise alone | `SessionSpec`: the loop is an instance of Session's specification, whose theorems then hold of it as they stand; `ComponentsStep`: the invariants of Planner and Executor are kept by every step of a call and true at the start of one; `Loop`: where the parts stand at each stage; `Stored`: rounds and what they say are in step, and a handle that counts no rounds has none |

*The loop and its parts.* `ReplProofs` instantiates the parts' proof modules with
the loop's variables and uses what they show. A call of the planner or the executor
starts in a state of theirs (`PlannerCalled`, `ExecutorCalled`: the plan that is
handed over has a length that the planner may return), so what is inductive in the
parts is in the loop too. The refinement goes action by action (`StartReturns`,
`ReadQueryAsks`, ..., `ExitLeaves`). Its hard cases are `ReadQueryAsks`, where the
history's shortcut for a handle that counts no rounds, an unreadable table and the
sections made of it have to agree with what is remembered (`HistoryRead`), and
`SaveAnswers`, where the notes of the inserted row are those of the run at hand
(`Collected` of the executor) and no other entry of any session changes
(`EntryAdded`).

*The budget.* The model sums the sizes of sets of messages with a fold, as the
code does in a loop. What a fold is worth is shown by induction on the cardinality
of the set (`Induction`, the least-number principle over the naturals): it is the
value of any function that adds an element's size at a time, whatever order
the fold takes (`WeightIsSum`, `SumIsUnique`). From there on a weight is additive over
disjoint sets (`WeightOfUnion`) and moved messages weigh what they did
(`WeightOfMoved`), so that the blocks a compaction keeps, each of which fitted what
the newer ones left (`KeptFit`), fit the budget together (`CompactFits`).

The properties themselves are not inductive. `ResultComplete`, for example, says
nothing of the copies before the run ends; `NoPanic` nothing of a goroutine that
is still inside Emit when a writer arrives. The named invariants are the
strengthenings. The theorems are for every value of the constants, under the
assumptions the modules name (sizes are natural numbers, a step limit of at least
1, the ids of no session and no capture being none).

Only model-checked: the liveness properties (`RunReturns`, `EmitNeverBlocks`,
`ConsumersLeave`, `InterruptEnds`, `QuitEnds`, `QueryEnds`), which rest on fairness
and are out of the reach of these provers. Every safety property that a run
expects to hold has its theorem.

## 5. Findings

1. `session_prev_report`: SaveRound counts a round before it inserts it
   (`session.go:71`) and a resumed handle counts rows (`session.go:47`). Inserts
   that fail put the numbers ahead; after a restart they start from the count
   again, so a later round may get a smaller number or the same, and the query
   that orders by number hands out an older report as the previous one. The same
   follows when two instances hold one session.
2. `compaction_recent`: a recent message that does not fit is condensed while older,
   smaller ones stay in full (`summary.go:185`). A result bigger than the budget is
   condensed before the model sees it even once.
3. `program_fatal`: a failure of the summarizer ends the program by
   `logger.Fatalf` and leaves the container (`summary.go:213`).
4. `program_capture`: a session resumed without `--pcap` is planned for a capture
   that is not in the new container (`main.go:172`).

Noticed while modelling, without a run of their own:

- `ExtractJSON` takes all from the first opening brace to the last closing one,
  where its comment has the first object (`utils.go:8`). Two fences within the
  strings of a bare object, which is what the prompts ask for
  (`planner.md:170-174`), are stripped as if they were around it: what is between
  them is decoded, if an object is there, instead of the answer. A single run of
  four or five backticks panics (`utils.go:14`). `ProperRepliesAreDecoded` says
  that nothing else goes wrong with a bare object.
- Such a panic in the executor is not announced as a `step.error`
  (`executor.go:164`), and in the legacy graphs not reported by the node
  (`orch.go:135`, `orch.go:407`).
- An empty plan is announced as created and then refused without an event
  (`executor.go:58`), and so is one whose graph cannot be set up
  (`executor.go:71`, `executor.go:325`), so that a subscriber is not told that the
  query failed (`FeedTellsOutcome`). The legacy executor reports its start and then
  nothing when its set-up fails (`orch.go:653-656`, `779-782`).
- The buffer size given to `NewChannelEmitter` is not the subscribers'
  (`events.go:119`, `events.go:143`). A subscriber that comes after Close has a
  channel that is never closed (`events.go:143`). The printer subscribes in its
  own goroutine and may miss what is emitted first (`main.go:58`).
- `step.completed` is declared and never emitted; steps are stored with empty
  findings and actions, always as completed (`session.go:79`).
- A conversation whose preamble alone exceeds the threshold is summarized before
  every model call. For an empty SystemPrompt the comment has PromptOfSummary, and
  the code takes sum.md (`config.go:76`).
- A line of more than 1 MB on stdin ends the REPL as the end of input does
  (`main.go:187`).
- The callback's count is called that of the `OnStart` calls (`orch.go:664`,
  `logger_callback.go:52`); tool calls that race lose some (`MetricsTruthful` says
  how many at most).
- The bash tool promises a state persistent across calls, and each call is a shell
  of its own (`bash.go:66-84`). The calls of one message share the container.
- `MarshalTruncate` and `TruncateStr` cut bytes, and may cut a character in two.

## 6. Not modelled, and why

- The model, and what tools and texts say: an agent answers anything or fails.
  Which steps, rounds and messages a prompt is made of is modelled, and which tools
  a message calls and how their wrappers take a failure; the wording of prompts,
  reports, sections and summaries is not.
- In `Repl` an agent run is one step, as in `Executor`; its tools are in `Agent`.
- SQLite, Docker, Elasticsearch and eino inside: statements are atomic,
  containers come and go, a report to Elasticsearch has no effect on the program,
  a graph runs one node per superstep.
- Printing: the events on the terminal, the log.
- `SavePcapFile`, `CopyReaderToContainer`, `NopEmitter`: nothing calls them.
  Nil messages, which the summary's loops skip, do not occur: neither agent makes
  one.
- Two sessions created in the same millisecond: the primary key refuses the
  second, which exits.
- The embedded prompts, the image's Dockerfile, the summary's example and
  `test11.go`, which keep no state.

## 7. Plan

Done: the modules of section 2, each with its run, and the proofs of section 4.

Left:

1. Action properties of the loop as theorems: a stored round is never changed, and
   the events of a query only grow.
2. Several instances of the loop over one store, as `Session` has them. `Conversation`
   would then have several users, and promise less: two instances in one session
   may each miss what the other saves between a load and the next query.
