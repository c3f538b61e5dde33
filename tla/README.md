# Graphon: a verification development

Graphon (`src/src/graphon`) runs workflows: graphs of nodes that a dispatcher
thread, a pool of worker threads and a calling thread execute together. This
directory holds TLA+ specifications of its core, TLC configurations that check
them on small instances, and proofs that TLAPS checks for every instance.
Paths below are relative to `src/src/graphon`.

## 1. Inventory

| Component | State | Operations | Hard part |
|---|---|---|---|
| Graph construction, `graph/` | nodes, edges, their `NodeState` | `Graph.init`: promote fail-branch nodes, mark inactive roots, validate | recursion over a graph not yet validated; nodes shared by several roots |
| Graph traversal, `graph_engine/graph_state_manager.py`, `graph_traversal/` | `NodeState` of nodes and edges, ready queue, executing set | process the result of a node, propagate skips, enqueue, decide completion | depth-first skip propagation mixed with the join rule; completion read off two sets while threads hold nodes |
| Engine run, `graph_engine/graph_engine.py`, `orchestration/`, `event_management/event_handlers.py`, `error_handler.py`, `domain/`, `command_processing/`, `worker.py` | `GraphExecution` (completed, aborted, paused, error), retry counts, event queue, stop events | dispatcher loop and its drains, result handlers, retries and error strategies, commands, pause and resume | a pause, an abort, a failure and results that race; what survives a resumption |
| Event manager, `event_management/event_manager.py` | list of events, completion flag, reader/writer lock | `collect`, `mark_complete`, `emit_events` | the last event against the completion flag |
| Command channels, `command_channels/`, `manager.py` | list, marker key, expiry times | `send_command`, `fetch_commands` | two transactions of a reader interleaved with writers; expiry; a reader that fails between them |
| Worker pool, `worker_management/` | workers and their idle times | start, scale up and down, stop | idleness measured by the last pick-up; threads that outlive the pool |
| Response coordinator, `response_coordinator/` | paths to response nodes, sessions, chunk buffers | `register`, `on_edge_taken`, `intercept_event` | the answer is streamed in template order while its sources run in any order |
| Execution limits, `layers/execution_limits.py` | step count, start time, abort flag | layer callbacks | one abort, sent through the command channel, that races the run's end |
| Iteration and loop, `nodes/iteration/`, `nodes/loop/` | outputs, usage, child engines | rounds of a child graph, in sequence or in a thread pool | abort and failure of one child while its siblings run |
| Human input, `nodes/human_input/` | the form kept by a repository | ask for a pause, resume with the answer or the timeout | an answer that races the expiry, and a pause that is asked for again |
| Runtime state, `runtime/graph_runtime_state.py` | everything a resumption needs | `dumps`, `loads`, lazy creation of the parts | parts restored in any order |
| Variable pool, `runtime/variable_pool.py`, `variables/` | selector -> typed value | add, get, remove | shared between threads without a lock |
| Nodes, `nodes/` | none across runs | compute outputs, choose a handle | data; the engine sees a result, a failure or a pause |
| Model runtime, `model_runtime/` | lazily loaded providers | invoke a model through an external process | an event stream of another process |
| Model calls, `model_providers/base/large_language_model.py` | the chunks of a stream, pieces of tool calls | `invoke`, callbacks | callbacks of calls that are read half-way or fail |
| Backend input, `nodes/backend_input/` | none | a class that cannot be constructed (section 7) | none |
| Layer interface, entities, files, HTTP client | none that others read | formatting, adapters | none for a model checker |

What makes each of them correct:

- **Construction**: the active branch is never skipped; what hangs on inactive
  roots only is; what is handed to the engine refers to existing nodes.
- **Traversal**: a node runs at most once, after every edge into it is decided
  and one is live; a skip reaches everything only it decides; the dispatcher
  does not stop early and leaves nothing waiting.
- **Engine**: no result is computed twice or lost, over retries, pauses and
  resumptions; a successful run is complete; a paused one can be resumed; every
  run ends with a terminal event.
- **Event manager**: the caller gets every event once, in order, the last one too.
- **Channels**: commands arrive in order, at most once, and none is stranded.
- **Worker pool**: as many threads as the configuration allows, none forgotten,
  the queue never without a reader.
- **Response coordinator**: text is shown in template order, as early as it can
  be, only for responses that will be reached, and all of it.
- **Iteration and loop**: outputs in the order of the items, and at their places
  where nothing flattens them; usage counted once;
  no child outlives its node; rounds do not see each other's values.
- **Input**: one form per node; the node ends the way its form did.
- **Execution limits**: a run past its limits is aborted once, and is not
  reported as a success.
- **Snapshot**: what is saved at a pause is what the resumed run starts from.
- **A node's run**: a start first, one result last, one execution id over retries
  and resumptions, every stream closed once, no cost lost.
- **Model runtime**: an answer is all that the process wrote before it was done,
  never half of it; a call ends when its process can.
- **Values**: what a node stores has the type it declares; what is sent, to a
  server or a model, is what was configured; a branch follows its conditions.

## 2. How the parts interact

`GraphEngine.run` is a generator in the caller's thread. It starts the layers,
the workers and the dispatcher, then yields what `EventManager.emit_events`
yields until the execution is complete, and appends a terminal event.

    caller --run()--> GraphEngine ---- emit_events <---- EventManager
                          |                                   ^ collect
                          v start/stop                        |
    clients --> channel --> Dispatcher --> EventHandler --> GraphStateManager,
                          |    ^                            EdgeProcessor,
                          |    | event queue                SkipPropagator,
                          v    |                            ResponseStreamCoordinator
                      WorkerPool: Worker <-- ready queue <-------+
                                    |
                                    +-- node.run(): child GraphEngines of
                                        iteration and loop, forms, models, tools

- Workers share with the dispatcher the ready queue and the event queue only.
  Marks of the graph, the executing set, `GraphExecution`, the retry counts and
  the response coordinator are touched by the dispatcher's thread alone, so a
  handler is atomic for the rest. Whether it leaves these in a state from which
  the next one can go on is the question `GraphTraversal` answers.
- Clients reach the dispatcher through the channel, which it polls when its loop begins,
  after events that end a node, and when its loop ends; not while it waits for
  an event. A poll that raises is logged and has no effect. A layer that aborts a run
  uses the same channel.
- The caller's thread shares the event list with the dispatcher, under a lock
  of the event manager, and stops the pool when the run is over.
- A container node runs child engines with channels and executors of their own
  inside a worker of its parent.
- A pause ends the run. `GraphRuntimeState` keeps paused and deferred nodes, the
  marks and the coordinator; a new engine over it resumes.

## 3. The modules

Abstract specifications are marked A; proofs P.

| Module | Models | Extends or instantiates |
|---|---|---|
| `Workflow` | the static graph: edges, branch nodes, which edges a result selects | |
| `Dataflow` A | what a run promises about the order of its nodes | `Workflow` |
| `GraphMarks` | `NodeState`, and the contract between `Graph.init` and the engine | |
| `GraphInit` | `graph/graph.py`, `graph/validation.py` | `GraphMarks` |
| `GraphInit_proofs` P | | `GraphInit`, TLAPS |
| `GraphTraversal` | `graph_state_manager.py`, `graph_traversal/`, the success handler | `Workflow`, `GraphMarks`; implements `Dataflow` |
| `GraphTraversal_proofs` P | | `GraphTraversal`, TLAPS |
| `Routing` | one handler's whole effect on the graph, as an operator | `Workflow`, `GraphMarks` |
| `Routing_proofs` P | what that effect is | `Routing`, TLAPS |
| `GraphEngine` | `graph_engine.py`, `orchestration/`, `event_handlers.py`, `error_handler.py`, `domain/`, `command_processing/` | `Routing`, `ExecutionLimits` |
| `GraphEngine_proofs` P | | `GraphEngine`, `Routing_proofs`, `LoopTheorems` |
| `EventStream` A | what the consumer of a run is promised | |
| `EventManager` | `event_management/event_manager.py` | implements `EventStream` |
| `CommandQueue` A | what a command channel promises | |
| `RedisChannel` | `command_channels/redis_channel.py` | implements `CommandQueue` |
| `WorkerPool` | `worker_management/worker_pool.py`, `worker.py` | |
| `SharedState_proofs` P | the places where threads or processes meet | `EventManager`, `RedisChannel`, `WorkerPool`, `RuntimeState`, `LoopTheorems` |
| `ResponseStream` | `response_coordinator/` | `Routing` |
| `ResponseStream_proofs` P | | `ResponseStream`, `Routing_proofs`, `LoopTheorems` |
| `Iteration` | `nodes/iteration/iteration_node.py` | |
| `Loop` | `nodes/loop/loop_node.py` | |
| `InputForms` | `nodes/human_input/` | |
| `Containers` | the three of them side by side | `Iteration`; instantiates `Loop`, `InputForms` |
| `LoopTheorems` P | induction, and loops over sequences as functions | TLAPS |
| `ExecutionLimits` | `layers/execution_limits.py` | extended by `GraphEngine` |
| `NodeRun` | `nodes/base/node.py`: the run of any node | |
| `LlmNode` | the run of `nodes/llm/node.py` | `NodeRun` |
| `ToolNode` | the run of `nodes/tool/tool_node.py` | `NodeRun` |
| `SlimCall` | a call of `model_runtime/slim/runtime.py` | `NodeRun` |
| `SlimProviders` | its lazy loading, `slim/package_loader.py` | |
| `ModelCall` | `model_providers/base/large_language_model.py` | `NodeRun` |
| `NodeRuns` | a node or a call of each kind, or the providers, side by side | all of these |
| `Nodes_proofs` P | | `Containers`, `NodeRuns`, `LoopTheorems` |
| `PyValues` | `variables/types.py`, `factory.py`, `segments.py`, `runtime/variable_pool.py` | |
| `RuntimeState` | `runtime/graph_runtime_state.py`, `ready_queue/in_memory.py` | |
| `VariableAssigner` | `nodes/variable_assigner/` | `PyValues` |
| `CodeAndHttp` | validation in `nodes/code/code_node.py`; `nodes/http_request/` | `PyValues` |
| `Conditions` | `utils/condition/processor.py`, `nodes/if_else/`, `nodes/list_operator/` | `PyValues` |
| `Documents` | `nodes/document_extractor/` | `PyValues` |
| `LlmPrompt` | prompts in `nodes/llm/node.py` and `llm_utils.py` | |
| `ModelAnswers` | `nodes/parameter_extractor/`, `nodes/question_classifier/`, `utils/json_in_md_parser.py` | `Conditions`, `LlmPrompt` |

Modules `MC...` give the constants of the others their values for TLC; `WorkerPool`,
`RedisChannel`, `EventManager`, `Containers` and `NodeRuns` need none and are run with
a configuration of their name.

The chain `GraphInit` -> `GraphTraversal` -> `Routing` -> `GraphEngine` and
`ResponseStream` is one argument cut in pieces. `GraphInit` shows (checked and
proved) `InitiallyMarked` of what it returns; `GraphTraversal` starts in any such
state, and `ClosedBetweenHandlers` (checked and proved) says that between two
handlers the marks are a function of the nodes' statuses and chosen handles;
`Routing` computes that function, and the two modules above it take a handler as a
step.

**GraphInit.** `callStack` and `todo` stand for the active calls of
`mark_downstream` and the edges their loops have left, so that every order of
roots and edges is explored. `PromoteFailBranch`, the marking and the validation
are steps. A dangling edge makes a step raise (`pc = "KeyError"` and the like),
as the dictionary access does.

**GraphTraversal.** `estate`, `nstate` are the `state` fields of edges and
nodes, `executing` is `_executing_nodes`, `ready`, `running` and `results` count
a node's entries in the ready queue, workers and the event queue. One action per
call that marks something: `SkipEdge` and `SkipReturn` for
`propagate_skip_from_edge`, `TakeEdge` for `_process_taken_edge`, `Publish` for
the enqueueing of ready nodes, `FinishHandler` and `Complete` for the rest of the
handler and `is_execution_complete`. `callStack` makes the recursion explicit.
Unselected edges are marked twice, as in the code.

**GraphEngine.** `gx` is `GraphExecution`; `dispatcher` says where the
dispatcher's thread is (`loop`, the two drains, the clean-up), and includes the
pending command processing that follows an event. `HandleEvent` has one disjunct
per result: success, failure with each error strategy, retry, pause request.
`Report` is the caller's thread after `emit_events`: it appends the terminal
event. `Close` is the caller closing the generator. `Resume` is
`GraphEngine.run` over the state a pause left. Handlers that raise half-way (a
default value on a branch node, a pause request after an abort) do here what
they have done before they raise, and the dispatcher's `except` ends the run.
A poll of the channel (`ProcessCommands`) applies all its commands or, if the fetch
raises (`FetchRaises`), none, and the channel may have lost them; `layer.missed`
remembers that an abort the layer had sent was passed over so.

**EventManager.** `holder`, `readers` are the condition's lock and the reader
count of `ReadWriteLock`; one step per acquisition, wait, copy and release.

**RedisChannel.** `HasPending` and `Fetch` are the two transactions of a poll,
`FetchFails` one that raises before or after the server has executed it.
`fetch_commands` drops a payload that is no command; one that is not even a JSON
object raises in its loop, when the list has been deleted: `FetchLoses`.

**WorkerPool.** `check` is a call of `check_and_scale` under way, `stopping` one
of `stop`. Both hold the pool's lock, workers take no part in it. Time is the age
of a worker, the time since its last pick-up, in three classes set by the two
thresholds.

**ResponseStream.** `coord` is the coordinator: paths, sessions, positions,
buffers. Handlers are operators on it that follow the code's methods
(`OnEdgeTaken`, `TryFlush`, ...). `order` is the iteration order of the set of
response nodes: a set of strings, so a matter of the process.

**Iteration.** `task` is the state of an item's future, `engines` the dictionary
of child engines, `asked` those that have been sent an abort. `flatten` is
`flatten_output`, which is on by default: `NodeOutput` is what
`_flatten_outputs_if_needed` makes of the outputs. `raised` is an exception that is no
`IterationNodeError`; `_run` does not catch it, and the usage gathered so far goes
with it. **Loop.** `stamp`
tells in which attempt and round an inner node's variable was stored, so that a
stale value can be told from a fresh one. **InputForms.** `seen` is what
`get_form` returned to the run of the node under way, while `form` goes on
changing.

**ExecutionLimits.** `layer` is the layer's count, limit and flag. `GraphEngine`
calls it where its handlers collect an event: `CountStep` at a start, `CheckLimits`
at a success or a failure no strategy takes. Its abort enters the channel, which
the dispatcher polls next. Start events are in the event queue only if a layer is
there to count them.

**NodeRun.** `out` is what the worker puts on the event queue in one run, `xid` the
execution id the object keeps, `saved` the one a restored state has. `Begin` is the
start event, `RunAgain` the engine's retry, which runs the *same object* again, and only
after a failure. The modules that extend it are the `_run` of a kind of node: their
actions move `stage` along its steps, `mem` holds its locals and the attributes that
outlive a run, and they end through `Complete`, `Raise` or a stream's `Final`. The kind
`"any"` yields, pauses, results and raises in any order and number, as `Node.run` lets
it: there is no guard there. While it keeps to one result, at its end, it is as good as
a kind of the program; when it does not (`IsAstray`) only what `Node.run` itself sees to
is said of it: how the run begins, and the ids of its events. A retry of a node whose
stray `_run` goes on after its failure is not modelled.

- *LlmNode*: prepare, invoke, chunks or a whole answer, files saved on the way
  (which may fail), the split of reasoning, the result. A text is a sequence of
  words, images and tags.
- *ToolNode*: one action per kind of message; each variable is a stream.
- *SlimCall*: the process writes into a bounded pipe, cannot write or exit while it is
  full and it has more to print, and may die with any of it unsaid; the caller reads
  lines, meets the end of the output, waits. Every way out of a call waits for the
  process (`slim-close`, `slim-wait`), and nothing reads the pipe then.
- *ModelCall*: `told` is what the callbacks heard; the caller may stop reading,
  the stream and the callbacks may raise. `CallFor` finds the tool call of a piece.

**SlimProviders.** Threads in `_ensure_loaded`: a test without the lock, then one
with it; download, unpack and read are steps, between which the program may crash
and start again on the same disk.

**Values.** `PyValues` has a value as its Python class and content, so that a
Boolean is an integer where Python has it so. `PyValues`, `CodeAndHttp`,
`Conditions`, `Documents`, `LlmPrompt` and `ModelAnswers` are operators from an input
to the result of the function or the node they model; `RuntimeState` and
`VariableAssigner` are machines. In
`RuntimeState` a part that may not exist yet is a sequence of at most one element;
`dumps`, `loads` and attaching the graph come in any order. In `VariableAssigner`
two nodes work on copies of the pool while the dispatcher applies what they asked
for.

## 4. The runs

| Run | Question | Instance |
|---|---|---|
| `traversal` | Is the traversal right on every graph of a family, whatever the order? | all 512 graphs over 4 nodes whose edges go upwards, two of the nodes branches |
| `graph_init` | Does `Graph.init` mark and validate what the traversal starts from? | all subsets of a set of 8 edges over 5 nodes and a missing one, cycles included |
| `engine` | Do retries, pauses, aborts, failures and resumptions lose or repeat anything? | a diamond and a fork, 2 workers, 1 command, 3 runs |
| `event_manager` | Does the consumer get every event, and end? | 2 collectors of 2 events |
| `redis_channel` | Is the channel a queue, faults and expiries included? | 4 sends, 2 faults, 2 expiries |
| `worker_pool` | Is the pool within its bounds and the queue served? | 1 to 2 workers, 3 threads, 2 waiting nodes |
| `response_stream` | Is the answer shown in order, early, and whole? | 3 graphs, 2 responses that share sources, 3 chunks, 1 resumption |
| `containers` | Iteration, loop, forms: are outputs in place, usage counted once, rounds kept apart, nobody asked twice, and all over at the end? | 3 items on 2 threads in every mode; 2 inner nodes, 3 rounds, 1 retry; 2 nodes that ask |
| `iteration_abort` | Is every other child told to stop? (no, section 6) | the same |
| `input_forms_late` | Does a submitted form decide the edge? (no, section 6) | the same |
| `node_run` | Does a node, of any kind, show and end with what it should; does a model call? | 6 kinds, 2 attempts, answers of 3 pieces; 2 threads, 2 providers, 1 crash |
| `values` | Do computations on values, and what is restored or written to the pool, agree with what they are for? | 14 jobs over enumerated inputs, 2 assigners, 1 node with its snapshots |

### What they show

`traversal`. `ClosedBetweenHandlers`: a handler leaves nothing half-propagated.
`StopsWhenDone`, `NothingLeftWaiting`: the dispatcher, which reads completion off
an empty ready queue and an empty executing set while workers hold nodes, stops
only when every node is decided as the selected edges say. `MarksAreFinal`: the
double marking of unselected edges changes nothing already decided.
`ImplementsDataflow` and `KeepsPromise`: it implements `Dataflow`, safety and
liveness. `Inv` is the inductive invariant of section 5, checked first.

`graph_init`. `Inv` has the contract `InitiallyMarked` (its part `GraphIsMarked`), and that
the active branch is never skipped and that a graph that comes out has no
dangling part. `InitEnds`: the recursion, which keeps no set of visited nodes,
ends on cyclic graphs too, because a node is entered with its last edge only.

`engine`. `Inv` has three parts that matter. `RunsOnce`: a node is in one place at
most, in a queue, with a worker or among those to be resumed, and one that has a
result is in none. `ExecutingIsExact`, which completion rests on. `LimitsAreKept`:
a run past its limits is not reported as a success, unless the channel raised when the
layer's abort was sent or when it was to be fetched.
`PausedIsResumable`: at a reported pause nothing is queued, running or unhandled,
and each node that could go on is among those a resumption starts.
`SuccessIsComplete`: a run that ends well has decided every node as `Dataflow`
says. `RunEnds` and `PauseIsReported`: every run ends with its terminal event,
and a pause is not forgotten for an end, an abort or an error that comes in the
meantime.

`event_manager`. `ImplementsStream`: order, no loss, no repetition, and an end
only after the last event. `GeneratorEnds`: no lost wake-up. `Inv` has mutual
exclusion and that each copy starts where the last one ended.

`redis_channel`. `ImplementsQueue`: in order and at most once, with failed transactions,
unreadable payloads and expiries. `NeverStranded`: while no transaction has raised, the
list is fetched (or expires). The condition is needed: section 6. `RedisInv` says which
list may be without its marker.

`worker_pool`. `ThreadsServe`: as long as the pool runs and nodes wait, nodes are
taken again and again, whatever scaling does, and a worker told to stop does.
`PoolInv` bounds the list and says that no thread is forgotten by the pool unless it
was told to stop.

`response_stream`. `Inv` has `BegunIsReached`: a session begins on the promise that
its node will run, and the promise is kept. `ShownInOrder`: template order, chunks in
order and once, responses not mixed. `NothingHeldBack`: what can be shown is.
`AllShown`: at the end of a run each response that ran was shown to its end,
unless the session that is active waits for a variable its source never stored.
It also has that a segment is left only when nothing can follow in it.

`containers` puts three machines side by side; the initial state picks the one that
moves. `PlacesKept`: output `i` belongs to item `i` where errors are kept as null,
unless the outputs are flattened: if every value is a list they are, and then a failed
item leaves no trace and only the order is kept. `UsageOfEveryChild`: the usage of each
child, of a loop's round too, is added once, also on the way out of a failure; what an
exception that `_run` does not catch takes with it is said in section 6.
`ContainersInv`: no child runs on after its node's result; variables read in a round
were stored in it, outputs are those of the last round, nothing runs after the first
break; a node creates one form and ends as its form did. `IterationEnds`: no wait of the
node or its executor is for ever. `AnswerIsSeen`: an answer, or a timeout, between the
look of a node and its pause is seen after the resumption, unless a form expires: nobody
resumes such a run.

`node_run`. `NodeRunInv`: one start and one result per run, which each of the `_run`s
modelled here sees to, for `Node.run` does not; one execution id, the restored one if
there is one, in every attempt (what listens tells a node's events from those of its
children by it); no stream goes on after its last chunk, and one that is open is closed
before the node succeeds; a model's answer that was complete is paid for although a
later step fails. `AnswersAreShown`: the pieces of an LLM's or a tool's stream put
together are the text of its result (less the reasoning that is taken out); the answer
of a Slim call is all its process wrote, from a process that has ended and reported no
error; callbacks of a model call hear of every chunk before the next is read and of the
whole result, and tool calls that came in pieces are put together again, in whatever
order the pieces were opened. `SlimCallEnds`: nobody waits for a line that never comes
or for a process that can end; a process that is waited for while its output fills the
pipe cannot (section 6). `ProvidersOK`: one thread loads at a time; a provider is
reported as unknown only while another thread is loading or after a load that raised;
declarations are read from whole packages unless the program crashed while it unpacked
one.

`values`. Reference definitions for computations, over all inputs of small sets,
and invariants of the two machines.

- `ValuesAreTyped`: the two ways in which the program finds a value's type agree;
  what is valid for a type is taken once it is cast; a code node that succeeds has
  outputs of the declared types within the limits, and checking them again changes
  nothing; whatever a model answers, each parameter of an extractor gets a value of
  its type, and success is claimed just when the object found has them all.
- `PoolIsKept`: what is stored is read back; a template shows what it names and
  leaves the rest; an assigner that fails leaves the pool alone, one nobody wrote
  beside has the effect of its items in order.
- `SnapshotsRestore`: a restored state means what it meant when it was saved,
  before and after the graph is attached, and the coordinator reads the pool the
  nodes write to.
- `BranchesAndLists`: opposite comparisons, equality and order agree; the first
  case that holds decides, whatever later ones would raise; the class an answer
  names is taken; a list is filtered, extracted, ordered stably and limited.
- `RequestsAndTexts`: each attempt sends what the configuration says of the pool;
  a key goes with each request and the log shows no header with it; the query, files and
  history of a prompt are sent once, in their order, within what the model leaves;
  both prompt builders agree; each file of a document list has its text, in order.

Each of these says in its comment what the code does *not* keep: the exceptions
are in section 6.

### Bounds, and why they are enough

- *Graphs.* Four nodes give a join with a live and a dead input, a skip that
  crosses a join, a branch below a branch, and a node two skips compete for, with
  all orders of edges. What holds is proved for all graphs (section 5). `engine`
  and `response_stream` use a few graphs chosen for their shapes: join below a
  fail branch, exclusive branches, parallel sources shared by two responses, a
  response above a branch.
- *Threads.* Two workers suffice for results out of order: workers share nothing
  but the queues. Two collectors and a reader are all kinds of threads the event
  manager has.
- *Commands, runs.* One command in three runs: pauses also come from nodes, so a
  pause meets a command, and a resumption is paused again.
- *Faults and expiries.* Two of each: the second meets what the first left.
- *Limits.* A limit of two steps in graphs of four nodes, or a clock that may be
  over at any look; one send that fails. Clients send nothing in these runs.
- *Streams.* Three pieces: one before, in and after what closes a block, a call or a
  stream; a pipe of one, so that a writer waits and may wait for ever. Two attempts of
  one object: the second meets what the first left.
- *Values.* Each class of values, empty and full containers, lists of up to two
  (two elements tell first from last and all from any), both sides of each limit.
- *Items.* Three on two threads: one is running, one done and one queued at once.
- *Threads created by the pool.* Three with at most two: one replacement, with
  the old thread alive.

Every bound is a constant named in its module; each is a guard on the one action
it bounds.

### Deadlock

Deadlock is checked in `traversal`, `graph_init`, `engine`, `event_manager`,
where the end of a behaviour is an explicit stutter. The others really stop: no
more sends (`redis_channel`), no more nodes and calls (`worker_pool`), the graph
traversed, the node over, the computation done.

### Fairness

Each thread is scheduled and each node run returns: weak fairness of the
dispatcher's, a worker's, the caller's next step. Strong fairness is asked for in one
place, the lock of `EventManager`: the reader finds it held by writers, and a writer by
the reader, again and again, and each gets it at some time (`SF` of `Emit` and
`AcquireWrite`). That a lock is granted to who goes on asking is what the operating
system's scheduling gives in practice; the 1 ms the reader sleeps when it found
nothing new is there for the writers. No client has to send a command, no caller to close
or to resume, no form to be answered: none of these is fair, with one exception. In
`InputForms` the application resumes a paused run, unless one of its forms has expired;
`AnswerIsSeen` is about that.
In `SlimCall` the process goes on writing and then exits as soon as it can
(`SlimProcessStep`), as the operating system lets it; that somebody kills it is
possible and never certain. The code waits without a timeout, so a process that cannot
write to its full pipe makes the call hang, and `SlimCallEnds` names that case
(`SlimBlocked`) as the one in which a call does not end.
Properties that need fairness assume nothing about time: every timed wait in the
code is a poll.

## 5. The proofs

TLC shows the properties of section 4 on small instances. The theorems below hold for
every value of the constants that satisfies the named assumption of the module
(`GraphAssumption`, `EngineAssumption`, ...): numbers are natural, sets are what they
are sets of, and what else is said here. Each comes from an inductive invariant that a
run checks as `Inv` (the proofs' `Core`, `Running` are the part of it that is inductive;
`WorkerInv` and `LookupInv` are stated beside their proofs); `Init` implies it, each
action has a lemma that it keeps it, and the theorem follows by temporal logic.

| Module | Theorem | States |
|---|---|---|
| `GraphInit_proofs` | `Invariance` | `Spec => []Inv` |
| `GraphTraversal_proofs` | `Invariance` | `Spec => []Inv` |
| | `ReachedBeforeRun` | a node is handed out only when its inputs are decided and one was taken |
| | `CutOffWhenSkipped` | a node is skipped only when all its inputs are, and then no queue holds it |
| | `HandlersClose` | `Spec => []ClosedBetweenHandlers` |
| | `NoLostWakeup` | `Spec => []NothingLeftWaiting` |
| | `OutcomeIsDetermined` | `Acyclic` implies `Spec => []StopsWhenDone` |
| | `FinalMarks` | `Spec => MarksAreFinal` |
| | `Refinement` | `Spec => ImplementsDataflow` |
| `GraphEngine_proofs` | `Invariance` | `Spec => []Inv` |
| | `PausesAreResumable` | `Spec => []PausedIsResumable` |
| | `SuccessesAreComplete` | rooted graphs imply `Spec => []SuccessIsComplete` |
| `ResponseStream_proofs` | `Invariance` | graphs without cycles imply `Spec => []Inv` |
| | `AnswersInOrder` | `Spec => []ShownInOrder` |
| | `NoneHeldBack` | `Spec => []NothingHeldBack` |
| | `AnswersAreComplete` | rooted graphs where sources precede answers imply `Spec => []AllShown` |
| `SharedState_proofs` | `EventsInvariance` | `Spec => []Inv`, of the event manager |
| | `EventsRefinement` | `Spec => Stream!Safety`, the safety part of `ImplementsStream` |
| | `RedisInvariance` | `RedisSpec => []RedisInv` |
| | `RedisRefinement` | `RedisSpec => ImplementsQueue` |
| | `PoolKept` | `PoolSpec => []PoolInv` |
| | `StateIsRestored` | `RuntimeSpec => []SnapshotsRestore` |
| `Nodes_proofs` | `Invariance` | `Spec3 => []ContainersInv` |
| | `OutputsKeepTheirPlaces` | `Spec3 => []PlacesKept` |
| | `UsageIsCounted` | `Spec3 => []UsageOfEveryChild` |
| | `NodeRunHolds` | `RunsSpec => []NodeRunInv` |
| | `ProvidersHold` | `RunsSpec => []ProvidersOK` |

**GraphInit.** For every configuration, with cycles and dangling edges. `RootInv` is
what is known of roots; `MarkInv` says why something is skipped: a node because it is
an inactive root or because all its edges are, an edge because the node above it is;
`TodoInv` which edges below a skipped node are still to be visited, each of them by a
call on the stack. The two need that no edge leads to a root, which the code does not
check (section 6), and are stated under that condition, as are the two properties that
rest on them. When the stack is empty nothing is left to visit, and the three
parts are the contract `InitiallyMarked`. For `ActiveBranchUntouched` the nodes that are
not skipped are the set that contains the root and is closed under edges.

**GraphTraversal.** For every set of nodes, handles and edges, cyclic graphs
included. `GraphAssumption` in `Workflow`: the root is a node without an incoming edge,
edges join nodes, `NoHandle` is no handle. An edge back to the root is not refused by
the validators; it would start the graph a second time, and is left out.
`ClosedBetweenHandlers` is not inductive: in the middle of a handler it is false.
`Inv` says what holds there instead:

- `TypeOK`;
- `RunsAtMostOnce`: a node is once at most in a queue, at a worker, in a handler;
- `ExecutingIsExact`: the executing set is what is in flight or being handled;
- `NodeInv`: a node marked taken is in flight or has its result, and nothing
  else is in flight or has one; a node the handler is about to enqueue is still
  unmarked;
- `MarkInv`: a node other than the root is taken, or about to be enqueued, only
  with all its inputs decided and one taken; it is skipped only with all of them
  skipped; it is undecided, *and not about to be enqueued*, only with an undecided
  input;
- `EdgeInv`: an edge is marked only as its tail's result or skip says, and an
  edge whose tail is decided is marked, *unless* it is among `skipTodo` or
  `takeTodo`;
- `CallInv`: those sets and `readyNodes` are empty outside the phases that use
  them, and an edge in `skipTodo` leaves a node on `callStack`.

The exceptions in `MarkInv` and `EdgeInv` are what the handler still owes. They
are empty at `idle`, and there the three parts give `ClosedBetweenHandlers`. The
hardest lemma is `SkipEdgeInv`, where the recursion skips a join with its last edge and
pushes its edges on the stack, or finds the join live and enqueues it. The refinement
maps a node to `enabled` as soon as it is marked taken, to `done` when its result is
chosen; `StepRefines` has one case per action: marking an edge whose head becomes
decided is `Enable` or `Skip`, the dispatch of a result is `Finish`, all else stutters.

`OutcomeIsDetermined` needs that edges form no cycle (`Acyclic`: among any nodes there is
one that no edge joins to the others; the run assumes it of its instance). The nodes of
a cycle wait for each other for ever, and the dispatcher stops without them. Where
there is none, the first undecided node would have all its inputs decided, and the first
node with a result outside a set closed under live edges would have a live edge from
within.

**GraphEngine.** For every set of graphs, error strategy, number of retries, workers,
commands, runs and limits. The inductive part has no counts over the queues: `PlaceInv`
says of two occurrences of a node that they are one, and `InFlightCount` turns this into
`RunsOnce` and `ExecutingIsExact`. Why the others are needed:

- `StatusInv`: what is in flight is enabled, and the reverse as long as nothing has
  failed; what is held for a resumption is waiting. After an error nodes may be missing,
  so that all that depends on counting is said for runs without one.
- `GraphInv`: why a node has its status, by its inputs. The lemmas of `Routing_proofs`
  (`SkipFacts`, `RouteFacts`) show that a handler keeps it: what `Route` calls skipped is
  the least closed set, and what it enqueues is what has become fed.
- `PhaseInv`: the dispatcher has left its loop with nothing in flight, and a report
  agrees with `GraphExecution`. This carries what `drain` established across the steps of
  three threads to `Report`, and to `PausedIsResumable`.
- `SentInv`, `StartInv`, `CountInv`: an abort the layer has sent is still in the channel,
  a start is followed by its result, too many steps mean that a result is to come. They
  are `LimitsAreKept`, before it is too late.

`SuccessIsComplete` is a theorem about graphs that satisfy `IsRooted`: no cycle, and no
node but the root without an edge into it. Others are accepted by the code, and a run
of them succeeds although nodes were never reached; `GraphInit` marks the nodes below
inactive roots as skipped. The two graphs of the run are rooted.

**ResponseStream.** For every set of graphs, templates, sources that stream, error
strategies, chunks and resumptions. The inductive invariant is `Steady`: the parts of
`Inv` that hold in any graph, and that the coordinator is at rest between two events.
It says, by parts:

- `SessionsInv`, `ShownInv`: where a session stands (in the map, in line, active, over)
  and what it has shown so far, so that what it shows next comes after all of it. Without
  the first a session could begin twice, without the second `InOrder` is not inductive:
  the next piece must be known to be later than *every* piece before it.
- `PathsInv`: what is left of each path is the path without the edges that are taken, and
  a session has begun just when a path is used up.
- `GraphInv`: why a node has its status, as in the engine.

The proof has three layers. One turn of `try_flush` keeps the coordinator's part
(`Turn`); the loop comes to rest within the `FlushTurns` that the model grants it,
because each turn that changes something lowers `Weight`: sessions in line times the turns
of one, and what is left of the active one (`Flush`). So `FlushTurns` is no bound that
hides anything. Then the loops over responses and taken edges: while some of the edges of
a result are reported, `PathsInv` holds of the edges taken before and those already
reported (`EdgeReport`, `EdgesReport`). Then the steps, with `Routing_proofs` for what a
result does to the graph.

`BegunIsReached` is not inductive and cannot be: it is a statement about nodes that are
still to run. `PathIsReached` derives it: among the skipped nodes on a path whose blocking
edges are taken there would be a first, whose edge on the path is dead. That edge does not
block, so its tail is no branch, so the tail itself is skipped: it was not the first.
"First" needs `IsAcyclic`, which the theorem therefore assumes of the graphs.
`NodeExecutionType.BRANCH` among the blocking types is what the argument turns on, and the
mutant that leaves it out breaks the invariant.

`AnswersAreComplete` has a second invariant, `Stuck`: the active session is never at a
source that is finished and stored. At the end of a run every node is decided
(`AllDecided`, by the same descent), a response that ran has a path of taken edges
(`PathIsTaken`), so its session has begun; it is then over, in line or active, and what
the active one waits for can only be a variable its source never stored. It is assumed
that graphs are rooted, and `SourcesPrecede`: when a response may run, the sources in its
template have run or were skipped. The code does not check this; without it a
variable stored later by a node that fails with a default value is not flushed, as
`Except` flushes nothing. `MCResponseStream` states both of its three graphs, and TLC
evaluates them there.

**EventManager** (in `SharedState_proofs`, as the next three). For any number of
collectors and events. `LockInv` ties the fields of `ReadWriteLock` to who is inside,
from which mutual exclusion follows; `CopiesContinue` says where a copy stands in the
list while the list grows, and `CompletionInv` that the last copy was made when nobody
collected any more. The refinement maps the generator's return to the stream's end.

**RedisChannel.** `MarkerCoversList` is inductive with the types. The refinement maps
the list to what can be parsed of it, and a fetch that raises to the loss of all of it:
`Deserialized` is a recursive function, and `DeserializedFacts` is how it acts on a list
that grows.

**WorkerPool.** For any bounds and thresholds. `CheckInv` and `StopInv` say what a call
that holds the lock may still rely on from what it has read, though threads go on. The
bound on the list is that of the configuration, as said in section 6.

**RuntimeState.** For any nodes, whatever is done in whatever order to a state, its
snapshots and the processes that go on from them. `SnapshotsRestore` speaks of a state
that has just been restored; for it to hold through the attaching of the graph and a
second snapshot, `RestoreInv` says of every state that it waits for the marks of all
nodes or of none and, once it has its graph, for nothing (`ReadyInv`); of every snapshot,
which of its parts are what was meant (`WrittenInv`; the two that may be lost are
those of section 4); and that a fresh state still means that (`Agrees`).

**Containers.** For any number of items, threads, rounds and nodes that ask, each of
the three machines with its own invariant. `TaskInv` ties the future of an item to its
child engine; `SequentialInv` and `ParallelInv` say, by the phase of the node, which
items are done with and counted; `OutputsInv` what the outputs are so far. The last is
needed because outputs in parallel are written by place and compacted at the end:
`WithValueFacts` says what the recursive `WithValue` does to a sequence that gets a
value at one place. `RoundInv` of `Loop` ties rounds to what was counted, `SeenInv` of
`InputForms` ties what a node saw of its form to the form.

**NodeRuns.** For any kinds of nodes, number of attempts, lengths of answers and chunks;
any threads, configuration of providers, lookups and crashes. `NodeRunInv` is not
inductive: that a stream is not gone on with after its end follows from where the node
is, and what a run ends with from all its events. `WorkerInv` has, for every kind:

- `EventInv`: the first event, and only that one, is the start; every event that is
  not a child's has the id that the run began with, which is the restored one if there
  was one. It holds of every `_run`, one that goes astray too.
- `ResultInv`: a result is the last event, and the run is over with it or has answered
  and yields no more. `RunInv` is the first, and the second unless the run goes astray.
  The lemmas of the section *Events* say that each statement of a `_run` (a chunk, a last
  chunk, another event, a result, an exception) is a `RunStep`, and `RunStepKeeps` that
  such a step keeps `RunInv`, from a point where nothing has been answered: it is proved
  once, and each kind shows that its statements come at such points.
- `LlmInv`: the text is closed only on the way to the result and before a success; the
  result has the usage of the holder once the answer is complete.
- `ToolInv`: until its messages end no stream of the tool is closed; then those in
  `finals` are still open and occur once, all others are closed. It is here that a variable
  called `text` is the exception: it has a stream of its own and shares that of the text.
- `SlimInv`: the pipe holds lines that the process printed.

`LookupInv` is about the providers: `LoadInv` ties the lock to the thread that loads and
to how far it has come (`next`), so that what another thread sees loaded without the
lock is all or nothing unless somebody loads or has raised; `DiskInv` says when a directory
may be partly there, and that the thread which reads has found or made it whole. Both
were checked on the instance of `node_run` before they were proved.

**LoopTheorems.** The induction theorems of the library take an operator as a
parameter, which the provers cannot instantiate. `SetInduction` is induction for a
*set* of numbers, from the pigeonhole theorem about finite sets. With it, a function
that recurs on the front of a sequence is shown to exist (`FoldExists`) and to be the
only one (the lemma `FoldUnique`); `CountingLoopExists` is the same for a loop that
counts its turns. So the models write a loop over a list as a recursive function where a
proof needs what it computes: `Deserialized`, `WithValue`, `Applied`, and the loops of
`TryFlush` and `OnEdgeTaken`.

What stays with TLC: everything about liveness (`KeepsPromise`, `RunEnds`,
`GeneratorEnds`, `ThreadsServe`, `IterationEnds`, ...) and the fairness part of
`ImplementsStream`, which are out of the prover's reach; `AnswersAreShown`, which puts
what was shown together again by selections and folds over sequences of any length, so
that it needs induction over the library's recursive operators; and `values`, where
nearly every other property compares a computation over sequences with a reference.

## 6. Where the code and its documentation disagree

Two runs end in a counterexample:

- `iteration_abort`. `nodes/iteration/exc.py:26`: the container "must stop
  immediately" when a child aborts. The abort is sent to the engines registered
  at that moment (`iteration_node.py:440`); a sibling whose thread has begun but
  has not registered its engine gets none, its future can no longer be
  cancelled, and the node waits for it to run to its end.
- `input_forms_late`. `nodes/human_input/enums.py:13`: a form that was submitted
  makes "execution resume along the selected action edge". The node compares the
  expiration time with the clock first (`human_input_node.py:231`): an answer
  given in time is dropped when the run is resumed late.

Observed while modelling, and kept as the code has it:

- `nodes/human_input/enums.py:10`: a run with an EXPIRED form "is stopped and will not
  resume". The node treats EXPIRED like TIMEOUT (`human_input_node.py:228`): a run that
  is resumed all the same, or was just before the form expired, goes on along the timeout
  edge, and nothing in the repository stops it. `AnswerIsSeen` takes the comment at its
  word for the application, which does not resume such a run, and promises nothing of it.
- `graph/graph.py:252` takes every node of a root *type* for a root, where the
  comment speaks of nodes without incoming edges: one below the active root is
  skipped. The contract of `Inv` therefore assumes that no edge leads to a root.
- `graph_state_manager.py:233`: only the success handler defers nodes during a
  pause. Retries, exceptions and joins found by the skip propagation enqueue;
  `PausedIsResumable` holds because the drain waits for those as well.
- `command_processor.py:81`: whatever `fetch_commands` raises is logged and no more. An
  abort that a limit has sent may be passed over by the last poll, and the run is
  reported as a success; the layer does not try again. `LimitsAreKept` excepts it.
- `redis_channel.py:79`: if the second transaction fails, the marker is gone and
  the list is not read until the next send sets it again. `redis_channel.py:138`: a
  payload that is JSON but no object raises outside the `except` of the loop, and takes
  with it the commands that were deleted from the list together with it.
- `iteration_node.py:576`: where the outputs are lists they are flattened, and the
  nulls of failed items are dropped: the outputs are then no longer at their places.
- `iteration_node.py:138`: only an `IterationNodeError` is caught. Another exception of an
  iteration in sequence (a child engine that cannot be created, a pool that cannot be
  copied) fails the node in `Node.run`, without the usage of the items that ran.
- `nodes/base/node.py:640`: nothing keeps a `_run` from a second result, from events
  after its result, or from ending without one. The `_run`s that are modelled do not.
- `worker_pool.py:221`: a worker busy with a long node counts as idle and may be
  told to stop in favour of one that waits. `ThreadsServe` holds nevertheless.
  The bound on workers is one on the list: a thread told to stop ends its node
  first, so more threads than `max_workers` may be alive. `graph_engine/config.py` does
  not check that `min_workers` is at most `max_workers`; `PoolAssumption` does.
- `coordinator.py:265`: two responses that become certain at once are shown in
  the order of a set of strings.
- A late pause request overwrites the error of an aborted run; a pause of a
  child engine is taken for its end by iteration and loop; the usage of siblings
  that are running when an iteration fails in terminated mode is not merged; an
  abort of the parent does not reach running child engines; a retried loop that
  breaks before its first round reports the outputs of the attempt before.
- `execution_limits.py:90`: limits are looked at when a node succeeds or fails,
  not when an error strategy takes its failure: a run whose nodes all end so is
  never stopped. A retry is no step. `LimitsAreKept` is about the other runs.
- `llm/node.py:153`: the list of files is made with the object: a retry returns the
  files of the attempt that failed as well, and that attempt has sent no last chunk.
- `tool_node.py:570`: a variable the tool calls `text` is a chunk of the stream
  that the node closes at its end: the coordinator sees it go on or close twice
  (`NamesAnOutput` in `NodeRunInv`).
- `slim/runtime.py:971`: a process is waited for with its pipe open and unread, after a
  line the reader refuses, when the stream is given up or an error reported: one with more
  to print than the pipe holds never ends, nor does the call.
- `slim/runtime.py:974`: a process that exits with zero and without its last line
  has succeeded. `slim/runtime.py:807`: the first test for loaded providers takes no
  lock and sees the dictionary while it is filled. A crash while a package is
  unpacked leaves a directory that later runs take for the whole one.
- `large_language_model.py:379`: errors within a stream and a reader that stops tell
  no callback; the callback after a stream hears of no tool calls; where chunks of
  text and chunks of parts mix, the parts are dropped.
- `http_request/executor.py:99`: the API key is rendered into the configuration, so
  a retry sends the first value; so are the parameters of a model. The log masks the
  header of the key; a key in an address, a parameter or a body is shown.
- `variable_assigner/v2/node.py:143`: of two assigners of one variable that run in
  parallel, one update may be lost; an integer that was divided is no longer
  loadable as one; `EffectOfItems` is about nodes nobody writes beside.
- The prompt builders of `llm/node.py` and `llm_utils.py` differ on empty texts and on
  messages that have tool calls only. The space left for the history is measured
  without the rest of the prompt.
- The parameter extractor raises when a model that can call tools is in completion
  mode; a bracket within a string of the answer hides the object.
- The classifier reports no usage when the JSON of the answer has the wrong shape.
- `list_operator/node.py:277`: a limit of -1 drops the last element.
- `utils/condition/processor.py:401`: order operators take a numeral with a point
  where `=` on an integer raises.
- Text of a template that reads like a selector is taken for one.
- `code_node.py:365`: without a schema, a list of lists raises.
- `graph_runtime_state.py:918`: a state that is loaded while a graph is attached
  keeps the coordinator with the pool of before. How far the answers were streamed is
  lost when a state that was restored is saved again before it has a graph.

## 7. What is not shown

- **Time** is abstract: a poll may come at any moment, a join may time out at any
  moment, a form expires at any moment.
- **Queues** of the engine are counted per node. Their order cannot matter to a
  property: several workers fill and empty them.
- **Clients in runs that are watched by limits**: they send no commands there. A
  channel that raises is modelled for the layer and for Redis; a client whose send
  raises has sent nothing.
- **Resumption while old workers still run**: a resumed engine starts when they
  have left (they do, unless a join times out).
- **Response coordinator**: one variable and one stream per source, acyclic
  graphs. A stream is read once, so a second response that shows it gets the
  stored value, as in the code.
- **In-memory channel**: the sequence `channel` of `GraphEngine` (a thread-safe
  queue drained in one go).
- **Values**: the wording of a value that is rendered as text or markdown, schemas
  of structured outputs, bytes of multipart bodies, prices, formats of documents
  (what a parser of them returns is an input),
  the texts `repair_json` gives up on (a constant).

- **A stray `_run`**: the engine's retry of a node that has reported a failure while its
  generator goes on.

Not modelled at all, with the reason in `PROJECT.json`: the backend input node
(`BackendInputNode.__init__` passes `config=` to `Node.__init__`, which takes `data=`,
so none can be constructed), the layer interface, the debug layer, start, end and answer
nodes, files and the HTTP client.

## 8. Plan

Order of work: what moves every run first, then what runs inside it, then what
surrounds it. Done: traversal, construction, engine and limits, event manager,
channels, pool, coordinator, containers, input, the run of a node and of the kinds
that talk to something outside, snapshots, and computations on values. Machines and
computations that are asked the same kind of question share a run.

Proved: the safety of the traversal, its construction, the engine, the response
coordinator, event manager, Redis channel, worker pool, snapshots, containers, the run
of a node and the providers of the Slim runtime, and three refinements (section 5). What
would come next: that an LLM's text is what it has shown (`LlmTextIsShown`), with the
concatenation of the chunks as a recursive function of the events; and `EffectOfItems`
of the assigner.
