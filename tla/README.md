# CkyClaw / Kasaya: a verification model in TLA+

The repository holds *Kasaya* (`kasaya/kasaya`), a Python library that runs LLM agents, and *CkyClaw*
(`backend/app`), a FastAPI service that stores agents, sessions, approvals and schedules and runs them with the
library. A web front end, a command line client and deployment files complete it. This directory models the parts
whose control is hard to test: what happens when calls, timers, users and failures meet in an order nobody wrote a
test for. TLC checks each model on small instances; TLAPS proves the main safety properties for every value of the
constants.

    tlc -workers 2 -config MCLibrary.cfg MCLibrary      # one run
    tlapm ApprovalProofs.tla                            # one proof module

`PROJECT.json` lists the components, runs, mutants, theorems and hazards, and maps every definition to its source lines.

## 1. Inventory

Everything runs on one asyncio loop per process: code between two `await`s is atomic, and at every `await` other
tasks may go on, a timer may fire or the task may be cancelled. The library keeps its state in memory; the service
adds PostgreSQL (READ COMMITTED, one session per request) and Redis.

### Modelled

| Part (source) | State | Operations | Interacts with | Hard behaviour | Correct when |
|---|---|---|---|---|---|
| Circuit breaker (`model/circuit_breaker.py`) | state, counters, probe slots, time of the last change | `call`, `reset`, `state` | wrapped provider call, awaited outside the lock | results that arrive in a later period; calls that end undecided | bounded probes; a period is decided by its thresholds; OPEN holds; HALF_OPEN ends |
| Fallback chain (`model/fallback.py`) | entries with breakers, last one used | `chat` | breakers, providers | concurrent walks share probe slots; outages during a walk; excluded exceptions; cancellation | a working provider is found; the primary comes back |
| Agent loop (`runner/runner.py`, `runner/cancellation.py`) | turn count, agent, attempts, reply, token | `run`, `run_streamed`, `CancellationToken.cancel` | LLM, tools, guardrails, debug controller, hooks | many ways out, each with an epilogue of its own; a counter that goes down; cancellation at every await | every run ends; hooks tell how |
| Transcript, session, checkpoints (`runner/runner.py`, `checkpoint/`, `session/`, `handoff/`) | message list, `history_offset`, session, checkpoints | append, save, `load_latest`, resume, commit, roll back | loop, session and checkpoint backends, the caller's transaction | resumed runs; guardrails that refuse them; shared lists; handoffs that lower the turn count; what is flushed and never committed; calls whose result never comes | no other unanswered call reaches the LLM; a session gains a run once and whole; little is repeated |
| Human approval (`services/approval_handler.py`, `approval_manager.py`, `approval.py`) | row, `_pending`, `_decisions` | `request_approval`, `register`, `wait_for_decision`, `resolve`, `resolve_approval_request` | run, API calls, database | timer against answer; check, then write; notify, then commit | no verdict nobody gave; no request left pending; run and row agree |
| Debug controller (`debug/controller.py`) | mode, state, pending action, resume event | `checkpoint`, `step`, `resume`, `stop`, `mark_completed` | agent loop, HTTP and WebSocket endpoints | commands given while the run is not waiting; callbacks awaited in the middle of a command; time-out against an operator | the state shown is true; a stop is honoured; the run does nothing it could not do alone |
| Tool calls and middleware (`runner/runner.py`, `tools/middleware.py`) | stage of each call, results, counters and caches shared by all | `_execute_tool_calls` | tools, guardrails, approval handler, artifact store | calls side by side; time-outs, cancellation, errors of one among many; shared counters | answers all at once in order or not at all; consent first; limits hold |
| Runs of a session in the service (`services/session.py`, `run_registry.py`, `session_backend.py`) | tokens by run id, rows, `message_count` | `execute_run`, `execute_run_stream`, `cancel_run`, the append and its transaction | runner, client of a stream, database | generators suspended with a lock; clients that leave; failing commits; lost updates | answers agree with what is committed; registry holds just the live runs; requests end |
| Scheduler (`services/scheduler_engine.py`, `scheduled_task.py`) | due tasks, batch, session | poll, execute, update, delete, trigger | database, users, the tasks' work | tasks changed after the query; a broken session; crashes | every due task has its turn |
| A2A tasks (`a2a/`) | tasks by id with a life cycle | `tasks/send`, `tasks/cancel` | handler | a cancel while the handler runs; an id used twice | final states stay; what is answered is so |
| Team runner (`team/`, `runner/cancellation.py`) | runs of the members, tokens | sequential, parallel, coordinator | agent loop, caller | failure and cancellation with runs in flight | nothing is left running; results whole and in order; cancelling ends it |
| History trimming (`session/history_trimmer.py`) | none | `trim` | agent loop | limits used up exactly or by system messages; compressed results that grow | newest messages without a gap, as many as fit |
| Evolution proposals and agent versions (`services/evolution.py`, `agent_version.py`, `agent.py`) | status and `applied_at` of each proposal, the agent's columns, its versions | patch, apply, check, scan and roll back, edit an agent, restore a version | PostgreSQL, users, the scheduler | rows read, decided upon and written after awaits; time stamps of one transaction compared with each other | versions in order, none numbered twice; a rollback restores what an application replaced |
| Workflow engine (`workflow/`) | ready queue, in-degrees, skipped steps, results | `run`, attempts, branch decisions, cancel event | agents, timers | joins behind conditionals; fail-fast in a parallel batch; three ways to cancel | in order, once, none forgotten; failures show; runs end |

### Not modelled

Redis-backed parts (`services/rate_limiter.py`, `query_cache.py`, `token_cache.py`): each operation is one pipeline of
atomic commands over keys of its own, and the order of commands in it is nearly all there is to say. The mailbox, the
event journal and its projections, and `supervision.py` are rows that are written and read; nothing in them waits for
anything. Guardrails, tool schemas, message conversion, cost routing and plan evaluation are pure functions (that one
of them trips, fails or times out is a choice in `AgentLoop` and `ToolCalls`). MCP connections, LiteLLM, the sandbox,
the terminal and the message channels are adapters of external programs. Memory, knowledge bases, retrieval, skills,
artifacts, library agent definitions, accounts, audit, marketplace and evaluation are records with create, read and
update. Routes, models, migrations, front end, command line client and deployment have no protocol of their own.
`PROJECT.json` lists each with its sources and reason.

### Hazards

What this code is exposed to is listed in `PROJECT.json`, line by line, with the properties that cover each. Those
without a property say why: the code settles them one way and no document promises anything. Some that no property
can state are in section 6 only (a restart leaves an approval row pending; a resumed run shares the list of an
in-memory checkpoint).

## 2. Modules

    Breaker ─┬─ CircuitBreaker ── CircuitBreakerProofs       AgentLoop ─┬─ AgentRun ─┬─ AgentRunProofs
             └─ FallbackChain                                           │            └─ MCAgentRun
    Approval ── ApprovalProofs                                          └─ DebuggedLoop ─┬─ DebuggedLoopProofs
    Workflow ─┬─ WorkflowProofs                                                          └─ MCAgentLoop
              └─ MCWorkflow                                  SessionRuns, Scheduler, FallbackChain ── MCServices
    ToolBatch <~~ ToolCalls ─┬─ ToolCallsProofs              SessionRuns, Evolution, FallbackChain ── ServicesProofs
                             └─ MCToolCalls                  TeamRun, A2ATasks, HistoryTrim ── LibraryProofs
    TaskLifecycle <~~ A2ATasks                               HistoryTrim ── MCHistoryTrim
    SessionLog <~~ AgentRun
    CircuitBreaker, Approval, A2ATasks, TeamRun, MCHistoryTrim, Evolution ── MCLibrary

A line is EXTENDS; `A <~~ B`: B implements A, through INSTANCE with a refinement mapping. `MCLibrary` and `MCServices`
run parts that share no state one beside the other: the first state picks the part that moves.

**Breaker** is the value of one circuit breaker and the operators its lock-protected sections apply to it.
`CheckStateTransition`, `Rejects` and `Admit` are what `call()` does before it awaits the wrapped function;
`OnSuccess` and `OnFailure` what it does after. The clock is one bit, `recovered`: `recovery_timeout` has passed
since the circuit opened. Counters stop at their threshold, since the code only compares them with `>=`.

**CircuitBreaker** runs concurrent callers through one breaker. Admission and result are two steps, because the
lock is not held while the function runs; `calls[c]` remembers whether a call in flight was admitted in the
present period or an earlier one. `EndUndecided` is an excluded exception or a `CancelledError`: neither gives the
probe slot back (`circuit_breaker.py:142-155`).

**FallbackChain** composes one `Breaker` value per entry with requests that walk the chain. A failing call is
recorded, refusing entries are skipped and the next one is entered in a single step, as in `chat()` between two
awaits. `FailExcluded` is an exception that the breaker's config excludes: the walk goes on (`fallback.py:162-176`),
the breaker counts nothing and frees no slot (`circuit_breaker.py:152-155`), as with `Cancel`. `spent` remembers which
entries a call left that way while they were HALF_OPEN. Providers go down and come back at any time.

**AgentLoop** is the control of `Runner.run` and `run_streamed`. A phase is a place where the run awaits: `ready`
(head of the loop), `llm`, `stream`, `replied` (guardrails and debug checkpoints), `tools`, `handing`, `saving`
(checkpoint), `closing` (session saved, hooks to come), `ending` (`on_run_end` called and awaited). Each action is the
code from one such place to the next; `Abort` is a cancellation, a disconnect or the death of the process at any of
them: also in `ending`, since `_invoke_hook` catches `Exception` only (`hooks.py:67-74`), so that a run whose
`on_run_end` was called may still end by an exception. `CancelToken` may come at any time, the loop sees it at its
head only (`runner.py:1168`). Handoffs lower `turn_count` (`runner.py:1443`).

**AgentRun** EXTENDS AgentLoop: each of its actions conjoins one of AgentLoop's with what happens to the
transcript, the session and the checkpoints. `Append_` is `messages.append`, which also grows an in-memory
checkpoint that is the same list; `Finish` are the ways out that save the session; `Resume` is
`run(resume_from=...)`, with `load_latest` as each backend implements it. The input guardrails look at a resumed run as
well: `ResumeTrips` is the one they refuse, which leaves the checkpoint's messages in the session
(`runner.py:1129-1155`). `Answer` collects the results of a reply: of two or more calls side by side one that raises
`CancelledError` by itself has none and the loop goes on (`runner.py:857-883`); `lost` is the set of those results.

The database backends only flush (`checkpoint_backend.py:35-36`, and so does `session_backend.py`); it is their caller
that ends the transaction. `Commit` is `execute_run` after `run()` returned a result (`services/session.py:723,1175`) or
a stream's post-processing; `Rollback` is a tripped guardrail or a cancellation (`:1121-1156`, which return without
a commit), a failed audit or trace (`:726,759`), or the death of the process: session and checkpoints are then as the
run found them (`before`, `found`). A run begins once the transaction of the one before is settled. Histories (`before`,
`produced`, `newest`, `reached`, `lost`, `rejoined`) record what the properties compare with.

**SessionLog** is what the owner of a session relies on when it hands it to the runner: a run says things, and at one
point all it said is added to the session, or nothing is; nothing is said that was said before. `run` tells whether
the latest run is open, kept, left by an abort or over; when it is over its caller has kept what it added or taken all
of it back (`Settle`). A run may also be refused at once, with what it was given. The exception is part of the
promise, as `again`: a run that goes on from a checkpoint in a session that is not empty may say what is there already
(`runner.py:1117-1126` puts the whole history before the checkpoint's messages, which may be in it). `AgentRun` is
what implements it, with `rejoined` for `again`.

**DebuggedLoop** EXTENDS AgentLoop by the controller of a run in debug mode. Where the run calls `checkpoint()` it may
be stopped, paused or let pass; `Operator` is any endpoint's `step()` or `resume()`, in two steps because each awaits
its event callback between them, or `stop()`, which does not. `Yields` says where they may come in: not between a
checkpoint that lets the run pass and its tools, where nothing is awaited, but after the `before_handoff` checkpoint too,
where `on_agent_end` and the end of the span are (`Leaving`, `runner.py:1435-1438`). `halted` remembers a stop that no
later word overrides; one that comes there is "late": the handoff is made all the same, and the stop is in time for what
follows it.

**ToolBatch** is what the runner relies on when it hands over the calls of a reply: each runs at most once, and not
without the consent it needs; the answers come all at once, in the order of the calls, or never. **ToolCalls** is
`_execute_tool_calls` itself. A call's `stage` is the place it awaits at (the semaphore, guardrails, the approval
handler, the tool, the guardrails after it, the artifact store); a pipeline is a sequence of middlewares whose hooks
(`Stops`, `Passes`) read and write the state all calls share (`wares`). An entry of the rate limiter's list is its
time and the place at which it was appended, so that two entries of one time stay two. `Collapse` is the TaskGroup
cancelling the other calls because one raised, `CancelItself` a tool that raises `CancelledError`, which it does not
count as failure.

**Approval** is one request, the run that waits for it and the API calls that answer it. Steps are separated where
the code awaits: commit of the row, registration, wait, the handler's own SELECT and UPDATE; check, flush, notify
and commit of each call. A flushed UPDATE holds the row lock, as in PostgreSQL. `Expire` is enabled even when the
event is set, since the timer may win over the waiting task's next step. `Lose` is a cancelled run or a restart.
Requests have fresh ids throughout, so one of them shows what many do.

**Workflow** is `WorkflowEngine.run` over a DAG. `Take` and `EndBatch` are one round of the loop; `Attempt` to
`GiveUp` are `_execute_step`; `Decide` is a conditional with `_mark_subtree_skipped`. A step's `"raising"` state is
the time between the record of its failure and its exception, when `fail_fast` lets siblings go on a little. Parallel
steps are "work": their sub-steps run, then the step returns or raises.

**SessionRuns** is the runs of one session in the service, from the request to the last commit. The runner is seen from
outside: it saves once and then returns, or raises. `ReadCount` and `WriteCount` are the two halves of
`session_backend.save`; what is flushed (`dirty`) holds the lock of the session's row until the transaction ends. A
stream is a generator, so `StartTaken` and `EndTaken` wait for its client, and `ClientLeaves` closes it wherever it
stands. `spoiled` and `overlapped` remember the two situations in which less is promised.

**Scheduler** is the polling loop: `Poll` reads all due tasks at once, `Execute` to `Breaks` treat them one after
another in one database session, while users enable, disable and reschedule. Time is one bit per task.

**TaskLifecycle** says what an agent-to-agent server promises of a task: submitted, working, one final state; a result
may be delivered late but changes nothing. **A2ATasks** is the server: ids chosen by callers, replaced tasks, a handler
that is awaited, `transition()` that raises.

**TeamRun** is one run of a team over its members' runs, each of which returns, raises, sees its token or is
cancelled with its task, and the tokens that join them. The members a coordinator calls have no token, because
`as_tool()` is called without a config.

**Evolution** is the proposals to change one agent and the versions of its configuration. A request begins with the
read of its row (`BeginPatch` to `BeginRestore`), reads the agent and the greatest version number where the code does,
and ends with one commit, which may fail on the unique version number or on a deleted proposal. An UPDATE names only
the columns that differ from what was read (`Write`), as SQLAlchemy's does. `created_at` is stamped by the flush inside
the commit, `applied_at` before it.

**HistoryTrim** is the four strategies as operators over a history that grows the way runs save it. Lengths are those
of contents, in characters, and the tokens an assistant's message has used. `Total`, `In` and `Fit` are the loops of the
code as recursive functions, so that they can be proved about.

Each module defines the mutated forms of its operators beside the originals (comment `Mutant:`); a mutant replaces
the original to show that a property can fail for a plausible slip of the code. They are never part of `Next`.

## 3. Runs

| Run | States | What it asks, and the answer |
|---|---|---|
| `breaker_stuck` | fails | `HalfOpenResolves`: the header comment's "one probe, success closes, failure opens". A cancelled or excluded probe keeps its slot; with no slot left every call is refused and the circuit stays HALF_OPEN for ever. |
| `agent_loop` | 58 779 | `HookEndsRun`: `on_run_end` has been called for every run that returns a result, and of the others only for one that was cancelled while the hook was awaited. `RunsEnd`: every run ends unless its agents hand to each other for ever. `CancelEndsRun`: the token ends even that one. Under a debug controller `StateTells`: paused only while the run waits, and a run that returned left a final state. `StopHonoured`: a stop nobody overrides lets no tool start and no handoff happen, but for the one that was under way, past its checkpoint. |
| `agent_run` | 1 359 574 | `CallsAnswered`: no tool call without its result in what an LLM is given, but for a tool that raised `CancelledError` beside others. `LogSpec`: `AgentRun` implements `SessionLog`, so a session gains a run that ends by itself, or is refused, whole and at one point, a rollback takes back that and no more, and no message is in it twice. `ResumeLatest`, `LittleLost`: resuming starts at the last checkpoint that was not rolled back and repeats at most an interval of what was committed. |
| `agent_run_tie` | fails | `ResumeNewest`: "resumes from the most recent checkpoint". After a handoff two checkpoints share a turn count and the older is taken. |
| `tools` | 305 184 | `BatchSpec`: `ToolCalls` implements `ToolBatch`. `RepeatsBounded`: no call runs more often than the loop guard allows, though calls of one reply pass it together. `RateBounded`: no window sees more calls of a tool than the rate limit. `CacheSound`: the cache stays within its size and holds only the last success. `BatchEnds`: every batch ends, with one slot and a human to ask as well. |
| `library` | 189 075 | Six parts side by side. Breaker: `PeriodUndecided`, whatever late results were counted while OPEN, a new period starts below its thresholds; `ProbesBounded`, probes in flight never exceed `half_open_max_calls`; `OpenHolds`, no call enters an OPEN circuit before the recovery timeout, and no late success closes it. A2A: `LifecycleSpec`, the server implements `TaskLifecycle`. Team: `TeamWhole`, a team that is over has left no run behind, and one that returned has all results in order; `CancelEndsTeam`, cancelling ends a sequential or parallel team even if no member would. Trimming: `TrimSound`, the newest messages without a gap, as many as the limits allow and no more. Approval: `DecisionMeant`, a run acts only on a verdict of somebody who found the request pending; `Settled`, no finished request stays pending; `SoleVoterHeeded`, with one such voter row and run agree even if the commit fails; `HandlerEnds`. Evolution: `VersionsInOrder`, however requests interleave, versions are numbered in the order in which they were created, none twice. |
| `services` | 72 300 | Three parts side by side. Sessions: `SavedAsAnswered`, what clients are told agrees with what is committed; `CountUnder`, `message_count` never exceeds the messages, and is exact unless two runs saved at once; `RegistryReleased`, a token is registered just while its run can be cancelled, but for streams whose client left at `run_start`; `RequestsEnd`, though a suspended stream may hold the lock others wait for. Scheduler: `DueRuns`, every due task has its turn unless one goes on breaking the session. Fallback: `NeverExhausted`, with one provider that never fails no request exhausts the chain, though probes, outages and cancellations interleave; `ChatEnds`; `PrimaryReturns`, once the primary stays up its breaker closes for good, if no probe of it ended undecided (cancelled, or by an excluded exception) and there are as many slots as successes are asked for: without either it may stay HALF_OPEN for ever. |
| `evolution_rollback` | fails | `RollbackRestores`: "find the version created when the proposal was applied and restore the agent". The version is stamped after `applied_at`, so the one before it is found, and an agent that was edited before the proposal was applied loses the edit. |
| `trim_progressive` | fails | `ProgressiveKeepsMore`: "keeps more turns within the same budget". A tool result of up to 14 characters above the limit grows when it is cut and marked, and what fitted before no longer does. |
| `approval_twice` | fails | `ResolvedOnce`: "the status must be pending". A call resolves the request, and the handler, which read it as pending too, writes its own verdict over that after its wait; two calls may do so as well. |
| `workflow` | 589 188 | `InOrder`, `TakenOnce`, `SkippedIdle`: steps run after their predecessors, once, and never behind a branch not taken. `CompletedWhole`: no step is forgotten. `FailureShows`. `WorkflowEnds`. |
| `workflow_cancel` | fails | `CancelShows`: "a cancelled run has status CANCELLED". Steps of the last batch see the event, are CANCELLED, and the run is COMPLETED. |

Bounds and why they suffice:

- Breaker in `library`: three callers, thresholds and slots of two. Two slots leave one caller to come too many and let
  a late call of an earlier period return among two probes; thresholds of two distinguish "one" from "enough".
  `breaker_stuck` needs one slot only.
- Fallback in `services`: two entries with breakers, of which the second is dependable; thresholds and slots of two, so
  that a period of probes is more than one probe; two requests, which may be the two probes.
- `agent_loop`: two agents that hand to each other and a third that hands to nobody, two turns, one retry; a controller
  that starts in each of its modes, and two operators between the halves of a command (`MaxOperators`), so that one may
  overtake the other.
- `tools`: two replies of up to two calls (the second batch meets the counters of the first), four settings that
  between them have every approval mode, middleware and concurrency limit; every limit is 1 or 2, so that it is
  reached, and the clock (`MaxTime`) outlasts a cache entry and a window. `LoopKeys` and `RateKeys` are as many as
  there are keys: beyond that the middleware forgets, see section 6.
- `agent_run`: three runs (`MaxRuns`), so that one is committed, the next resumed from it and rolled back, and the last
  resumed from what is left; two turns, of which an interval of one saves both; replies of no or two calls (one is no
  task group), of which one may be left without a result (`MaxLost`); one handoff. Database checkpoints; `run` and
  `run_streamed`, no debug controller; no calls after a handoff; no filter: section 6 says what those would break. Runs
  may go on in the session of another, so that `again` is met. `agent_run_tie` uses the in-memory backend, where the
  order among equals is fixed, and three turns. `clock`, which makes messages distinct, is bounded through `MaxRuns`.
- Approval in `library`: three API calls, so that a second and a third can be anywhere while the first is between two
  steps.
- A2A in `library`: three requests under two ids, so that one task is replaced while a third request runs.
- Team in `library`: three members (a first, a middle and a last one; two that outlive one that fails), two replies of
  the coordinator (`MaxReplies`), so that a member is called again.
- Evolution in `library`: one proposal, two handlers, three versions (`MaxVersions`): both requests may have read the
  same greatest number, or one commits between the reads and the commit of the other. The theorems cover any number.
  `evolution_rollback` needs one handler.
- Trimming in `library`: histories of up to two runs out of six kinds, budgets and caps below, at and above what they
  need; tool results short, just above the limit of 500 characters, and long. `trim_progressive` has the same instance.
- Sessions in `services`: three runs of which one is streamed: two that race for the row while a third holds its lock.
- Scheduler in `services`: three tasks, of which one may break the session, and one crash (`MaxCrashes`): tasks before
  and behind the one that breaks.
- `workflow`: four steps suffice for a diamond, for paths of unlike length into one join (in-degrees go down in
  different rounds) and for two conditionals in one batch. Two attempts tell a retry from the last one.

The runs `agent_run`, `tools`, `workflow`, `library` and `services` say `CHECK_DEADLOCK FALSE`: the numbers of runs,
batches and requests are bounded, and a team or a workflow ends. So do the violation runs of their parts.
`agent_loop` never stops.

## 4. Fairness

- `breaker_stuck`, fallback: an awaited provider call returns or raises, time passes, and the application
  keeps calling. Providers need neither fail nor recover; `PrimaryReturns` assumes recovery in its premise.
- `agent_loop`: weak fairness of the run's own steps: LLM calls and tools return or raise, debug pauses have a timeout.
  Nothing is assumed of aborts, of the token, of operators, of new runs, or of which reply an LLM gives.
- `tools`: every call goes on by itself (tools have time-outs or return, a human or the handler's timeout answers), and
  the batch is collected. No error, time-out or cancellation is assumed to come.
- Team: tasks start, a token that is set is seen at the head of the loop (`CancelEndsRun` of `AgentLoop` is what
  justifies it), a cancelled task ends, the team takes note. That a member ends by itself is not assumed.
- Sessions: runners end (`RunsEnd` of `AgentLoop`; `CancelEndsRun` for the rest), queries return, and the client of a
  stream takes its next event or its connection breaks. Nobody need cancel anything.
- Scheduler: the loop polls for ever and the work of a task ends. Users and crashes are free; crashes are bounded.
- Approval: weak fairness of the handler (queries return, the wait has a timeout) and of every API call that can go
  on. That somebody answers is not assumed.
- `workflow`: the event loop runs the engine, and an attempt returns, raises or times out. The cancel event, the
  deadline and cancellation of the task are not assumed to come.

## 5. Proofs

TLAPS proves, for every value of the constants that satisfies the named assumptions:

| Theorem | Says | Assumes |
|---|---|---|
| `TypeCorrect`, `PeriodsUndecided`, `ProbesAlwaysBounded`, `OpenAlwaysHolds` | types, undecided periods, bounded probes of a breaker; OPEN holds | thresholds positive, finitely many callers |
| `ChainsNeverExhausted` | a dependable provider anywhere in a chain of any length serves every request | `ChainAssumption`, `BreakerAssumption` |
| `LoopTypeCorrect`, `PhasesConsistent`, `HooksEndRuns` | turn count within 0 and `max_turns`, phases; `on_run_end` before every result, and otherwise only before a cancellation | `LoopAssumption`: types of the parameters |
| `RunTypeCorrect`, `RunsAreLoops`, `ResumedHooksEndRuns` | types; each run, resumed ones too, is one of `AgentLoop`; hooks | `RunAssumption` |
| `SessionsComplete` | the session gains a run once and whole, until it is rolled back | also `~Filtered` |
| `RunsKeepLog` | `AgentRun` implements `SessionLog`, for every backend, agents and calls, with aborts, rollbacks, resumed runs and those the guardrails refuse | also `~Filtered`, `HasSession` |
| `MessagesSavedOnce`, `LogsHoldOnce` | no message is in the session twice, unless a run was resumed in a session already used; `SessionLog` alone promises as much | `RunAssumption`; none |
| `CallsAreAnswered` | no LLM sees a call without its result, but of a tool that cancelled itself | also copies as checkpoints, no debug controller, no calls after a handoff |
| `ResumingLosesLittle`, `ResumesAtLatest` | a resumed run repeats at most an interval of what was committed; it begins at the newest checkpoint that was not rolled back | also `~SavesFail`; copies and `Findable = Agents` |
| `DebuggedRunsAreRuns`, `StatesTell`, `StopsAreHonoured` | a debugged run is a run of `AgentLoop`; the state shown is true; a stop is honoured, but by a handoff past its checkpoint | `LoopAssumption`, `DebugAssumption` |
| `BatchesImplemented`, `RepeatsAreBounded`, `RatesAreBounded`, `CacheIsSound` | `ToolCalls` implements `ToolBatch`, for every reply, pipeline and limit; the loop guard, the rate limit and the cache | `ToolAssumption`: types and positive sizes |
| `RegistryIsReleased`, `RunsAreSavedAsAnswered`, `CountsNeverExceed` | the runs of a session, for any number of them | finitely many runs |
| `TasksFollowLifecycle` | `A2ATasks` implements `TaskLifecycle`, for any requests and ids | `NoTask` is no request |
| `TeamsEndWhole`, `TokensReachRuns` | a team of any size and protocol | `TeamAssumption` |
| `TrimsAreSound` | what a run loads of a history of any length, under every strategy and limit | `TrimAssumption` |
| `VersionsAreInOrder` | an agent's versions, for any requests | `EvolutionAssumption` |
| `ApprovalTypeCorrect`, `DecisionsMeant`, `RequestsSettle`, `SoleVotersHeeded` | the approval handshake, for any number of calls | none |
| `WorkflowTypeCorrect`, `StepsInOrder`, `SkippedStayIdle`, `StepsTakenOnce`, `CompletedRunsAreWhole`, `FailuresShow` | the ready queue and what a run ends as, for every finite DAG | acyclic edges, finite steps, a positive number of attempts |

The arguments:

- **Breaker.** `Inv` = types, undecided periods and bounded probes is inductive. Lemmas say what each operator of
  `Breaker` returns; `EndLemma` covers all three ways a call ends. The core is that entering HALF_OPEN makes every
  call in flight stale, so the slots start at zero together with the current calls. `OpenHolds` is an action property
  that follows step by step from the same lemmas.
- **Fallback chain.** `ChainInv`: a dependable provider is up and its breaker `Unharmed` (CLOSED, with no failure
  counted), and no request awaits a provider behind it. A walk goes to the first entry that admits it (`LeastOf`: a
  nonempty set of naturals has a least element), and the dependable one always does.
- **Agent loop.** Types alone are not inductive, because a handoff subtracts one from the turn count. `PhaseConsistent`
  adds that a run in a turn has counted it; `HookInv` adds which hooks each phase has had. Each step of `AgentRun` is
  one of `AgentLoop`, a `StartAt` or a `TripAt`, so the same invariant holds of runs that are resumed. `Transacted`: the
  transaction of a run that has not ended is open.
- **Tool calls of a transcript.** `AnswerInv`: what is in the session and in each checkpoint is `WholeTalk`, and so is
  the transcript but between a reply and its results, where it is a whole one followed by that reply; whole means that
  every call has its result or that result is in `lost`, which only grows. A rollback returns to `before` and a prefix of
  `saved`, which were whole. The hypotheses
  exclude what would leave calls open in the code (section 6): a checkpoint that shares the list and grows with it, a
  debug stop before the tools, calls after a handoff. Filters need no exclusion: the one considered keeps the last
  message of a handoff, which calls nothing.
- **Checkpoints.** `Near(saved, f, n)`: one of the first `f` checkpoints is at most an interval's remainder behind turn
  `n`. `KeepsUp`: all of them are near the turn that is over, and those the run found, to which a rollback returns, near
  what is committed (`Reaches`, as a handoff takes back the turn that is not over). `InOrder`: the last checkpoint is
  the newest, none is of a later turn, and turns never go down along the list, which any part of it from the front keeps.
  A shared list grows after it was saved, and an agent that is not found again is replaced by the root: hence the
  hypotheses of `ResumesAtLatest`, which speaks of the database. A checkpoint that fails to be saved there breaks the
  transaction, so `SavesFail` concerns the others only.
- **Debugger.** Every action of `DebuggedLoop` conjoins one of `AgentLoop` or leaves its variables alone, which is the
  first theorem. `StopHonoured` needs that a stop not yet seen is still `pending`, or the run already woken by it,
  and that it is "late" only between a handoff's checkpoint and the handoff.
- **Tools.** `StageInv` says what the stage of a call tells about the batch: consent and start come before it runs, the
  calls with a result are the ones that are done. Then each action is a step of `ToolBatch` or a stutter. `WareInv`
  bounds a call's counter by `MaxRepeats`, whatever the order of the pipeline, and the cache by its size. `RateInv`: as
  long as a window is open, the runs in it are no more than the entries on record since it began, for every window at
  once; a run that is let through adds one to both, and a list that is cut loses only entries no open window counts. Once
  a window is over its count is final. No list is lost while there are as many as tools (`NotCrowded`).
- **Runs of a session.** `SessionInv`: at most one run has flushed, and it holds what it read; what is logged is
  committed. `CountInv` adds that a run which read the count alone still has the count that is committed, which is
  what makes `CountUnder` inductive when `overlapped` is not set.
- **A2A.** Artifacts and answers are a function of status and request; each request step maps to one of the life
  cycle's, a late result to `DeliverLate`.
- **Team.** `TeamInv`: in a sequential team one member has its turn, those before it have returned and the results are
  theirs, in order; a team that is over has no run that goes on; a token that is set has set all its children.
- **Trimming.** There is no induction over steps here, `TrimInv` is the types; the work is what the loops return for
  every history. `Upwards` states induction with a set instead of a predicate (it follows from `WFMin`), `SequencesUp`
  carries it to sequences, and `Recursion` shows that a function given by its own earlier values exists, without which
  nothing is known of `Total`, `In` or `Fit`. Then `FitFacts`: the walk stops at the first message that does not fit, so
  what it keeps fits and one more would not. `PutTogether` and `CompressedParts`: joining and compressing leave system
  messages and the others where they were. `BudgetFacts` puts the hard limit and the walk together; a budget that the
  system messages use up alone leaves nothing, since a message counts for at least one token (`TokensPositive`).
- **Evolution.** `EvolutionInv`: versions are numbered 1, 2, ... in the order of their creation, and the greatest number
  a request has read is the number of a version. So a commit either appends the next one or finds its number taken.
- **Session.** `Joined`: the transcript is the history followed by what was said since, `history_offset` is the
  length of the history, and the session is the history until the run closes. Resuming re-establishes it from the
  checkpoint, an aliased checkpoint grows along with the transcript, an input filter would break it.
- **Saved once.** `OnceInv`: session, transcript and checkpoints repeat nothing and all ids in them are below `clock`;
  nothing behind `history_offset` is in the session; and while a reply waits for its results no other message has its
  id. So a new message, which has the id `clock` or is a result of the last reply, is new everywhere (`ResultsAnew`,
  `AppendSaved`). It holds with filters and shared lists too, because a filter only takes away. A run resumed in an
  empty session finds nothing to repeat; once one is resumed in another, `rejoined` is set and no more is claimed. It
  holds of `before` too, to which a rollback returns. `RunsKeepLog` then maps each action: a run or a resumption is
  `Begin`, or `Refuse` when a guardrail trips (`LogEnters`); what is appended extends `said`, the ways out that save
  are `Keep`, an abort `Leave`, commit and rollback `Settle`, the rest stutters. `LogsHoldOnce` needs only
  `SessionLog`: what an open run has said is not in the log.
- **Approval.** `Provenance` follows a verdict from the call that passed the check to `_decisions`, to the run and to
  the row; `Flow` orders row, event and decision.
- **Workflow.** `Queue`: in-degrees equal the number of predecessors still pending (at least that number for a skipped
  step, which the code stops counting for), and what is ready has not begun and waits for nothing. `SkipClosed`: what
  lies behind a skipped step is skipped. Then what a conditional marks cannot have begun, by the order so far. `Story`
  adds that a step which waits for nothing is in the queue or has begun (`NoneForgotten`), so that in an acyclic graph an
  empty queue means that all is done; that a step is skipped only behind a decision; and that with `fail_fast` a failure
  is on its way out or has ended the run.

Only model-checked: all liveness (`HalfOpenResolves`, `PrimaryReturns`, `ChatEnds`, `RunsEnd`, `CancelEndsRun`,
`HandlerEnds`, `WorkflowEnds`, `BatchEnds`, `RequestsEnd`, `DueRuns`, `CancelEndsTeam`), which needs fairness and
ENABLED. Every other property of a passing run is a theorem. Where a type invariant is proved no run repeats it.

## 6. Where code and documents differ

Six disagreements have a run that shows them (`findings` in `PROJECT.json`): `breaker_stuck`, `agent_run_tie`,
`approval_twice`, `workflow_cancel`, `trim_progressive`,
`evolution_rollback`. Others were met while modelling; the models follow the code:

- Fallback: an excluded exception or a cancellation of a probe, or a `success_threshold` above `half_open_max_calls`,
  keeps an entry HALF_OPEN for ever (`circuit_breaker.py:144-155`): `PrimaryReturns` names both as its conditions.
- Breaker: a late result of a CLOSED period is counted, and may decide, a HALF_OPEN one (`circuit_breaker.py:170,182`).
- Loop: the token is looked at at the head of the loop only, though `cancellation.py:21` also names tool execution;
  agents that hand to each other never use up `max_turns`; `hooks.py:37` says that `on_run_end` is called "成功或失败"
  (on success or failure), but a tripped guardrail, a broken stream and a cancellation end a run without it, and a
  cancellation while it is awaited ends by an exception a run it was told a result of; a stream that breaks saves nothing
  (`runner.py:1749`); `run_streamed` ignores checkpoints and the debug controller.
- Resume: `checkpoint/__init__.py:3` promises resumption after a crash of the process, but the database backend
  flushes to a transaction that is committed only after a run that returned: what an aborted, refused or crashed run
  saved is gone with it (and the in-memory backend with the process); a guardrail that refuses a resumed run puts the
  checkpoint's messages into the session once more (`runner.py:1129-1155`); agents given as bare handoffs are not
  found again and the root resumes (`runner.py:1016-1027`); the list of an in-memory checkpoint is shared (`:1099`); a
  session already used gets messages twice (`:1126`; `RunsKeepLog` shows that it happens in no other way); an
  `input_filter` takes messages from what the session is given (`:1441`); calls after a handoff (`:680`) and a debug
  stop before the tools leave calls unanswered.
- Approval: an answer between the commit of the row and `register` is not heard; a decision overtaken by the timer
  stays in `_decisions`; after a restart the row stays pending for ever.
- Workflow: a join behind an unchosen branch is skipped though the chosen one reaches it too (documented); a
  conditional that fails with `fail_fast` off lets all its branches run; the deadline is looked at between batches
  only; a loop's `CancelledError` inside a batch is swallowed by the task group (`engine.py:559`).
- Tools: a tool that raises `CancelledError` of its own leaves its call without an answer and the run goes on; a failing
  artifact store takes all calls of the reply along; past 200 tools the rate limiter drops the empty list a call is
  about to enter, so that tool is not limited (`middleware.py:344-347`), and past 500 keys the loop guard forgets;
  nobody calls the loop guard's `reset`; the docstring of `TimeoutMiddleware` speaks of a `wait_for` the pipeline does
  not have; a synchronous tool that times out keeps its thread.
- Debugger: a stop that comes while a handoff past its checkpoint awaits `on_agent_end` or the end of the span is seen
  only after the handoff (`runner.py:1435-1443`); a controller in a final state never pauses or stops again; a
  `step()` or `resume()` accepted before the run wakes undoes a `stop()`; a slow callback's event may end a later
  pause.
- Team: `TeamConfig.max_rounds` and `timeout` (`team/team.py:20-24`) are used nowhere; cancelling the token of a
  coordinator's team does not reach the members it is calling, though `cancellation.py:4` speaks of a cascade.
- Trimming: a cut may fall between an assistant's calls and their results; system messages move to the front, though
  `trim()` says that the order is kept (`history_trimmer.py:67`); an assistant's message counts as all the tokens its
  LLM call used; the summary of what was cut counts as nothing.
- Runs of a session: two runs at once lose a count, and two first runs collide on the row (`session_backend.py:109`); a
  failed token audit or trace rolls back the messages of a run that is answered `completed` (`session.py:726,762`); a
  stream commits the messages of a run that tripped a guardrail, `execute_run` drops them; a client that leaves at
  `run_start` leaks its token (`:1367`); a checkpoint backend is given only with `resume_from` (`:1093-1096`), so the
  service resumes from checkpoints that it never writes; a paused session still accepts runs, though
  `docs/user-guide.md:133-136` says otherwise.
- Evolution: a transition is checked against `_TRANSITIONS` before the awaits and written after them, so two requests
  at once may take a proposal past it (rejected after it was applied) or apply it twice; a PATCH to `rolled_back`
  changes the status and not the agent (`evolution.py:136-139`); the version of an application holds no tools and no
  guardrails (`:446`), so that of an edit may be what such a proposal is rolled back to, or nothing.
- Scheduler: a task that was disabled or moved after the query still runs once; one that breaks the session at every
  poll may starve those behind it.
- Service: each run gets circuit breakers of its own (`services/session.py:1042-1046`), so nothing is remembered
  between runs; the debug controller of the service is never given to a runner. A request the rate limiter
  refuses removes by score, so it may take admitted requests of the same millisecond along.

## 7. What the models leave out

Memory injection, deletion of checkpoints, two runs of one session inside the runner (`SessionRuns` has them from
outside), and the sub-steps and shared context of workflow steps. Streams in the fallback chain, whose later failure
the breaker never sees (`fallback.py:136`). The rows of the debug, team and A2A services; signals and scores of
evolution, creation and deletion of agents; `keep_system_messages = False` and the text of summaries; cron arithmetic.
More than one scheduler process. Message contents, wording, times and token counts.

## 8. Plan

1. The transitions of the abstract breaker (CLOSED, OPEN, HALF_OPEN) as a specification that `CircuitBreaker` implements.
2. `EventJournal`: the numbering of several journals of a session and replay by the projectors.
3. Plan evaluation as operators against reference definitions.
