# ChatBot 1C: a verification project

TLA+ modules, TLC runs and TLAPS proofs kept beside ChatBot 1C, a local web
application that answers questions about a 1C trade database. A language model
plans, a catalog of skills says which queries may run, a read-only MCP proxy takes
the queries to 1C, SQLite keeps the dialogues. Paths below are relative to the
package `src/chatbot1c/`; documents are under `docs/`.

Contents: [inventory](#inventory) · [modules](#modules) · [ChatSessions](#chatsessions-and-dialogue)
· [McpProxy](#mcpproxy-and-commandlifecycle) ·
[PlanExecutor](#plancontract-and-planexecutor) · [ListPaging](#listpaging) ·
[ContextSlots](#contextslots) · [Catalog](#catalog) · [runs](#runs) ·
[fairness](#fairness) · [proofs](#proofs) ·
[findings](#where-code-and-documents-differ) ·
[limits](#what-is-not-modelled) · [plan](#plan)

## Inventory

Two processes, and a command line that shares the database with the first.

| Part | State it keeps | Operations | What is hard about it |
| --- | --- | --- | --- |
| Web API (`web.py`) | set of running tasks | sessions, messages, continuations, turn details, event stream, skill import, maintenance | a task per accepted turn that outlives its request and not its process |
| Chat service (`application/chat.py`) | one asyncio lock per session | submit, `process_turn` and its three kinds of run, completion, failure | turns that wait for the lock while their context moves; failures between transactions |
| SQLite store (`adapters/persistence/sqlite.py`) | sessions, turns, clarifications, pages, context slots, events, traces, catalog revisions | one `BEGIN IMMEDIATE` transaction per method | which checks and writes share a transaction; what a second process does in between |
| Catalog (`application/catalog.py`) | the newest snapshot seen by the process; all revisions in SQLite | pin, import, replace, delete, export, activate | two processes import; turns run on old revisions |
| Database marker (`adapters/database_marker.py`) | configured marker | capture | a restart under another marker invalidates questions and pages |
| Plan executor (`application/execution.py`) | one plan in flight | steps in dependency order, resolver uses, ranks, counts, pages, outcome | partial failure, what is a full answer, what may be committed to the context |
| Outcome machine (`application/outcome_machine.py`) | none | pure | precedence of outcomes |
| MCP adapter (`adapters/mcp.py`) | none | a tool call, tried twice within the deadline | a retry while 1C still works on the first attempt |
| MCP proxy (`mcp_proxy/state.py`, `app.py`) | channels with queue, active commands, request index; futures; one condition | enqueue, lease, result, expire, cancel by request, session or disconnect, shutdown | wakeups, late and repeated results, timeouts, dead polls, shutdown |
| Contracts (`contracts/`, `domain/`) | none | JSON limits, schemas, digests, semantic validation of plans, skills, packages and queries | what the rest relies on: an accepted plan, query or package |
| Planner adapter, help index, rendering, shortlist, CLI, page | none of the dialogue | HTTP, text, I/O | none for a model checker |

How they interact. A handler commits a turn and starts a task. The task takes the
session's lock, checks that the session's context version is still the one the
turn was accepted for, pins a catalog revision, asks the planner, binds the plan's
context parameters to slots, runs the plan through the MCP adapter and the proxy, and
completes the turn in a transaction that also writes the exported slots and moves the
context version. A turn may leave a question (a *pending clarification*) or a page
handle; a reply or a continuation *claims* it and becomes a turn of its own. 1C polls
the proxy for commands and posts their results.

What makes each part correct:

- chat core: one answer per context version; a handle is spent once; a reply meets
  the context, the catalog and the marker its question was asked under; every
  accepted turn ends; an ended turn stays as it is;
- catalog: every revision is closed under its dependencies and loads as it was
  committed; concurrent changes lose nothing; an export can be imported;
- context slots: what a turn binds was active when it started; a slot ends for a
  cause; a key has one active generation;
- executor: a step runs once its inputs are there, a full answer rests on no failure,
  nothing unsettled enters the context, no list is silently cut;
- paging: a row that stays where it is is shown exactly once, if the query keeps to what
  the validator does not check;
- proxy: a command is leased at most once and ended exactly once, its caller
  hears that end, nobody sleeps beside work, nothing is left after shutdown.

The hazards of the code are listed with their lines and the properties that cover
them in `PROJECT.json`.

## Modules

| Module | Role |
| --- | --- |
| `Dialogue` | abstract: what a client relies on of sessions, turns and questions |
| `ChatSessions` | the dialogue core: store, handlers, turn tasks, locks, restarts |
| `MCChatSessions` | its instance for TLC |
| `ChatSessionsProofs` | type correctness and one answer per context version |
| `ChatHandlesProofs` | questions, page handles, versions and ended turns; the refinement of `Dialogue` |
| `CommandLifecycle` | abstract: what the proxy promises about each command |
| `McpProxy` | the proxy: `ProxyState` and the handlers that use it |
| `MCMcpProxy` | its instance for TLC |
| `McpProxyProofs` | type correctness, the refinement, the four safety invariants |
| `PlanContract` | pure: what the semantic validator guarantees of an accepted plan |
| `PlanExecutor` | one run of a plan, from its first step to its answer or question, and its resumption; extends `PlanContract` |
| `MCPlanExecutor` | the plans for TLC |
| `PlanExecutorProofs` | type correctness and the five safety properties of a run |
| `ListPaging` | a list shown page by page while 1C changes it |
| `MCListPaging` | the skills for TLC, right and wrong |
| `ListPagingProofs` | type correctness, pages that add up, quiet lists that are whole |
| `ContextSlots` | generations of context slots and the turns that read and write them |
| `MCContextSlots` | the plans and exports for TLC |
| `ContextSlotsProofs` | type correctness, generations, what turns use, choices, the ends of slots |
| `Catalog` | documents, revisions, imports, deletions and exports of two processes |
| `MCCatalog` | the skills and packages for TLC |
| `CatalogProofs` | type correctness, closed revisions, loading, no lost update |
| `CatalogExportProofs` | exports that can be imported, locks that hold |

The modules meet at what the code passes between the parts. `ChatSessions` takes the
end of a run as any of the kinds that `PlanExecutor` computes, and its catalog as the
number of revisions that `Catalog` describes; `ContextSlots` refines what a turn of
`ChatSessions` does with its context; `PlanExecutor` takes any sequence of replies,
which is what `McpProxy` promises its callers.

An operator whose name starts with `Bad` (or `Pinned`, `Unversioned`, `Lax`, `Blind`,
`Trusting`, `Any`) and that stands right before the definition of the rest of its name
is a plausible bug: that definition with a guard dropped, a reset forgotten or a status
misspelt. `PROJECT.json` says which property each of them breaks; nothing
else refers to them. (`Pinned` of `Catalog` is not one of them.)

## ChatSessions and Dialogue

State. What SQLite holds survives a restart: `session` (status and
`context_version`), `turn` (a row of `turns` and the handle it claimed), `question`
(`pending_clarifications`, keyed by the turn that asked), `page`
(`page_continuations`, likewise), `expired` (handles older than 30 minutes) and
`catalog` (`MAX(revision)`). What the process holds does not: `marker`, `claim` (a
claim handler between its two reads of the catalog), `task` (where each
`process_turn` is) and `lane` (the FIFO queue of the session's `asyncio.Lock`).

Steps. The web process is one event loop, so a step is the code between two awaits;
a stretch that commits more than one transaction is split there, because the process
may die between them and the CLI process may write between them. `Idle` says that no
such stretch is open; handlers and tasks wait for it, the environment does not.

| Action | Code |
| --- | --- |
| `CreateSession`, `DeleteSession` | `create_session`, `delete_session` with its cascade |
| `SubmitMessage` | `create_turn`; the `INSERT` supersedes the open question; then `append_event` and `create_task`, or a failed request with the turn committed (`Launch`) |
| `RemoveContext` | `remove_context`: an audit turn born completed |
| `PinForClarification`, `PinForContinuation` | `CatalogManager.pin` in `submit_*` |
| `AcceptClarification`, `AcceptContinuation`, `RefuseClaim` | the claim transactions and their refusals |
| `RefuseStaleTurn`, `Fresh` | lock, version check, marker check |
| `StartMessage`, `StartContinuation`, `StartClarification`, `CancelClarification`, `RepeatBindingQuestion` | `_run*` up to the first await |
| `PlannerAsks`, `PlannerPlans` | after the planner's await |
| `ExecutorAnswers`, `StorePage`, `AnswerWithPage`, `FailTurn` | `_complete_execution`, `_fail` |
| `Record`, `RecordFails` | events and traces after `complete_turn`, and their failure |
| `TaskDies`, `TaskOfDeletedTurn` | `_fail` itself fails; the turn was deleted |
| `ImportCatalog` | `commit_catalog`, by this process or the CLI |
| `ExpireHandles`, `Restart` | 30 minutes pass; the process dies and starts |

Abstractions. The planner's and the executor's answer is any of the kinds the code
tells apart. A reply that chooses and one that narrows both resume the plan
(`"resume"`). The marker digest covers the configured marker and the catalog
revision; the model keeps the two apart and compares both. A failure before the
first await of a run is the failure after it. Clients know a page handle from the
evidence of an answered turn only; question handles from the moment they are
stored.

Properties. `AnswersOnDistinctVersions` is the point of `context_version`: of the
turns accepted on one version, at most one answers. `HandleClaimedOnce`,
`OneOpenQuestion`, `ReplyOnNewestCatalog` and `NothingBetweenQuestionAndReply` are about
questions and pages; `VersionCountsEndedTurns` says every way to end a turn moves the
version exactly once; `EndedTurnIsFinal` and `EveryTurnEnds` are about the turns
themselves. A store error after a completion runs `_fail` on the ended turn: it may
move the version once more and it makes the turn failed. `VersionCountsEndedTurns` and
`EndedTurnIsFinal` allow exactly that, once per fault; `chat_rewritten_answer` shows
what it does to the answer.

`Dialogue` is the same seen by a client, who knows nothing of locks, tasks, catalogs,
markers, expiry and half-done requests: a session has a version; a turn reads the
version it is accepted on; whatever ends a turn moves the version; an answer needs that
no other turn answered on that version or a later one (`UpToDate`); a session's one
question is replied to once, by the next thing that happens to it; what is deleted is
gone, with its questions and its turns in progress. `Client` maps a session and a
question to whether they are open and a turn to what has become of it (`StateOf`):
`accepted` and `running` are one, for what tells them apart is the catalog it pinned.
`Dialogue` does not say that a turn ends, which is `EveryTurnEnds`, nor which
questions and pages may be refused, which is a matter of the catalog, the marker and
the time. `ImplementsDialogue` says every step of `ChatSessions` is one of a `Dialogue` or
changes nothing of it: the run `chat_faults` checks this and
`SessionsImplementDialogue` proves it.

## McpProxy and CommandLifecycle

`ProxyState` lives in one process on one event loop. Its condition's lock is held
across no await except `wait()`, so it is never contended (and `asyncio.Lock.acquire`
does not suspend then): a step is again the code between two awaits.

State: `command` (`BridgeCommand` with its future's outcome), and per channel
`active`, `index` (`request_index`) and `queue`; `opened` and `closed`; `poll` (each
1C long poll: idle, asleep in `wait()`, or notified and not yet run); `call` (each
`tools/call` request); `held` (commands that 1C has received).

| Action | Code |
| --- | --- |
| `Enqueue` | `enqueue` with its four refusals as guards |
| `CallAnswers`, `CallExpires`, `ClientLeaves`, `CallCancelled` | `_wait_for_outcome` with `expire` and `cancel` |
| `CancelRequest`, `CancelSession` | `cancel_request`, `cancel_session` |
| `PollArrives`, `PollResumes`, `PollTimesOut` | `lease`: `Looks` is one turn of its loop, `TakesQueued` is `_take_queued` |
| `ResultArrives` | `submit_result` and `fail_result`, and the 409 for what is not leased |
| `Shutdown`, `Restart` | `shutdown`; the process dies and starts empty |

A leased command may or may not reach 1C (`held' \in ...`): the response can be lost
with the connection of the poll and the proxy does not notice. 1C may post a result for anything
it holds, at any time, again, on another channel, and to a proxy that was restarted.
`Finish` is `_finish` for a set of commands, because `shutdown` and `cancel_session`
finish several in one stretch.

Left out because no decision reads them: tombstones, which are only written;
heartbeat times, which only readiness reports; `touch_poll`, which nothing calls.
The server that runs the application drains connections before the lifespan ends, so
a shutdown with active commands is what `ProxyState.shutdown` promises and its unit
test does rather than what a normal stop looks like; the model allows it at any moment.

`CommandLifecycle` is the automaton of `CommandStatus` and of
`docs/adr/0005-local-mcp-proxy.md` §3: queued, leased once, ended once, results only
for a leased command, and status and outcome that stay. (The diagram of the ADR draws
expiry and cancellation after the lease; the code also ends queued commands so, and
the module follows the code.) `McpProxy` implements it under the mapping of a command
to its status and its future's outcome; the run `proxy_safety` checks this and
`ProxyImplementsLifecycle` proves it.

## PlanContract and PlanExecutor

`PlanContract` has no variables. `PlanAccepted` is what `plan_issues` leaves of all
possible plans: a sequence of steps whose predecessors are earlier, whose final outputs
match what their requirement wants, and all of which serve a final output.
`UsesAgree`, `Mode` and `IsRankSelector` are what `_derive_resolver_use_proofs` and
`_derive_rank_selection_specs` derive from the plan. A step reached through a slot of
the interpretation (`slots`) is no predecessor, in the code as in the model.

`PlanExecutor` runs one accepted plan. State: `result` (`step_results`), `blocked` and
`stopAll` of the loop, `status` and `report` of the end; `resumed` and `answered` carry
a plan over the question it asked.

| Action | Code |
| --- | --- |
| `Block` | the skip of a step with a failed predecessor |
| `Query`, `RefuseArguments` | `_execute_skill`, `_execute_data`, `_empty_step`; `_apply_rank_source_state`, `_apply_resolver_state` |
| `Search` | the help branch |
| `NormalizePeriod`, `Count`, `Rank` | the operators; `Winners` is `_select_rank_candidates` |
| `Raise` | the errors no step catches, among them the operators nobody implements |
| `Conclude` | everything after the loop and the checks of `_complete_execution`: outcome, coverage, exports, question, page |
| `Choose`, `Narrow` | `_run_clarification` runs the saved plan again |

A reply of 1C is a failure of one of three kinds, or a number of rows, whether there
are more, how many rows prove an identity and whether an aggregate is zero: all the
executor decides on.

Properties. `RunsAfterInputs` is about the loop, which checks only that no predecessor
failed and runs required steps first. `OnlyFailuresBlock` is the promise that
independent branches survive a failure. `FullAnswerIsFull` compares what two separate
reductions (`_overall_outcome`, `_finalize_coverage_outcome`) call a success with the
results; it spares what a resumed run need not do any more, the steps that would have
found the chosen object, which may be left out after an empty stop. `OnlySettledExported` compares the exports with the question, which read the
same results by different functions; `NoListCutShort` says the page of the answer
continues the list that has more. `RunEnds` is liveness.

## ListPaging

A list of one skill, shown page by page, one request per turn, while rows appear, go
and move in 1C. State: the `skill` with its declared sort and its query, the `table`,
the stored `cursor`, how often each row was shown, and the rows that have been
`steady` since the first page.

`SkillAccepted` is the validator (`_data_operation_issues`,
`inspect_keyset_query_contract`): the initial skills are all those it accepts among
right and wrong queries, so a hole in its check of the sort, of ORDER BY or of the
cursor part would show as a gap or a repetition. The validator cuts the smallest
parenthesised part that holds the cursor's parameters out of WHERE and looks at nothing
around it (`_keyset_cursor_predicate_tokens`), and of a prefix skill it reads no query.
The model therefore has both: `where` says, for each row, whether the rest of WHERE
leaves the choice to the cursor part (`"part"`, as under AND), turns it round, or has
chosen already, as a true operand of OR or another member of a UNION does; prefix skills
come with every pair of a declared and an actual order. `QueryKept` is what the author
of a skill has to keep to: a cursor part joined by AND, a prefix in its declared order.
`Request` is `_page_request` with its probe row, the reply as the query in 1C defines
it, the drift checks of a prefix continuation, and `_continuation_values`; `Exhausted`
is the prefix whose total is shown; `Change` is 1C. A list holds the rows that its
query selects without a cursor (`Listed`).

`PagesAddUp` needs the accepted predicate, the probe row and the cursor of the last
*visible* row together. `QuietListIsWhole` says what also holds of prefix lists while
nothing changes. It admits one failure: a prefix list that has shown exactly as many
rows as may be asked for, the declared maximum or the limit of the request (see the
[differences](#where-code-and-documents-differ)). Both have the condition `QueryKept`.
`AcceptedListsRepeatNothing` is the claim without it, for keyset lists, as a document
makes it, and is false: `paging_lax_where` joins accepted cursor parts to the rest of
WHERE by OR or negates them, and the first such list shows a row again on page two.

## ContextSlots

State: `slot` (rows of `context_slots`, by handle), `version`, what each `turn` read
and holds, the open `question` of a session, the policy clock and the newest catalog
revision.

| Action | Code |
| --- | --- |
| `StartMessage`, `ChooseMeaning`, `ChooseContext`, `ChooseCandidate`, `Cancel` | `_run`, `_run_clarification`: `context_facts` (`Refreshed`) and the choice |
| `PlannerDecides`, `PlannerPlans` | the planner's answer and `_prepare_context_bindings` (`Refuses`, `Decides`, `Bound`) |
| `ExecutorEnds`, `TurnFails` | `complete_turn` with `_commit_context_mutations` (`Committed`), or without |
| `RemoveContext`, `ShowContext`, `Tick`, `ImportCatalog` | what does not take the session's lock |

`Commits` stages the exports of a turn one after another, as the loop of
`_commit_context_mutations` does: a later one sees the slots of an earlier one of the
same key. The planner may name any handle ever issued, also of another session, or one
that is none of the store, in a plan and in the choices of a question of its own
(`MeaningChoices`): those are stored unchecked and go back to the planner when one is
chosen, and only the plan made of it is checked. A choice that is a value and no handle
is left out, for it binds no context parameter and its answer goes on as a message does.
The clock and the import move between any two steps.

`GenerationsChain` is what the unique indexes would refuse. `UsedWasActive`: what the
executor binds was active when the turn started, although facts, handle states and
choices are read at three moments. `ClaimableChoicesStand`: the choices of a question
about a parameter (kind `"context"`) are slots of its session, and whatever takes one
away closes the question, except its time and the loss of its origin's evidence. Of a
meaning question nothing of the kind holds: it may offer a slot that is replaced,
removed or of another session, which `Refuses` then meets in the plan.
`SlotEndsForCause` and `AnswerMovesOn` are action properties.

## Catalog

State: `stored` (`skill_documents`), `revisions` (with their entries), the `snapshot`
of each process and the `request` each process is at. A request runs without an await,
so a process has one; what it read before its transaction may be overtaken by the other
process, hence one action per read: `StartImport` validates against a pinned catalog (`Headers`: its mode and If-Match),
`CheckDigest` asks for each known digest, `PrepareImport` pins again and applies mode
and If-Match, `Commit` is the transaction with its compare of the base revision,
`Activate` moves the snapshot. `StartDelete`, `Read` and `Restart` complete it.

`PackageAccepted` is `package_issues` (the lock and the documents it resolves to),
`Closed` is `_validate_dependency_closure`, `ExportPackage` is `export_package`. An
If-Match digest is the set of entries it is computed from, so equal digests are equal
contents. A client sends digests of documents that exist or of catalogs it has read.

`RevisionsClosed` and `LoadsAsCommitted` are about every revision, whoever wrote it.
`ExportsImport` composes two functions nobody calls in a row: what is exported is
accepted by an empty installation. `NothingLost` is the lost-update property;
`LockIsActive` says what a package's lock is worth if nothing overtook the import.

## Runs

| Run | Instance | Shows |
| --- | --- | --- |
| `chat_faults` | 1 session, 3 turns, 2 markers, 2 revisions, 1 restart, 1 fault | types, `AnswersOnDistinctVersions`, `HandleClaimedOnce`, `OneOpenQuestion`, `NothingBetweenQuestionAndReply`, `VersionCountsEndedTurns`, `ReplyOnNewestCatalog`, `EndedTurnIsFinal`, `ImplementsDialogue` |
| `chat_liveness` | 1 session, 3 turns, no outages, fair | `EveryTurnEnds` |
| `chat_orphan_turn`, `chat_rewritten_answer` | 2 turns and the one outage the question needs | a document's statement violated by the code |
| `proxy_safety` | 2 commands, 2 channels, 2 polls, 2 request ids, 1 restart | types, `NoMissedWakeup`, `PendingIsIndexed`, `NothingPendingAfterShutdown`, `QueuedWaitsInQueue`, `ImplementsLifecycle` |
| `proxy_liveness` | 2 commands, 1 channel, 1 poll, 1 restart, fair | `EveryCallEnds` |
| `executor` | 46 plans of two and three steps, pages of 2 rows, 2 answered questions, fair | types, `RunsAfterInputs`, `OnlyFailuresBlock`, `FullAnswerIsFull`, `OnlySettledExported`, `NoListCutShort`, `RunEnds` |
| `executor_asks_again` | one plan with two ambiguous resolvers | a document's statement violated by the code |
| `paging` | 3 rows, 2 key values, pages of 1 row, 2 changes; every sort, every order, cursor parts right or wrong in a comparison, joined to the rest of WHERE by AND | types, `PagesAddUp`, `QuietListIsWhole` |
| `paging_lax_where` | the accepted keyset skills of `paging`, their cursor part under OR or NOT | a document's statement violated by the code |
| `context` | 2 sessions, 3 turns, 2 keys, 3 slots, 1 clock step, 2 revisions, 1 fault | types, `GenerationsChain`, `UsedWasActive`, `ClaimableChoicesStand`, `SlotEndsForCause`, `AnswerMovesOn` |
| `catalog` | 2 processes, 8 documents of 4 skills, 9 imports, 4 revisions | types, `RevisionsClosed`, `LoadsAsCommitted`, `ExportsImport`, `NothingLost`, `LockIsActive` |

Bounds. Sessions share nothing but the catalog and the event loop, so one is enough
for the chat core; `context` has two because a handle of another session is an input.
Three turns are a question or page, its reply or continuation, and a competitor. One
import, one restart and one fault each
happen at every point of every behaviour of that length; a second of the same kind
meets a state the first already met, for nothing but the store survives. In the proxy
two commands on two channels show wakeups that go to the wrong poll and a live id
behind a stale one; `MaxPending` and `MaxChannels` are reached. The plans of `executor`
are all accepted ones of two steps over twelve shapes and ten longer ones that hold
each operator, two independent branches, two resolvers, a set and a slot; a page of two
rows tells none, one, several and more apart. In `paging` three rows on pages of one
have a first, a middle and a last page, and two changes can move a row over the cursor
and another back; the rest of WHERE filters nothing, or hides a row while it has one of
its keys, so that a change also brings a row into the list. `paging` has 256 752
distinct states, `context` 1 168 433. Three slots of two keys have a replaced generation, its successor and
a slot of the other key. Four catalog revisions are an empty one, a package, a change and
a change that depends on it, with the other process between any two of them.

`CHECK_DEADLOCK FALSE` stands where the system may stop: dialogues use up their turns,
plans and lists end, revisions reach their bound. The proxy's runs check deadlock, for a
poll may always arrive.

Symmetry is used in safety runs only.

## Fairness

`ChatSessions!Fairness`: a claim handler has no await between pin and transaction,
hence `WF` of `ResolveClaim`. A turn's task waits for callbacks only: planner and MCP
calls carry the deadline of the request, and the event loop runs ready callbacks in
the order they became ready. Other requests can interrupt a task again and again
(each makes `Idle` false for a moment) but never starve it, hence `SF` of `TaskStep`
per turn. No fairness is assumed of clients, imports, expiry, restarts or faults, and
`EveryTurnEnds` is checked without restarts and faults: with them it is false
(`chat_orphan_turn`).

`McpProxy!Fairness`: the loop of `_wait_for_outcome` wakes at least every 25 ms, looks
at the future and at its deadline; hence `WF` of `CallAnswers` and `CallExpires`. Nothing
is assumed of 1C, of polls or of clients.

`PlanExecutor!Spec`: a run is one coroutine and every call in it has a deadline, whose
passing is one of the replies; hence `WF` of `Execute`. Nothing is assumed of the user,
who may leave a question open.

## Proofs

Every safety property of the passing runs is a theorem, for every value of the
constants, from the one assumption of its component: `ChatAssumption`,
`ProxyAssumption`, `ExecutorAssumption`, `PagingAssumption`, `ContextAssumption` or
`CatalogAssumption`. They say that bounds are natural numbers and `None` is nobody's
name; plans are accepted, and their steps of the types the schema allows; skills have
a sort, and a page is shorter than the maximum; a digest stands for one document, and
an import is not empty and holds finitely many documents and locks.

`ChatSessionsProofs`

- `TypeCorrect`. `TypeOK` is not inductive: a task writes the row of its turn's
  session, so turns in use have to name one, and a claim in flight has to reserve its
  turn. `TypeInv` adds `Owned` and `ClaimReserves`.
- `DistinctVersions`: `AnswersOnDistinctVersions`. The argument is the code's: a turn
  computes only under the session's lock (`WorkersHoldLock`, by FIFO order of `lane`);
  while it computes, the versions of the answers of its session are below its own
  (`VersionInv`), because it was checked against the session's version under the
  lock and a completion moves that version past every answer. Removals and stale
  turns move the version too, which only helps. A restart drops every lock together
  with every computation.

`ChatHandlesProofs`, with three invariants on top of those.

- `HandleInv`: turns name a source exactly when they claimed one (`SourceNamed`); a turn
  asks and lists in its last step only (`NothingHangs`); the handle a turn claimed is
  consumed for as long as it exists (`HandleSpent`); a question is good for the version
  right after its turn's (`VersionsChain`). `HandlesClaimedOnce`, `QuestionsAreOne`,
  `RepliesFollowQuestions` and `RepliesOnNewestCatalog` rest on it.
- `CountInv`, for `VersionsCount`: what ends a turn moves the version by one, and only a
  store error moves it again. `EndedTurnsAreFinal` goes action by action: a row is written
  by the task that works on it, which has not ended, or by its failure.
- `SessionsImplementDialogue`: the initial states map, and every action maps to a step of
  `Dialogue` or a stutter. `ClientInv` adds that turns that are not deleted are of open
  sessions, so a claim accepts its turn in a session that exists, and that no task is of
  a removal. That an answer is up to date is `VersionInv` under the lock; that nothing came
  between question and reply is `VersionsChain`; that nothing hangs on a deleted turn is
  `NothingHangs`.

`McpProxyProofs`

- `ProxyTypeCorrect`, with `PollsHaveChannels` and `CallsHaveChannels` as strengthening:
  a poll that resumes and a call that expires look at their channel.
- `ProxyImplementsLifecycle`: the initial states map, and each action maps to a step of
  `CommandLifecycle` or a stutter. It needs `Account`: a command is in `active` of its
  own channel exactly while it is queued or leased, and then has no outcome.
- `QueuedExactlyOnce`: `QueueInv` (a live queued id occurs once; an unused id nowhere).
- `ProxyNoMissedWakeup`: whoever queues or closes notifies every sleeper, and who goes
  to sleep has found the queue without a live id, which by the former theorem means
  nothing is queued.
- `ProxyNothingAfterShutdown`, `ProxyPendingIsIndexed`.

`PlanExecutorProofs`

- `StepsRunAfterInputs`: `RunsAfterInputs`. The loop checks that no predecessor is in
  `FailedOrBlocked`. That each has run follows from two facts of accepted plans:
  predecessors are earlier (`EarlierInputs`), and the required steps are closed under
  predecessors (`ClosureHolds`), so among the candidates of either phase a predecessor
  would come first (`InputsRan`). What failed stays failed and what is blocked stays so.
- `ExecutorTypeCorrect`, `OnlyFailuresLeaveOut`, `FullAnswersAreFull`,
  `OnlySettledIsExported`, `NoListIsCutShort`: three more invariants. `RunInv`: every
  result has what its outcome claims (`Proper`), only resolvers are asked about and
  resumed, a running run has no report. `RootInv`: a blocked step needs, near or far, one
  that failed itself. `ReportSteps` says a step leaves no report, the one there was, or
  what the finished run amounts to; so a property of reports is one of finished runs,
  where the outcome is a function of the set of outcomes that counts (`Combined`), taken
  case by case where two reductions have to agree.

`ListPagingProofs`

- `PagingTypeCorrect`.
- `ListsAddUp`: `PagesAddUp`. The order of a sort of any number of facts in any
  directions is strict (`FirstDifference`: tuples that differ have a first fact in which
  they do), and total over rows, because an accepted sort ends with the row's identity.
  The accepted predicate holds of exactly the rows after the cursor, and a page is
  the first of them, so showing it moves the cursor over what it shows (`PageCut`).
  `PageInv` says of each steady row that it was shown once if the cursor is past it and
  never if not (`CursorCuts`). All of this is under `QueryKept`: what surrounds the cursor
  part is an assumption about the skill, not something the validator establishes.
- `QuietListsAreWhole`: `QuietListIsWhole`. While nothing changes all listed rows are steady.
  `QuietInv` adds that a list that goes on has a row left unless it has shown all it
  may (`MoreToCome`), and that a prefix list shows the first rows of its order
  (`RowsShown`), so the row a continuation compares is where it was.

`ContextSlotsProofs`, with one invariant, `IInv`, for all its theorems.

- `StoreInv`: rows are well formed, the generations of a key chain, handles are issued
  in order. Closing a slot keeps it, and so does one commit (`OneCommit`). A turn commits
  any number of exports, each over what the former left; the states between them are put
  in a row (`StagesExist`) and the first that breaks something is led to a
  contradiction (`CommitsKeep`).
- `OneWorks`, `AskedByNobody`: a session has one working turn and meanwhile no question.
  `FactsHold`, `QuestionInv`: what a working turn has read was active at its version, and
  as long as the version stands it and the choices of a question about a parameter
  (`Offered`) are lost to the clock or to lost evidence only; of the choices of a meaning
  question the invariant says nothing. `OriginsEnded`: the origin of a slot has ended, so its row only
  loses evidence.
- `ContextTypeCorrect`, `GenerationsAlwaysChain`, `UsedIsActive` and `ChoicesStand` follow
  at once. `SlotsEndForCause` and `AnswersMoveOn` are about one step from `IInv`: the
  parameter that a resumed plan asks about first is never the one just pinned.

`CatalogProofs`

- `CatalogTypeCorrect`, `RevisionsStayClosed`, `CommittedStaysLoaded` share the inductive
  `IInv`: `TypeInv`; `StoreInv` (one document per id and version, and every revision
  names stored documents, loads as committed and is closed); `RequestInv` (what a request
  is about to commit is closed and has one skill per id). A commit that passed the
  compare of the base and the digest check inserts only documents of new versions, so
  older revisions load as before. `ReachStep` connects
  `DependencyClosure`, in which the property states that nothing depends on itself, with
  `Acyclic`, which is what the code checks: the skills from which a given one is reached
  would be a set that no edge leaves.
- `CommitsLoseNothing`: `NothingLost`. `BaseInv` says what a ready request changes of
  the revision it was based on: nothing but its ids, and what its mode and If-Match
  allow. Revisions are only appended, so that remains true, and a commit requires that
  the base is still the newest.

`CatalogExportProofs`, with `KeptInv`: an import that was checked was accepted against
the revision it names, and a prepared one that nothing overtook leaves what its lock names.

- `ExportsAreImportable`: `ExportsImport`. What is exported is a closure, so it is
  shut (`ClosureShut`) and, as part of a revision, without cycles and second versions
  (`PartSound`); its lock names its own documents, so it resolves to them (`OwnLockHolds`).
- `LocksAreActive`: `LockIsActive`, from what the package resolved to when it was accepted
  (`ChosenShut`, `ChosenStays`).

Only model-checked: `EveryTurnEnds`, `RunEnds` and `EveryCallEnds`, for liveness under
fairness is out of the prover's reach; and the four runs that end in a violation. The
proofs take no induction theorem: where the code loops over a sequence of any length
they use least counterexamples among the natural numbers.

## Where code and documents differ

Each of the first four is a run that TLC ends with a counterexample.

1. `chat_orphan_turn`. `docs/architecture/persistence_and_observability.md:163-164`:
   crash recovery makes turns `interrupted`. No code does: a turn in progress when
   the process dies stays `accepted` or `running`.
2. `chat_rewritten_answer`. Line 60 of that document: the evidence of the source turn is
   immutable. An exception after `complete_turn`, in `append_event` or `put_artifact`,
   runs `_fail` on the completed turn and replaces its answer, plan and evidence. The
   slots that turn committed become invalid with the evidence, at the next read.
3. `executor_asks_again`. `docs/testing/slice3_acceptance_contract.md:528-530`: the answer
   to a resolver question resumes only the blocked descendants, without a second search.
   `_run_clarification` runs the whole saved plan with one step resolved, so with two
   ambiguous resolvers the questions alternate.
4. `paging_lax_where`. `docs/testing/slice2_acceptance_contract.md:372-375`: the cursor
   filter of an accepted query is equivalent to one guarded strict after-predicate. The code compares
   only the part that holds the cursor's parameters, not how WHERE uses it, so
   `A OR (NOT &Has OR id > &c)` is accepted and shows the rows of `A` on every page.

Met while modelling; the models follow the code, and no run is spent on them.

- `slice2_acceptance_contract.md:250`: a required empty step with the stop ends in
  `success_empty`. `evidence_issues` (`contracts/semantic.py:1741`) refuses an empty answer
  with any fact of a step that exports nothing, and a normalized period is one, so the
  turn fails.
- Lines 156-157 of the persistence document put the page handle into the transaction
  that completes the turn; `_complete_execution` commits it before, on its own
  (`StorePage`, then `AnswerWithPage`).
- Lines 51-53: a historical snapshot is not used for a continuation after a catalog
  change. `claim_continuation` compares with the catalog the handler pinned
  (`claim_clarification` reads `MAX(revision)` again), so an import between the two lets
  the turn run on the handle's older revision.
- Lines 59-63, and `slice2_acceptance_contract.md:331` and `:341`: a prefix continuation
  makes no MCP call. `execute_continuation` asks 1C for the prefix again and compares the
  last shown row. The code `RESULT_PREFIX_BOUND_EXCEEDED` (`:338`) is never raised, and
  where exactly the maximum is shown while 1C's envelope does not say whether there is
  more (`:337`), the page offers a continuation that ends in
  `CONTINUATION_PREFIX_EXHAUSTED`.
- A keyset continuation whose remaining rows were deleted meanwhile ends in the error
  `CONTINUATION_PREFIX_DRIFT`, though nothing drifted and no prefix is involved.
- `slice2_acceptance_contract.md:196-198`: a failure of an optional step does not change
  the result. A second list with more rows, also an optional one, makes the run raise.
- `slice3_acceptance_contract.md:335`: a handle is active before its value reaches MCP.
  The executor resolves it among the slots read when the turn started, so a slot that is
  removed after the planner answered still reaches 1C; `UsedWasActive` states what holds.
- Two context parameters that are both ambiguous are asked about in turn without end,
  because the plan kept with the question pins only the last choice.
- A package is validated against one pin of the catalog and applied to another
  (`docs/adr/0002-atomic-hot-reload-skill-packages.md:44` asks for an exact lock);
  `LockIsActive` therefore has the condition that nothing overtook it.
- Plans with the operators `aggregate`, `filter`, `join` and `calculate` are accepted and
  end in `OPERATOR_NOT_IMPLEMENTED`. Step bindings behind a slot are no dependencies of
  the graph. `CatalogManager.activate` never meets the newer snapshot it refuses. The
  branch of a claim that marks an expired handle consumed raises inside its transaction,
  which rolls the mark back.

## What is not modelled

- The MCP adapter: two attempts within a deadline, sequential. To the executor its end
  is one of the replies, to the proxy each attempt is a call.
- JSON limits, schemas, digests, the parser of the query language and the field checks
  of the validator; ranking of skills for the planner; rendering of answers: pure
  conversions whose results the modules take as given.
- Planner adapter and help index: HTTP and files. Their answers are chosen freely.
- Turn events and their stream, traces, maintenance clear: they record or remove what the
  modules above decide; preview and confirmation of the clear are one transaction each.
- Command line and bootstrap, the builders of the packaged skills, the browser page:
  wiring, data, and calls of the API in any order, which `ChatSessions` allows.
- Within modelled parts: query text, argument conversion, records of evidence and the
  reports of the contract harness.

## Plan

1. The adapter's two attempts composed with `McpProxy`, up to one outcome per step.
2. Maintenance clear and the event stream, if they pay.
