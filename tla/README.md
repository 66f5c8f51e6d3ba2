# Meshive MCP server: models and proofs

Meshive MCP is a server of the Model Context Protocol. An AI agent calls its
tools; the tools call the Meshive API through the Meshive SDK. It runs for one user
over stdio, or over HTTP for many. It stores nothing, so nearly all that can
go wrong is in the order of things: a preview, a user's consent, the confirmed
call, the API's own state, and everyone else who changes that state meanwhile.

This directory holds TLA+ modules of that logic, the TLC configurations that check
them on small instances, and proofs, checked by TLAPS, of what matters most for
every value of the constants. `PROJECT.json` maps each definition to its source
lines, and names each run, theorem, hazard and finding.

    tlc -config MCAdmission.cfg MCAdmission      # any run below, likewise
    tlapm AdmissionProofs.tla                    # any proof module below

## 1. The system

| Component | Source | State | Operations |
|---|---|---|---|
| HTTP admission | `server.py` `AdmitRequests`, `RefuseStreams` | `active`, `active_large`; per request what was read of the body | admit, read, refuse, hand over, release |
| HTTP entry point | `__main__.py` | bytes of a request's head, per connection | start; refuse a long head |
| Server construction | `server.py` `create_server`, `ArgumentLimitedServer` | none | register tools, limit a call's arguments |
| Public GPU price list | `tools/gpus.py` | `_catalog`, `_refresh`, `_failed_at`, shared by all callers | answer, start the one request, fetch, settle, fail |
| Write operations | `tools/_common.py`, `client.py` | per call: operation id, whether the agent supplied it | the wrapper of every write, `call`, the SDK's one retry |
| Error translation | `errors.py` | none | what to tell of an API error, and what to do next |
| Operation status | `tools/tasks.py` `operation_status` | none here; records at the API | look up a record |
| Paged lists | `paging.py`, `tools/tasks.py`, `account.py`, `assets.py` | none here: the cursor carries the offset | first page, next page |
| Serving changes | `tools/write_serverless.py` | none here; the serving at the API | deploy, scale, pause, resume, delete |
| Spending | `tools/write_pods.py`, `write_storages.py`, `write_serverless.py` | none here; rates and caps at the API | whatever is bought with a price, and ends it |
| Naming | `workspace.py`, `tools/workspaces.py` | none here | turn an id or a label into what a call acts on |
| Pod writes | `tools/write_pods.py` | none here; placement and watched folders at the API | create, start, update, stop, restart, delete, set folders |
| Storage writes | `tools/write_storages.py` | none here | create, update, delete; connect and wait |
| Hosting | `tools/hosting.py` | none here; machines and maintenance windows at the API | schedule and change a window, list, remove, message |
| Read tools | the rest of `tools/` | none | one read each |
| Serialisation, keys, settings | `serialize.py`, `auth.py`, `settings.py` | none | format; read once |

How they interact. A request passes HTTP admission, the SDK of the protocol
dispatches the tool, the write wrapper gives it an operation id and one
API client, the tool resolves names, reads, decides whether to preview or to write,
and writes. All coroutines share one event loop, so code between two awaits is
atomic and everything across an await is not. Only the admission counters and the
price list are shared between requests in this process. Everything else that calls share
is at the API, where the console, the CLI and other agents change it too.

Which behaviours are hard:

- **Interleaving and cleanup** (admission, price list): counters checked and
  incremented around awaits; clients that leave in every state; a done-callback
  that runs after other coroutines have seen the task finished; a cancelled waiter
  that must not cancel the request the others wait for.
- **Lost answers and retries** (writes): a request times out after it
  took effect; the SDK repeats it; the agent repeats the tool call, maybe twice at
  once; the process dies between sending and answering.
- **Stale reads** (servings, pods, naming, spending, hosting): a tool reads in one
  request and writes in another; a user consents to a preview and the confirmed call
  comes minutes later. A maintenance window meanwhile starts and ends by itself.
- **Boundaries** (paging, spending): the last page, another limit
  with the same cursor, a cap times a number of replicas.

What makes each component correct is stated in section 4 with the run that checks it.
The `hazards` of `PROJECT.json` give the line where each can bite.

## 2. Modules

| Module | Models | Checked with | Proved in |
|---|---|---|---|
| `SlotPool` | abstract: a pool of slots | refined by `Admission` | `AdmissionProofs` |
| `Admission` | `AdmitRequests` around the body reader | `MCAdmission` | `AdmissionProofs` |
| `GpuCatalog` | `_catalog_body`, `_fetch_catalog`, `_settled` | `MCGpuCatalog` | `GpuCatalogProofs` |
| `OnceOnly` | abstract: what the write tools promise of an intent | refined by `Writes` | `WritesProofs` |
| `Writes` | the write wrapper, `call`, the SDK's retry, the API's records | `MCWrites` | `WritesProofs` |
| `Paging` | `clamp_limit`, cursors, `paginate`, and two lists read otherwise | `MCPaging` | `PagingProofs` |
| `Targets` | `resolve`, `resolve_target`, `resolve_pod` across a preview and its confirmed call | `MCTargets` | `TargetsProofs` |
| `Pods` | consents of `start_pod`, `update_pod`, `set_watched_folders` | `MCPods` | `PodsProofs` |
| `Spending` | prices, caps and what is billed; changes of a serving | `MCSpending` | `SpendingProofs` |
| `Hosting` | a hosted machine: windows, listing, removal, messages | `MCHosting` | `HostingProofs` |

The components do not call into one another while they hold state, so each module
stands alone. Two modules instantiate an abstract one: `Admission` has two
`SlotPool`s, and `Writes` is a `OnceOnly` of which the agent sees what it asked, was told and
holds. What would compose the rest, an API that answers late or never, is the environment of
every module.

### How state and actions correspond to the code

**Admission.** `pc[r]` is the await at which the coroutine of connection `r` is
suspended; `active` and `active_large` are the attributes of those names. The
client's part (`Receive`, `ClientStep`) sends, stalls, or leaves at any point;
`Serve` is the server: arrival with its header checks, the end of reading with
the verdict on the body, refusals that first read and drop, the handler, and the
`finally` blocks. A body is a shape (small, unsized, large, oversized) and a
verdict (fine, or why not) in place of bytes; the body reader, which belongs to the
protocol's SDK, and the ASGI server are external.

**GpuCatalog.** `catalog` and `failed_age` are the ages of `_catalog` and
`_failed_at`: the code compares differences of `time.monotonic()`, so the model
keeps the differences and lets them stop growing where no comparison distinguishes
them. `refresh` is `_refresh`. The end of a task and its done-callback are
two actions and calls fall between. `Tick` waits until ready callbacks have run and
expired deadlines have fired. The public table's rows and filters are left out.

**Writes.** What the user wants done is an intent. `pc`, `op`, `supplied` follow one
tool call through the wrapper, `tries` and `reply` the SDK. The API's operation
records and the network are external: a request may be carried out at once, late, or
never, and its answer may be lost. A timeout is resent once; a connection that is cut off is
given up at once, since the write may have landed. The process may die under any call. Any
answer over 1 MiB, of whatever kind, is replaced by one that says so and no more
(`_bounded_result`): its meaning is open. The
agent is assumed to follow what every tool description says: having an id for an intent, it
keeps it. An intent of `Unrecorded` is one of the five writes that carry no id
(`_UNRECORDED`): it needs none, leaves no record, and runs as often as it is sent, which is
therefore not counted. Arguments and resources are left out.

**Paging.** A cursor is the offset it encodes. `style` says how the list is
read: sliced in memory by `paginate`, fetched with one row more than the page
(tasks, account activity), or by page number (`assets`). Rows are added in front and
removed anywhere between two pages. Invalid cursors and limits are refused before
anything is read and are left out.

**Targets.** A call resolves its argument in one request and acts in another;
between them, and between preview and confirmed call, things are created, renamed
and deleted. The agent previews first and then passes the same arguments, as the
preview's next step says, or the id it was shown. The API's record of the operation
answers retries.

**Pods.** `StartOrEdit`, then a look at the pod, then the write. The agent sets
`allow_data_loss` for a particular move only after the user agreed to that one; the
API asks for the same consent, and takes a set of folders only for the revision
from which it was made. `"send"` is a write on its way, whoever still waits for it.
A placement that waits moves the pod later; the model treats that at its acceptance.

**Spending.** A call (`pc`, `on`, `request`, `shown`) asks the user about a price, is sent
again with confirm, and has its effect; `scale_serving` may also be sent unasked, after a
read found that it raises nothing (the SDK's `scale_raises_cost`). Each tool's question is an
action, and so is what the API makes of its confirmed call. Calls about one thing overlap in any
way: the tools keep nothing between calls, so neither does the model. `DeployServing` is the one
question answered without the API; a task's question may name an amount or say that it depends on
the machine (`None`). A thing has a `kind` and a `state`, is billed `rate` for computing and 1 for
each of its `gib`, and while it looks for a machine it has an `order`. One price stands for all
hardware and moves whenever it likes. The API checks the cap at the estimate, at the confirmed
call and at the placement; `start_pod` and `update_storage` take none.

`limit` is the most to pay per hour the user set or agreed to. For a serving that is the dearest
worst case of a cap and a number of replicas that were set together; `agreed` keeps the highest
of each of the two apart, which is another matter. `shown` is the price in the question for as
long as what it rests on stands: a move of the price clears the questions that rest on it, and
another change of the thing clears those of a start, a deletion and a scaling (`Overtaken`),
because they show its storage or settings. A scaling that was overtaken leaves the serving without
a known limit.

**Hosting.** One machine. A window has a phase, which steps change, and a status, which is
what the phase and the clock make of it, as the API reports it (`Status`). `Preview` reads,
checks what its tool checks (`WindowOffered`, `UnlistOffered`, `RemovalOffered`,
`MessageOffered`) and asks its tool's question (`WindowQuestion`, `ScheduleQuestion`,
`RemovalQuestion`, `MessageQuestion`); `Confirm` sends the call without looking again, except
that `set_machine_listing` reads each time. What the API makes of it (`Does`) is assumed, from
the refusals in `errors.py` and from what the docstrings and questions promise. The console does
the same things at any time, workspaces come and go, and `Tick` moves the clock, under which
windows start and end by themselves. `shown` is what the question said about times and
recipients; `steady` remembers whether anyone else has changed the machine since. Reasons,
texts, the notice of 48 hours and overlaps of windows are left out: the last two make the API
refuse, which `GiveUp` allows at any time.

## 3. Bounds and assumptions

Each is a named constant or assumption, and TLC evaluates the assumptions in every run.

| Module | Instance | Why it is enough |
|---|---|---|
| Admission | 3 connections, 2 slots, 1 large slot | both limits can be reached, with one more request to refuse; small and large compete |
| GpuCatalog | 2 callers, 2 tasks, TTL 3, max age 5, retry delay 2, timeout 2 | a caller that leaves while another waits; a task settled while the next runs; a copy that is stale but servable, and one too old; the timeout meets the delay |
| Writes | 2 calls, 2 recorded intents and 1 unrecorded, 2 good ids and a malformed one, 2 attempts | two calls for one intent at once, two for different ones, a lost answer followed by a second call; the theorems cover any number of calls |
| Paging | 6 rows, limits 1, 2, 4 (above the maximum 3) and none | three pages of two; a last page that is full; changing limits |
| Targets | 3 things, 2 labels, 2 requests | a label that moves to another thing, and an ambiguous one |
| Pods | 1 call, 2 folders, 3 revisions | the environment plays every concurrent call; the theorems cover any number |
| Spending | 2 calls, 1 thing, price, storage and replicas up to 2 | things interact only through the price, which moves freely; two calls about one thing overlap in every way, with a console besides; a change can raise one setting and lower the other; the theorems cover any number of each. `servings_raise` needs no storage, one replica and no console |
| Hosting | 1 call, 1 window, 1 workspace, times 0 to 3, extensions of 1 or 2 | the console plays every other call; the workspace comes and goes between the question and the call; a window can be overdue, expired, extended twice, and moved between the question and the confirmed call; the theorems cover any number |

`ATTEMPTS = 2` is `max_retries=1` of `client.py`. `VERSIONS`, `PRICE`, `REPLICAS`, `DISK` and
`TIME` bound counters, prices, sizes and times which have no bound in the code, and `Things` how
much is ever bought; `OTHERS` says whether the console changes servings; `HOURS` is
`_MAX_EXTEND_HOURS`. Paging by number is
checked with one page size in `paging` and with two in `paging_limits`, which is the
finding below. Symmetry is used only in runs without liveness properties.

Deadlock is checked, except in `writes*` and `targets*`: there the ids, or the requests, are
used up, and the model really stops. Every call has ended by then.

The assumptions on constants are `RequestsAssumption` (finitely many connections),
`LimitsAssumption`, `TimesAssumption` (the TTL does not exceed the maximal age),
`NoneAssumption`, `IdsAssumption`, `AttemptsAssumption`,
`NamesAssumption` (no label is an id), `VersionsAssumption`, `SpendingAssumption` and
`HostingAssumption`.

### Fairness

- Admission: weak fairness of `Serve(r)`. The event loop runs every coroutine
  that can go on, and a handler ends because every call to the API has a timeout.
  Nothing is assumed of clients.
- GpuCatalog: weak fairness of `Tick`, of each task's done-callback and of the
  deadline (`Overdue(t) /\ FetchFails(t)`). Nothing is assumed of the API.
- Writes: weak fairness of the tool's and the SDK client's own steps, which
  include its timeout. The API may be silent forever and the agent may stop.

The other modules state no liveness; their calls end as those of Writes do.

## 4. Runs

Passing runs:

| Run | What it shows |
|---|---|
| `admission` | Slots are counted exactly however requests end (`SlotsMatch`), at most `MAX_REQUESTS` handlers and `MAX_LARGE_BODIES` large bodies exist, those of clients long gone included (`WorkBounded`); only vetted bodies reach the SDK (`OnlyVettedHandled`); stalled large uploads never cost a small request its service (`SmallRefusedOnlyWhenFull`); slots come back unless a client neither sends nor leaves (`SlotsComeBack`); both counters implement `SlotPool` (`SlotsArePools`). |
| `price_list` | One request at a time (`OneRequestAtATime`), spaced after failures (`RequestsSpaced`); nobody waits for a task that cannot wake them (`WaitersHaveRequest`), nor for longer than the timeout (`WaitBounded`); a caller's leaving disturbs no other (`LeavingIsPrivate`); no price older than the limit (`NoOldPrices`); `_refresh` is always cleared (`RefreshEnds`). |
| `writes` | Through retries, losses and restarts an intent is carried out at most once (`AtMostOnce`), never under an id the agent has not been told or chosen (`KnownBeforeSent`); an answer that says it was done is true (`DoneIsTrue`); one call at most is told that it did it, the rest that it was done before, and nothing comes of an intent whose every call was told that nothing was sent: `Writes` implements `OnceOnly` (`KeepsPromise`); every call ends (`CallsEnd`). |
| `paging` | Reading to the end gives every row that stayed (`Complete`), none twice unless rows were added (`NoRepeats`), and gets there (`Advances`). |
| `pods` | No file is lost to a move the user did not agree to lose it for (`NothingLostUnasked`); an unconfirmed write watches no new folder (`NoFolderUnasked`); no write replaces folders that it was not made from (`NothingOverwritten`). |
| `spending` | However prices, calls and other changes overlap, nothing costs more than the most the user set or agreed to: a cap, or for a serving the dearest worst case set together, unless one change overtook another (`NeverAboveLimit`). What a call makes the user pay is what its question said, as long as what the question rests on stands: the price, and for a start, a deletion or a scaling the storage or settings it showed; what a deletion leaves behind is billed as shown (`PaidAsShown`). Neither setting of a serving passes what the user ever set or agreed to (`NeverAboveAgreed`). |
| `hosting` | As long as nobody else changes the machine, a confirmed call does what its question said, though the clock moves and windows start by themselves (`HappensAsShown`). Whoever changes it, an edit moves nothing that was not named, and an extension ends the window no earlier than shown (`NothingElseChanged`). |
| `targets` | A confirmed call that goes by the id changes only what its preview showed (`ChangesWhatWasShown`), and its retries always reach the API's record (`RetryFindsRecord`). |

Each module has one type invariant, `TypeOK`, checked and proved with the rest.

Runs that end in a counterexample, each against a line of the repository:

| Run | Finding |
|---|---|
| `writes_advice` | An unrecorded write (a login that is revealed, a storage that is connected) that fails without an answer is answered "check operation_status first; reuse the original operation_id", though nothing is recorded under it (`errors.py:61`); the wrapper's own advice says the contrary in the same answer. |
| `paging_limits` | `assets` turns an offset into a page number with the limit of the present call. With another limit than before, rows come twice and the last ones never, though `next_cursor` is null (`tools/assets.py:37`). |
| `servings_raise` | `scale_serving` without confirm reads, decides that nothing is raised, and sends a write with no condition. If another call lowers the serving in between, the write raises it (`tools/write_serverless.py:104`). Each setting only ever goes back to what was agreed before (`NeverAboveAgreed`). |
| `targets_pod` | `delete_pod` resolves a display name anew on the confirmed call, and deletes whichever pod has that name by then (`tools/write_pods.py:397`). Workspaces are protected by `resolve_target`. |

The finding of `servings_raise` goes further than a serving that is raised back. Say a serving is
deployed with cap 2 and one replica, an unconfirmed call for cap 2 has done its read, and the
console sets cap 1 and two replicas. The write then makes it cap 2 with two replicas: twice the
worst case of anything the user ever set, with each setting within `agreed`. `NeverAboveLimit`
does not exclude this. Once one change has overtaken another, the model knows no limit: nobody chose
the settings that result.

`AdviceCanBeFollowed` fails in a second way, which its first conjunct shows with a constant
`Malformed` that is not empty: a malformed `operation_id` is answered "use the id of the preview,
or generate one" and then "any retry MUST reuse this operation_id", which is refused again
(`tools/_common.py:151`, against the comment at line 21).

## 5. Proofs

Every theorem is about `Spec` for all values of the constants that satisfy
the assumptions above, and rests on an inductive invariant:

- **Admission** (`IInv`): types, each counter equals the number of its holders and does
  not exceed its limit, and what the body of a holder has been through. `WorkBounded`
  alone is not inductive: it needs to know that whoever is handled is counted. Cardinality
  lemmas (one joins, one leaves) give each action's effect on a counter. From the same
  invariant, `CountersArePools` proves that the steps of `Admission` map to steps or
  stutters of both pools, and `SmallRefusedOnlyIfFull` an action property.
- **GpuCatalog**: `TypeOK`, at most one unsettled task and `_refresh` names it, and a
  waiter has waited no longer than that task has run. The last gives `WaitBounded`;
  the second, `OneRequestAtATime` and `WaitersHaveRequest`. `RequestsSpaced` needs more
  (`SpacedInv`): while the last request is recent, it is out, or has failed, or the copy
  it brought or the time of its failure is younger than it. `CancelInv` traces every
  cancellation to the event loop.
- **Writes**: ids of different intents are apart, what was sent under an id is known
  to the agent, and an effect under an id is recorded there. Together: a second effect
  would need a second id for the same intent. On top of that (`AInv`), whoever is told that
  a write was done is told the truth, and one call at most is told that it did it. The
  refinement `WritesKeepPromise` needs one thing more (`RInv`): a request on its way, or
  accepted and not yet carried out, belongs to a call that has not been told that nothing was
  sent. Every step of the wrapper, the SDK and the API is then a step of `OnceOnly` or none.
- **Paging**: rows that were there from the start and precede the cursor have been
  given. This holds as long as a page begins where the cursor says (`InStep`): by offset
  always, whatever limits are passed; by page number if every limit makes the same page, since
  the cursor is then a multiple of the size (`Aligned`, `NextPageBegins`). `OneSizeIsEnough`
  says so of all three ways at once; without one size it is false, which is the finding. That
  every next cursor is further on is proved of all three ways, with any limits.
- **Targets**: what the preview showed, what the call resolved and what is
  recorded are one thing.
- **Pods**: a call carries consent for a move only with the user's agreement to
  it, and a set of folders made from the current revision was made from the current set.
- **Spending**: of each call (`Fine`), what it is about (`Aimed`), that its question, while it
  stands, still tells what the API would bill (`Promised`), and that what goes out unasked
  is within what was agreed (`Unraised`); of each thing (`Sound`), what it was ordered with
  (`Ordered`), that a serving's settings are within what was agreed and its worst case within
  its limit (`Covered`), and that what runs is (`Within`). Each action keeps the first for the
  calls it does not overtake, whatever they are about (`CallsStand`), which is where
  overlapping calls come in.
- **Hosting**: what a question showed is what its call would do now, as long as nobody else has
  changed anything (`AsShown`): true though the clock moves, because the clock moves no times. A
  window whose extension was asked for is in progress with an end no earlier than shown, or over
  (`Extending`).

### Liveness

The prover has no rule for ENABLED, in terms of which WF is defined. The three liveness
properties are therefore proved of `Spec` under fairness whose guards are spelled out: either
the guard is false again and again, or the step happens again and again.

| Theorem | Assumes | Argument |
|---|---|---|
| `ServedSlotsComeBack` | `Served(r)`: the server goes on with a request when it can (`CanGoOn`) | a request that can go on is `Undecided` or `Decided`; a step of the server leads from the first to the second or the end, from the second to the end; no other step leads back |
| `RefreshIsReset` | `TimePasses`, `DeadlineEnds`, `CallbacksRun` | a request is out, then past its deadline or ended, then settled; a new one begins only after `_refresh` was reset |
| `RunningCallsEnd` | `ToolRuns(c)`, `SdkRuns(c)`, and `ATTEMPTS = 2` | a call is in the tool, at its first attempt, at its second, answered; it never goes back |

What stays with TLC, which checks the same three properties under `FairSpec`: that
`FairSpec` gives these assumptions. For `Served`, `ToolRuns` and `SdkRuns` this is that the
guard is what ENABLED says (the state predicate `CanGoOn(r) <=> ENABLED Serve(r)`, and likewise
for the two of a call, can be given to TLC as an invariant of `admission` and `writes`).
`TimePasses` follows from the fairness of `Tick` only by induction on the time left to the
deadline, and an arbitrary `ATTEMPTS` would take induction on the attempts left; induction over
data is beyond the provers at hand. `ATTEMPTS = 2` is what the code sets.

Every property of the passing runs is thus stated by a theorem. Only model-checked are the
step from weak fairness to the assumptions above and the refutations behind the findings.
The models have no RECURSIVE operators.

## 6. Not modelled, and why

- Head limit, argument limit, instructions, serialisation, money formatting, keys,
  settings and the read tools: sequential code with no state across calls, which unit
  tests reach.
- The tables of `errors.py`: the model keeps the classes of answers that an agent tells
  apart, not the codes.
- Of hosting: `retry_machine_setup`, `mark_host_messages_read` and the reveals of logins, which
  are one write each, as in `Writes`, and ask about nothing that can change meanwhile; the reads.
  That the API edits and cancels only what has not started, and extends and ends only what is in
  progress, is an assumption of the model and no result: the tools do not check it on a confirmed
  call.
- `connect_storage`'s wait for an access pod; `restart_pod`, `register_model` and
  `delete_model`, which are one recorded write each, as in `Writes`, and cost nothing.
- `create_workspace` and `resolve_many`, which act on nothing that was shown before.
- Of spending: `pause_serving`, `stop_pod`, `stop_task` and the deletions of volumes and
  servings ask about no price, or about nothing; the model has them as single steps that
  may come at any time. Hardware, images and the fields of an edit that
  change neither the cap nor the storage are left out.
- Without a cap the confirmed call carries no price, so a price that has moved since the
  preview is billed. The tools document this; `PaidAsShown` speaks of questions that stand.

## 7. Plan

In this order, the most important behaviour first. Done: admission with its pool, the price
list, writes (the unrecorded ones and their advice included), paging, naming, pod consents,
spending with the changes of a serving, and hosting, each with its run and its invariant
proved; `OnceOnly` and its refinement; liveness under spelled-out fairness. Left:

1. **`connect_storage`** (`write_storages.py`): the wait for an access pod, its time
   limit, and an answer that says whether the pod still comes up.
2. **An abstract specification of a confirmed write**, as `OnceOnly` is of a write: nothing is
   changed but what was shown and agreed to. Targets, Pods, Spending and Hosting each say so of
   their own kind of consent, and one specification must not say less than they do.
3. **Refusals** (`errors.py`): which of the codes promise that nothing was changed, composed
   with Writes.
4. **The connection's life cycle** (`__main__.py`): the head limit in front of
   Admission.
