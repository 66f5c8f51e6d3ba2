----------------------------- MODULE GpuCatalog -----------------------------
(***************************************************************************)
(* The public GPU price list of tools/gpus.py: one copy and at most one    *)
(* request for it, shared by every caller without an API key.              *)
(*                                                                         *)
(* The code compares time.monotonic() with `_catalog[0]` and `_failed_at`; *)
(* the model keeps the differences, which stop growing where the code no   *)
(* longer tells them apart.  Between two awaits a coroutine runs alone, so *)
(* a call to _catalog_body up to its await is one action, and so are the   *)
(* end of the task and its done-callback _settled, which the event loop    *)
(* runs later: calls fall between the two.                                 *)
(***************************************************************************)
EXTENDS Integers, FiniteSets

CONSTANTS Callers,          \* tool calls without a key
          Tasks,            \* identities of asyncio tasks; reused once settled
          None,
          CATALOG_TTL, CATALOG_MAX_AGE, RETRY_DELAY,
          REQUEST_TIMEOUT   \* settings.request_timeout

ASSUME TimesAssumption ==
  /\ CATALOG_TTL \in Nat \ {0}
  /\ CATALOG_MAX_AGE \in Nat /\ CATALOG_TTL <= CATALOG_MAX_AGE
  /\ RETRY_DELAY \in Nat \ {0}
  /\ REQUEST_TIMEOUT \in Nat \ {0}
ASSUME NoneAssumption == None \notin Tasks /\ None \notin Nat

VARIABLES
  catalog,     \* age of the copy `_catalog`, None while there is none
  failed_age,  \* time since `_failed_at`
  refresh,     \* `_refresh`: the task, until its done-callback has run
  task,        \* what has become of each task
  task_age,    \* time since the task's request started
  waits,       \* the task each caller awaits, None when it awaits none
  waited,      \* how long each caller has waited
  outcome,     \* how each caller's last call ended
  served_age,  \* age of the copy it was given
  since_start, \* time since the last request was started
  loop_cancel  \* whether the event loop itself has cancelled a task (shutdown)

vars == <<catalog, failed_age, refresh, task, task_age, waits, waited, outcome,
          served_age, since_start, loop_cancel>>
callers == <<waits, waited, outcome, served_age>>
ghosts == <<since_start, loop_cancel>>

-----------------------------------------------------------------------------
(* Data *)

Running(t) == task[t] = "running"
Ended(t) == task[t] \in {"ok", "failed", "cancelled"}

\* Ages saturate where no comparison of the code tells them apart any more.
Older(age, cap) == IF age < cap THEN age + 1 ELSE age

\* Requests are told apart by their start up to this much time.
Gap == IF CATALOG_TTL < RETRY_DELAY THEN CATALOG_TTL ELSE RETRY_DELAY

TypeOK ==
  /\ catalog \in (0 .. CATALOG_MAX_AGE) \cup {None}
  /\ failed_age \in 0 .. RETRY_DELAY
  /\ refresh \in Tasks \cup {None}
  /\ task \in [Tasks -> {"unused", "running", "ok", "failed", "cancelled"}]
  /\ task_age \in [Tasks -> 0 .. REQUEST_TIMEOUT]
  /\ waits \in [Callers -> Tasks \cup {None}]
  /\ waited \in [Callers -> 0 .. REQUEST_TIMEOUT]
  /\ outcome \in [Callers -> {"none", "body", "unavailable", "cancelled", "left"}]
  /\ served_age \in [Callers -> 0 .. CATALOG_MAX_AGE]
  /\ since_start \in 0 .. Gap
  /\ loop_cancel \in BOOLEAN

\* `_failed_at = float("-inf")`, `_catalog = None`, `_refresh = None`.
Init ==
  /\ catalog = None
  /\ failed_age = RETRY_DELAY
  /\ refresh = None
  /\ task = [t \in Tasks |-> "unused"]
  /\ task_age = [t \in Tasks |-> 0]
  /\ waits = [c \in Callers |-> None]
  /\ waited = [c \in Callers |-> 0]
  /\ outcome = [c \in Callers |-> "none"]
  /\ served_age = [c \in Callers |-> 0]
  /\ since_start = Gap
  /\ loop_cancel = FALSE

-----------------------------------------------------------------------------
(* _catalog_body *)

Fresh == catalog # None /\ catalog < CATALOG_TTL

\* Mutant: a copy of any age answers while a refresh is out or has failed.
UsableAtAnyAge == catalog # None
Usable == catalog # None /\ catalog < CATALOG_MAX_AGE

\* Mutant: only a task that still runs keeps another from starting.
DueUnlessRunning == (\A t \in Tasks : ~Running(t)) /\ failed_age >= RETRY_DELAY
\* Mutant: a request that is out keeps no other from starting.
DueAfterDelay == failed_age >= RETRY_DELAY
Due == refresh = None /\ failed_age >= RETRY_DELAY

\* create_task, with _settled as its first done-callback.
StartRefresh ==
  \E t \in Tasks :
    /\ task[t] = "unused"
    /\ refresh' = t
    /\ task' = [task EXCEPT ![t] = "running"]
    /\ task_age' = [task_age EXCEPT ![t] = 0]
    /\ since_start' = 0

StartIfDue == IF Due THEN StartRefresh
              ELSE UNCHANGED <<refresh, task, task_age, since_start>>

Answer(c, o, age) ==
  /\ outcome' = [outcome EXCEPT ![c] = o]
  /\ served_age' = [served_age EXCEPT ![c] = age]
  /\ UNCHANGED <<waits, waited>>

Calling(c) == waits[c] = None

AnswerFresh(c) ==
  /\ Calling(c) /\ Fresh
  /\ Answer(c, "body", catalog)
  /\ UNCHANGED <<catalog, failed_age, refresh, task, task_age, ghosts>>

\* The old copy answers at once while a refresh is out, or after one failed.
AnswerStale(c) ==
  /\ Calling(c) /\ ~Fresh /\ Usable
  /\ StartIfDue
  /\ Answer(c, "body", catalog)
  /\ UNCHANGED <<catalog, failed_age, loop_cancel>>

\* No copy and no request out: within RETRY_DELAY of a failure.
Refuse(c) ==
  /\ Calling(c) /\ ~Fresh /\ ~Usable
  /\ refresh = None /\ ~Due
  /\ Answer(c, "unavailable", 0)
  /\ UNCHANGED <<catalog, failed_age, refresh, task, task_age, ghosts>>

\* `await asyncio.shield(_refresh)` on a request that is out.
Join(c) ==
  /\ Calling(c) /\ ~Fresh /\ ~Usable
  /\ Due \/ (refresh # None /\ Running(refresh))
  /\ StartIfDue
  /\ waits' = [waits EXCEPT ![c] = refresh']
  /\ waited' = [waited EXCEPT ![c] = 0]
  /\ UNCHANGED <<catalog, failed_age, outcome, served_age, loop_cancel>>

\* How awaiting a task ends for the caller: its body, an Exception turned into
\* "unavailable", or CancelledError, which is no Exception and passes through.
ResultOf(t) == CASE task[t] = "ok" -> "body"
                 [] task[t] = "failed" -> "unavailable"
                 [] task[t] = "cancelled" -> "cancelled"

\* The same await on a task that has ended while _settled is still to run.
JoinEnded(c) ==
  /\ Calling(c) /\ ~Fresh /\ ~Usable
  /\ ~Due /\ refresh # None /\ Ended(refresh)
  /\ Answer(c, ResultOf(refresh), 0)
  /\ UNCHANGED <<catalog, failed_age, refresh, task, task_age, ghosts>>

\* Mutant: the caller awaits `_refresh` without the shield.
LeaveUnshielded(c) ==
  /\ waits[c] # None
  /\ waits' = [waits EXCEPT ![c] = None]
  /\ waited' = [waited EXCEPT ![c] = 0]
  /\ outcome' = [outcome EXCEPT ![c] = "left"]
  /\ task' = [task EXCEPT ![waits[c]] = IF Running(waits[c]) THEN "cancelled" ELSE @]
  /\ UNCHANGED <<catalog, failed_age, refresh, task_age, served_age, ghosts>>

\* A caller is cancelled while it waits: the shield keeps that from the task.
Leave(c) ==
  /\ waits[c] # None
  /\ waits' = [waits EXCEPT ![c] = None]
  /\ waited' = [waited EXCEPT ![c] = 0]
  /\ outcome' = [outcome EXCEPT ![c] = "left"]
  /\ UNCHANGED <<catalog, failed_age, refresh, task, task_age, served_age, ghosts>>

-----------------------------------------------------------------------------
(* _fetch_catalog and _settled *)

FetchOk(t) ==
  /\ Running(t)
  /\ task' = [task EXCEPT ![t] = "ok"]
  /\ catalog' = 0
  /\ UNCHANGED <<failed_age, refresh, task_age, callers, ghosts>>

\* No answer in time, an error status, no JSON, or JSON that is not an object.
FetchFails(t) ==
  /\ Running(t)
  /\ task' = [task EXCEPT ![t] = "failed"]
  /\ UNCHANGED <<catalog, failed_age, refresh, task_age, callers, ghosts>>

\* The event loop cancels what is left when it shuts down.
LoopCancels(t) ==
  /\ Running(t)
  /\ task' = [task EXCEPT ![t] = "cancelled"]
  /\ loop_cancel' = TRUE
  /\ UNCHANGED <<catalog, failed_age, refresh, task_age, callers, since_start>>

\* asyncio runs the done-callbacks in the order they were added: _settled, then
\* those of the shields, each of which only wakes its own caller.
WakeWaiters(t) ==
  LET woken == {c \in Callers : waits[c] = t} IN
  /\ waits' = [c \in Callers |-> IF c \in woken THEN None ELSE waits[c]]
  /\ waited' = [c \in Callers |-> IF c \in woken THEN 0 ELSE waited[c]]
  /\ outcome' = [c \in Callers |-> IF c \in woken THEN ResultOf(t) ELSE outcome[c]]
  /\ served_age' = [c \in Callers |-> IF c \in woken THEN 0 ELSE served_age[c]]

\* Mutant: `_refresh` is cleared only where the copy is stored.
SettledIfStored(t) ==
  /\ Ended(t)
  /\ refresh' = IF refresh = t /\ task[t] = "ok" THEN None ELSE refresh
  /\ failed_age' = IF task[t] = "failed" THEN 0 ELSE failed_age
  /\ WakeWaiters(t)
  /\ task' = [task EXCEPT ![t] = IF refresh = t /\ @ # "ok" THEN @ ELSE "unused"]
  /\ UNCHANGED <<catalog, task_age, ghosts>>

\* Mutant: `_failed_at` is set to when the next request may start.
SettledInFuture(t) ==
  /\ Ended(t)
  /\ refresh' = IF refresh = t THEN None ELSE refresh
  /\ failed_age' = IF task[t] = "failed" THEN -RETRY_DELAY ELSE failed_age
  /\ WakeWaiters(t)
  /\ task' = [task EXCEPT ![t] = "unused"]
  /\ UNCHANGED <<catalog, task_age, ghosts>>

\* Mutant: the time of a failure is not kept.
SettledNoDelay(t) ==
  /\ Ended(t)
  /\ refresh' = IF refresh = t THEN None ELSE refresh
  /\ WakeWaiters(t)
  /\ task' = [task EXCEPT ![t] = "unused"]
  /\ UNCHANGED <<catalog, failed_age, task_age, ghosts>>

Settled(t) ==
  /\ Ended(t)
  /\ refresh' = IF refresh = t THEN None ELSE refresh
  /\ failed_age' = IF task[t] = "failed" THEN 0 ELSE failed_age
  /\ WakeWaiters(t)
  /\ task' = [task EXCEPT ![t] = "unused"]
  /\ UNCHANGED <<catalog, task_age, ghosts>>

-----------------------------------------------------------------------------
(* Time *)

\* Mutant: httpx's timeout per read is the only one.
NeverOverdue(t) == FALSE
\* asyncio.wait_for ends the request at REQUEST_TIMEOUT as a whole.
Overdue(t) == Running(t) /\ task_age[t] >= REQUEST_TIMEOUT

\* The unit is seconds, so a deadline that is due and a callback that is ready
\* run before time goes on.
Tick ==
  /\ \A t \in Tasks : ~Overdue(t) /\ ~Ended(t)
  /\ catalog' = IF catalog = None THEN None ELSE Older(catalog, CATALOG_MAX_AGE)
  /\ failed_age' = Older(failed_age, RETRY_DELAY)
  /\ task_age' = [t \in Tasks |-> IF Running(t) THEN task_age[t] + 1 ELSE task_age[t]]
  /\ waited' = [c \in Callers |-> IF waits[c] = None THEN 0 ELSE waited[c] + 1]
  /\ since_start' = Older(since_start, Gap)
  /\ UNCHANGED <<refresh, task, waits, outcome, served_age, loop_cancel>>

-----------------------------------------------------------------------------
Call(c) == AnswerFresh(c) \/ AnswerStale(c) \/ Refuse(c) \/ Join(c) \/ JoinEnded(c)

EndOf(t) == FetchOk(t) \/ FetchFails(t) \/ LoopCancels(t)

Next ==
  \/ \E c \in Callers : Call(c) \/ Leave(c)
  \/ \E t \in Tasks : EndOf(t) \/ Settled(t)
  \/ Tick

Spec == Init /\ [][Next]_vars

\* Time goes on, the event loop runs the callbacks that are ready, and the
\* deadline ends a request that is overdue.  Nothing is assumed of the API.
FairSpec ==
  /\ Spec
  /\ WF_vars(Tick)
  /\ \A t \in Tasks : WF_vars(Settled(t)) /\ WF_vars(Overdue(t) /\ FetchFails(t))

-----------------------------------------------------------------------------
(* Properties *)

\* "One request to the API at a time" (_catalog_body), also when calls come
\* between the end of a task and its done-callback.
OneRequestAtATime == Cardinality({t \in Tasks : Running(t)}) <= 1

\* "none for RETRY_DELAY after a failure": however many callers there are and
\* however the requests end, the API is asked at most once per RETRY_DELAY (or
\* CATALOG_TTL where that is shorter), unless the event loop is shutting down.
RequestsSpaced ==
  [][(\E t \in Tasks : task[t] = "unused" /\ task'[t] = "running")
       => since_start = Gap \/ loop_cancel]_vars

\* No caller is given a price list of CATALOG_MAX_AGE or more.
NoOldPrices == \A c \in Callers : outcome[c] = "body" => served_age[c] < CATALOG_MAX_AGE

\* Every waiting caller waits for the request that `_refresh` names and that will
\* wake it: no wake-up is lost between a task's end and the next task.
WaitersHaveRequest ==
  \A c \in Callers : waits[c] # None =>
    waits[c] = refresh /\ task[refresh] # "unused"

\* "a caller that goes away doesn't cancel the request the others wait for": only
\* the event loop can cancel what a caller waits for.
LeavingIsPrivate == (\E c \in Callers : outcome[c] = "cancelled") => loop_cancel

\* "so it gets one deadline as a whole": however late it joins, and however slowly
\* the API answers, no caller waits longer than REQUEST_TIMEOUT.
WaitBounded == \A c \in Callers : waited[c] <= REQUEST_TIMEOUT

\* `_refresh` never stays set: whatever ends the task, the next call after the
\* delay can start another ("so it also runs for a task that ends before its
\* first step", _settled).
RefreshEnds == refresh # None ~> refresh = None
=============================================================================
