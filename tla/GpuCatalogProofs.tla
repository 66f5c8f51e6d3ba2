-------------------------- MODULE GpuCatalogProofs --------------------------
(***************************************************************************)
(* Proofs about GpuCatalog, for any callers, tasks and times: the types,   *)
(* one request at a time, no lost wake-up, no old prices, the deadline of  *)
(* every caller, the time between requests, who may cancel whom, and that  *)
(* `_refresh` is reset if time passes and the event loop runs.             *)
(***************************************************************************)
EXTENDS GpuCatalog, FiniteSetTheorems, TLAPS

\* The only task that is not settled is the one `_refresh` names, callers wait
\* for no other, none has waited longer than its request has been out, and no
\* request is out longer than its deadline.
OneTask ==
  /\ \A t \in Tasks : task[t] # "unused" => t = refresh
  /\ \A c \in Callers : waits[c] # None => waits[c] = refresh
  /\ refresh # None => task[refresh] # "unused"

WaitInv == \A c \in Callers : waits[c] # None => waited[c] <= task_age[waits[c]]

IInv == TypeOK /\ OneTask /\ WaitInv

LEMMA InitIInv == Init => IInv
<1> SUFFICES ASSUME Init PROVE IInv
  OBVIOUS
<1> USE TimesAssumption, NoneAssumption
<1>1. Gap \in Nat
  BY DEF Gap
<1>2. TypeOK
  <2>1. refresh \in Tasks \cup {None} /\ waits \in [Callers -> Tasks \cup {None}]
    BY DEF Init
  <2>2. /\ task \in [Tasks -> {"unused", "running", "ok", "failed", "cancelled"}]
        /\ outcome \in [Callers -> {"none", "body", "unavailable", "cancelled", "left"}]
    BY DEF Init
  <2>3. /\ task_age \in [Tasks -> 0 .. REQUEST_TIMEOUT]
        /\ waited \in [Callers -> 0 .. REQUEST_TIMEOUT]
        /\ served_age \in [Callers -> 0 .. CATALOG_MAX_AGE]
    <3>1. 0 \in 0 .. REQUEST_TIMEOUT /\ 0 \in 0 .. CATALOG_MAX_AGE
      OBVIOUS
    <3>2. QED
      BY <3>1 DEF Init
  <2>4. /\ catalog \in (0 .. CATALOG_MAX_AGE) \cup {None}
        /\ failed_age \in 0 .. RETRY_DELAY
        /\ since_start \in 0 .. Gap
    BY <1>1 DEF Init
  <2>5. loop_cancel \in BOOLEAN
    BY Zenon DEF Init
  <2>6. QED
    BY <2>1, <2>2, <2>3, <2>4, <2>5 DEF TypeOK
<1>3. OneTask /\ WaitInv
  BY DEF Init, OneTask, WaitInv
<1>4. QED
  BY <1>2, <1>3 DEF IInv

\* What _catalog_body does to `_refresh` and its task, in every branch.
LEMMA StartIfDueStep ==
  ASSUME IInv, StartIfDue
  PROVE  /\ refresh' \in Tasks \cup {None}
         /\ task' \in [Tasks -> {"unused", "running", "ok", "failed", "cancelled"}]
         /\ task_age' \in [Tasks -> 0 .. REQUEST_TIMEOUT]
         /\ since_start' \in 0 .. Gap
         /\ \A t \in Tasks : task'[t] # "unused" => t = refresh'
         /\ refresh' # None => task'[refresh'] # "unused"
         /\ Due => /\ refresh = None /\ refresh' # None
                   /\ \A t \in Tasks : t # refresh' => task_age'[t] = task_age[t]
         /\ ~Due => refresh' = refresh /\ task_age' = task_age
<1> USE TimesAssumption, NoneAssumption DEF IInv, TypeOK, OneTask
<1>1. Gap \in Nat
  BY DEF Gap
<1>2. CASE Due
  <2>1. PICK t \in Tasks : /\ task[t] = "unused"
                           /\ refresh' = t
                           /\ task' = [task EXCEPT ![t] = "running"]
                           /\ task_age' = [task_age EXCEPT ![t] = 0]
                           /\ since_start' = 0
    BY <1>2 DEF StartIfDue, StartRefresh
  <2>2. refresh = None
    BY <1>2 DEF Due
  <2>3. QED
    BY <1>1, <1>2, <2>1, <2>2
<1>3. CASE ~Due
  BY <1>3 DEF StartIfDue
<1>4. QED
  BY <1>2, <1>3

LEMMA StepIInv == IInv /\ [Next]_vars => IInv'
<1> SUFFICES ASSUME IInv, [Next]_vars PROVE IInv'
  OBVIOUS
<1> USE TimesAssumption, NoneAssumption
<1>1. CASE UNCHANGED vars
  BY <1>1 DEF vars, IInv, TypeOK, OneTask, WaitInv
<1>2. ASSUME NEW c \in Callers, AnswerFresh(c) PROVE IInv'
  BY <1>2 DEF AnswerFresh, Answer, Fresh, Calling, ghosts, IInv, TypeOK, OneTask,
              WaitInv
<1>3. ASSUME NEW c \in Callers, AnswerStale(c) PROVE IInv'
  <2>1. /\ StartIfDue /\ catalog \in 0 .. CATALOG_MAX_AGE
        /\ outcome' = [outcome EXCEPT ![c] = "body"]
        /\ served_age' = [served_age EXCEPT ![c] = catalog]
        /\ UNCHANGED <<waits, waited, catalog, failed_age, loop_cancel>>
    BY <1>3 DEF AnswerStale, Answer, Usable, IInv, TypeOK
  <2>2. TypeOK'
    BY <2>1, StartIfDueStep DEF IInv, TypeOK
  <2>3. OneTask'
    BY <2>1, StartIfDueStep DEF IInv, TypeOK, OneTask
  <2>4. WaitInv'
    <3> SUFFICES ASSUME NEW d \in Callers, waits[d] # None
                 PROVE  waited[d] <= task_age'[waits[d]]
      BY <2>1 DEF WaitInv
    <3>1. waits[d] = refresh /\ refresh \in Tasks /\ ~Due
      BY DEF IInv, TypeOK, OneTask, Due
    <3>2. QED
      BY <2>1, <3>1, StartIfDueStep DEF IInv, WaitInv
  <2>5. QED
    BY <2>2, <2>3, <2>4 DEF IInv
<1>4. ASSUME NEW c \in Callers, Refuse(c) \/ JoinEnded(c) PROVE IInv'
  <2>1. /\ \E o \in {"body", "unavailable", "cancelled"} : Answer(c, o, 0)
        /\ UNCHANGED <<catalog, failed_age, refresh, task, task_age, ghosts>>
    BY <1>4 DEF Refuse, JoinEnded, ResultOf, Ended
  <2>2. QED
    BY <2>1 DEF Answer, ghosts, IInv, TypeOK, OneTask, WaitInv
<1>5. ASSUME NEW c \in Callers, Join(c) PROVE IInv'
  <2>1. /\ StartIfDue
        /\ waits' = [waits EXCEPT ![c] = refresh']
        /\ waited' = [waited EXCEPT ![c] = 0]
        /\ UNCHANGED <<catalog, failed_age, outcome, served_age, loop_cancel>>
        /\ Due \/ (refresh # None /\ Running(refresh))
    BY <1>5 DEF Join
  <2>2. refresh' # None /\ refresh' \in Tasks
    BY <2>1, StartIfDueStep
  <2>3. TypeOK'
    BY <2>1, <2>2, StartIfDueStep DEF IInv, TypeOK
  <2>4. \A d \in Callers : waits[d] # None => ~Due
    BY DEF IInv, OneTask, Due
  <2>5. OneTask'
    BY <2>1, <2>4, StartIfDueStep DEF IInv, TypeOK, OneTask
  <2>6. WaitInv'
    <3> SUFFICES ASSUME NEW d \in Callers, waits'[d] # None
                 PROVE  waited'[d] <= task_age'[waits'[d]]
      BY DEF WaitInv
    <3>1. CASE d = c
      BY <2>1, <2>2, <2>3, <3>1 DEF IInv, TypeOK
    <3>2. CASE d # c
      BY <2>1, <2>4, <3>2, StartIfDueStep DEF IInv, TypeOK, WaitInv
    <3>3. QED
      BY <3>1, <3>2
  <2>7. QED
    BY <2>3, <2>5, <2>6 DEF IInv
<1>6. ASSUME NEW c \in Callers, Leave(c) PROVE IInv'
  BY <1>6 DEF Leave, ghosts, IInv, TypeOK, OneTask, WaitInv
<1>7. ASSUME NEW t \in Tasks, EndOf(t) PROVE IInv'
  <2>1. /\ Running(t)
        /\ \E e \in {"ok", "failed", "cancelled"} : task' = [task EXCEPT ![t] = e]
        /\ catalog' \in {0, catalog} /\ loop_cancel' \in {TRUE, loop_cancel}
        /\ UNCHANGED <<failed_age, refresh, task_age, callers, since_start>>
    BY <1>7 DEF EndOf, FetchOk, FetchFails, LoopCancels, ghosts
  <2>2. TypeOK'
    <3>1. task' \in [Tasks -> {"unused", "running", "ok", "failed", "cancelled"}]
      BY <2>1 DEF IInv, TypeOK
    <3>2. catalog' \in (0 .. CATALOG_MAX_AGE) \cup {None}
      BY <2>1 DEF IInv, TypeOK
    <3>3. loop_cancel' \in BOOLEAN
      BY <2>1, Zenon DEF IInv, TypeOK
    <3>4. QED
      BY <2>1, <3>1, <3>2, <3>3 DEF callers, IInv, TypeOK
  <2>3. \A u \in Tasks : task'[u] # "unused" <=> task[u] # "unused"
    BY <2>1 DEF Running, IInv, TypeOK
  <2>4. OneTask'
    BY <2>1, <2>3 DEF callers, IInv, TypeOK, OneTask
  <2>5. WaitInv'
    BY <2>1 DEF callers, IInv, WaitInv
  <2>6. QED
    BY <2>2, <2>4, <2>5 DEF IInv
<1>8. ASSUME NEW t \in Tasks, Settled(t) PROVE IInv'
  <2>1. /\ refresh = t /\ refresh' = None
        /\ task' = [task EXCEPT ![t] = "unused"]
        /\ failed_age' \in 0 .. RETRY_DELAY
        /\ UNCHANGED <<catalog, task_age, ghosts>>
    BY <1>8 DEF Settled, Ended, IInv, TypeOK, OneTask
  <2>2. ResultOf(t) \in {"body", "unavailable", "cancelled"}
    BY <1>8 DEF Settled, Ended, ResultOf
  <2>3. /\ waits' = [c \in Callers |-> IF waits[c] = t THEN None ELSE waits[c]]
        /\ waited' = [c \in Callers |-> IF waits[c] = t THEN 0 ELSE waited[c]]
        /\ outcome' = [c \in Callers |-> IF waits[c] = t THEN ResultOf(t) ELSE outcome[c]]
        /\ served_age' = [c \in Callers |-> IF waits[c] = t THEN 0 ELSE served_age[c]]
    BY <1>8 DEF Settled, WakeWaiters
  <2>4. TypeOK'
    BY <2>1, <2>2, <2>3 DEF ghosts, IInv, TypeOK
  <2>5. \A c \in Callers : waits'[c] = None
    BY <2>1, <2>3 DEF IInv, OneTask, TypeOK
  <2>6. OneTask' /\ WaitInv'
    BY <2>1, <2>5 DEF IInv, OneTask, WaitInv, TypeOK
  <2>7. QED
    BY <2>4, <2>6 DEF IInv
<1>9. CASE Tick
  <2>1. ASSUME NEW age \in Nat, NEW cap \in Nat, age <= cap
        PROVE  Older(age, cap) \in 0 .. cap
    BY <2>1 DEF Older
  <2>2. /\ catalog' \in (0 .. CATALOG_MAX_AGE) \cup {None}
        /\ failed_age' \in 0 .. RETRY_DELAY
        /\ since_start' \in 0 .. Gap
    BY <1>9, <2>1 DEF Tick, IInv, TypeOK, Gap
  <2>3. task_age' \in [Tasks -> 0 .. REQUEST_TIMEOUT]
    <3>1. ASSUME NEW t \in Tasks, Running(t)
          PROVE  task_age[t] + 1 \in 0 .. REQUEST_TIMEOUT
      <4>1. task_age[t] \in 0 .. REQUEST_TIMEOUT /\ ~(task_age[t] >= REQUEST_TIMEOUT)
        BY <1>9, <3>1 DEF Tick, Overdue, IInv, TypeOK
      <4>2. QED
        BY <4>1
    <3>2. task_age' = [t \in Tasks |-> IF Running(t) THEN task_age[t] + 1 ELSE task_age[t]]
      BY <1>9 DEF Tick
    <3>3. QED
      BY <3>1, <3>2 DEF IInv, TypeOK
  <2>4. \A c \in Callers :
          waits[c] # None => waited'[c] = waited[c] + 1
                             /\ task_age'[waits[c]] = task_age[waits[c]] + 1
    <3> SUFFICES ASSUME NEW c \in Callers, waits[c] # None
                 PROVE  waited'[c] = waited[c] + 1
                        /\ task_age'[waits[c]] = task_age[waits[c]] + 1
      OBVIOUS
    <3>1. waits[c] \in Tasks /\ Running(waits[c])
      BY <1>9 DEF Tick, Ended, Running, IInv, TypeOK, OneTask
    <3>2. QED
      BY <1>9, <3>1 DEF Tick
  <2>5. WaitInv'
    <3> SUFFICES ASSUME NEW c \in Callers, waits[c] # None
                 PROVE  waited'[c] <= task_age'[waits[c]]
      BY <1>9 DEF Tick, WaitInv
    <3>1. waited[c] \in Nat /\ waits[c] \in Tasks /\ task_age[waits[c]] \in Nat
      BY DEF IInv, TypeOK
    <3>2. waited[c] <= task_age[waits[c]]
      BY DEF IInv, WaitInv
    <3>3. QED
      BY <2>4, <3>1, <3>2
  <2>6. waited' \in [Callers -> 0 .. REQUEST_TIMEOUT]
    <3>1. \A c \in Callers : waited'[c] \in 0 .. REQUEST_TIMEOUT
      BY <1>9, <2>3, <2>4, <2>5 DEF Tick, IInv, TypeOK, WaitInv
    <3>2. QED
      BY <1>9, <3>1 DEF Tick
  <2>7. TypeOK' /\ OneTask'
    BY <1>9, <2>2, <2>3, <2>6 DEF Tick, IInv, TypeOK, OneTask, Gap
  <2>8. QED
    BY <2>5, <2>7 DEF IInv
<1>10. QED
  BY <1>1, <1>2, <1>3, <1>4, <1>5, <1>6, <1>7, <1>8, <1>9 DEF Next, Call

THEOREM Invariance == Spec => []IInv
  BY InitIInv, StepIInv, PTL DEF Spec

\* Every variable keeps its type: ages stay within what the code compares.
THEOREM TypeCorrect == Spec => []TypeOK
<1>1. IInv => TypeOK
  BY DEF IInv
<1>2. QED
  BY <1>1, Invariance, PTL

\* However many callers there are, at most one request is out.
THEOREM SingleFlight == Spec => []OneRequestAtATime
<1>1. ASSUME IInv PROVE OneRequestAtATime
  <2> DEFINE R == {t \in Tasks : Running(t)}
  <2>1. R = {} \/ R = {refresh}
    BY <1>1 DEF IInv, OneTask, Running
  <2>2. Cardinality(R) = 0 \/ Cardinality(R) = 1
    BY <2>1, FS_EmptySet, FS_Singleton
  <2>3. QED
    BY <2>2 DEF OneRequestAtATime
<1>2. QED
  BY <1>1, Invariance, PTL

\* Every caller that waits is waiting for the request that will wake it.
THEOREM NoLostWakeup == Spec => []WaitersHaveRequest
<1>1. IInv => WaitersHaveRequest
  BY NoneAssumption DEF IInv, TypeOK, OneTask, WaitersHaveRequest
<1>2. QED
  BY <1>1, Invariance, PTL

\* What a caller was given last was less than CATALOG_MAX_AGE old when it got it:
\* the old copy answers only through Usable, and a caller that waited gets the
\* copy its request has just stored.
THEOREM OnlyRecentPrices == Spec => []NoOldPrices
<1> USE TimesAssumption
<1>1. Init => NoOldPrices
  BY DEF Init, NoOldPrices
<1>2. ASSUME TypeOK, NoOldPrices, [Next]_vars PROVE NoOldPrices'
  <2>1. ASSUME NEW c \in Callers, NEW o, NEW age \in Int,
               Answer(c, o, age), age < CATALOG_MAX_AGE
        PROVE  NoOldPrices'
    BY <1>2, <2>1 DEF Answer, TypeOK, NoOldPrices
  <2>2. ASSUME NEW c \in Callers, Call(c) PROVE NoOldPrices'
    <3>1. CASE AnswerFresh(c) \/ AnswerStale(c)
      <4>1. Answer(c, "body", catalog) /\ catalog \in Int /\ catalog < CATALOG_MAX_AGE
        BY <1>2, <3>1 DEF AnswerFresh, AnswerStale, Fresh, Usable, TypeOK
      <4>2. QED
        BY <2>1, <4>1
    <3>2. CASE Refuse(c) \/ JoinEnded(c)
      <4>1. \E o : Answer(c, o, 0)
        BY <3>2 DEF Refuse, JoinEnded
      <4>2. QED
        BY <2>1, <4>1
    <3>3. CASE Join(c)
      BY <1>2, <3>3 DEF Join, NoOldPrices
    <3>4. QED
      BY <2>2, <3>1, <3>2, <3>3 DEF Call
  <2>3. ASSUME NEW c \in Callers, Leave(c) PROVE NoOldPrices'
    BY <1>2, <2>3 DEF Leave, TypeOK, NoOldPrices
  <2>4. ASSUME NEW t \in Tasks, Settled(t) PROVE NoOldPrices'
    <3>1. /\ outcome' = [c \in Callers |-> IF waits[c] = t THEN ResultOf(t) ELSE outcome[c]]
          /\ served_age' = [c \in Callers |-> IF waits[c] = t THEN 0 ELSE served_age[c]]
      BY <2>4 DEF Settled, WakeWaiters
    <3>2. QED
      BY <1>2, <3>1 DEF NoOldPrices
  <2>5. CASE UNCHANGED <<outcome, served_age>>
    BY <1>2, <2>5 DEF NoOldPrices
  <2>6. QED
    BY <1>2, <2>2, <2>3, <2>4, <2>5
       DEF Next, vars, callers, EndOf, FetchOk, FetchFails, LoopCancels, Tick
<1>3. QED
  BY <1>1, <1>2, TypeCorrect, PTL DEF Spec

\* No caller waits longer than one deadline.
THEOREM OneDeadline == Spec => []WaitBounded
<1>1. IInv => WaitBounded
  BY TimesAssumption DEF IInv, TypeOK, WaitBounded
<1>2. QED
  BY <1>1, Invariance, PTL

-----------------------------------------------------------------------------
(* Cancellation, and the time between two requests *)

\* A task ends cancelled, and a caller is told so, only if the event loop did it.
CancelInv ==
  (\E t \in Tasks : task[t] = "cancelled") \/ (\E c \in Callers : outcome[c] = "cancelled")
    => loop_cancel

\* While the last request started less than Gap ago it is out, or has failed, or the
\* copy it brought, or the time of its failure, is younger than that start.
SpacedInv ==
  \/ loop_cancel
  \/ since_start = Gap
  \/ refresh # None /\ task[refresh] \in {"running", "failed"}
  \/ catalog # None /\ catalog <= since_start
  \/ failed_age <= since_start

SInv == IInv /\ CancelInv /\ SpacedInv

\* Cancelled tasks and callers come from the event loop alone.
LEMMA CancelStep == IInv /\ CancelInv /\ [Next]_vars => CancelInv'
<1> SUFFICES ASSUME IInv, CancelInv, [Next]_vars PROVE CancelInv'
  OBVIOUS
<1> USE DEF IInv
<1>1. ASSUME NEW c \in Callers, Call(c) PROVE CancelInv'
  <2>1. /\ loop_cancel' = loop_cancel
        /\ \A t \in Tasks : task'[t] = "cancelled" => task[t] = "cancelled"
    <3>1. ASSUME StartIfDue
          PROVE  \A t \in Tasks : task'[t] = "cancelled" => task[t] = "cancelled"
      BY <3>1 DEF StartIfDue, StartRefresh, TypeOK
    <3>2. QED
      BY <1>1, <3>1 DEF Call, AnswerFresh, AnswerStale, Refuse, Join, JoinEnded, ghosts
  <2>2. \A d \in Callers : outcome'[d] = "cancelled" =>
           outcome[d] = "cancelled" \/ \E t \in Tasks : task[t] = "cancelled"
    <3>1. CASE JoinEnded(c)
      <4>1. refresh \in Tasks /\ (ResultOf(refresh) = "cancelled" => task[refresh] = "cancelled")
        BY <3>1 DEF JoinEnded, Ended, ResultOf, TypeOK
      <4>2. outcome' = [outcome EXCEPT ![c] = ResultOf(refresh)]
        BY <3>1 DEF JoinEnded, Answer
      <4>3. QED
        BY <4>1, <4>2 DEF TypeOK
    <3>2. CASE ~JoinEnded(c)
      BY <1>1, <3>2 DEF Call, AnswerFresh, AnswerStale, Refuse, Join, Answer, TypeOK
    <3>3. QED
      BY <3>1, <3>2
  <2>3. QED
    BY <2>1, <2>2 DEF CancelInv
<1>2. ASSUME NEW c \in Callers, Leave(c) PROVE CancelInv'
  BY <1>2 DEF Leave, ghosts, CancelInv, TypeOK
<1>3. ASSUME NEW t \in Tasks, FetchOk(t) \/ FetchFails(t) PROVE CancelInv'
  BY <1>3 DEF FetchOk, FetchFails, callers, ghosts, CancelInv, TypeOK
<1>4. ASSUME NEW t \in Tasks, LoopCancels(t) PROVE CancelInv'
  BY <1>4 DEF LoopCancels, CancelInv
<1>5. ASSUME NEW t \in Tasks, Settled(t) PROVE CancelInv'
  <2>1. /\ Ended(t) /\ loop_cancel' = loop_cancel
        /\ task' = [task EXCEPT ![t] = "unused"]
        /\ outcome' = [c \in Callers |-> IF waits[c] = t THEN ResultOf(t) ELSE outcome[c]]
    BY <1>5 DEF Settled, WakeWaiters, ghosts
  <2>2. ResultOf(t) = "cancelled" => task[t] = "cancelled"
    BY <2>1 DEF Ended, ResultOf
  <2>3. QED
    BY <2>1, <2>2 DEF CancelInv, TypeOK
<1>6. CASE Tick \/ UNCHANGED vars
  BY <1>6 DEF Tick, vars, CancelInv
<1>7. QED
  BY <1>1, <1>2, <1>3, <1>4, <1>5, <1>6 DEF Next, EndOf

\* A call starts a request only where there is no fresh copy and no recent failure.
LEMMA StartIsLate ==
  ASSUME IInv, SpacedInv, Due, ~Fresh
  PROVE  since_start = Gap \/ loop_cancel
<1> USE TimesAssumption
<1>1. refresh = None /\ failed_age >= RETRY_DELAY
  BY DEF Due
<1>2. Gap \in Nat /\ Gap <= CATALOG_TTL /\ Gap <= RETRY_DELAY
  BY DEF Gap
<1>3. since_start \in 0 .. Gap /\ (catalog # None => catalog \in Nat) /\ failed_age \in Nat
  BY DEF IInv, TypeOK
<1>4. catalog # None => catalog >= CATALOG_TTL
  BY <1>3 DEF Fresh
<1>5. QED
  BY <1>1, <1>2, <1>3, <1>4 DEF SpacedInv

LEMMA SpacedStep == SInv /\ [Next]_vars => SpacedInv'
<1> SUFFICES ASSUME SInv, [Next]_vars PROVE SpacedInv'
  OBVIOUS
<1> USE TimesAssumption, NoneAssumption DEF SInv
<1>1. Gap \in Nat /\ since_start \in 0 .. Gap
  BY DEF Gap, IInv, TypeOK
<1>2. ASSUME NEW c \in Callers, AnswerStale(c) \/ Join(c) PROVE SpacedInv'
  <2>1. StartIfDue /\ UNCHANGED <<catalog, failed_age, loop_cancel>>
    BY <1>2 DEF AnswerStale, Join
  <2>2. CASE Due
    <3>1. PICK t \in Tasks : refresh' = t /\ task' = [task EXCEPT ![t] = "running"]
      BY <2>1, <2>2 DEF StartIfDue, StartRefresh
    <3>2. QED
      BY <3>1 DEF IInv, TypeOK, SpacedInv
  <2>3. CASE ~Due
    BY <2>1, <2>3 DEF StartIfDue, SpacedInv
  <2>4. QED
    BY <2>2, <2>3
<1>3. ASSUME NEW c \in Callers, AnswerFresh(c) \/ Refuse(c) \/ JoinEnded(c) \/ Leave(c)
      PROVE  SpacedInv'
  BY <1>3 DEF AnswerFresh, Refuse, JoinEnded, Leave, ghosts, SpacedInv
<1>4. ASSUME NEW t \in Tasks, FetchOk(t) PROVE SpacedInv'
  BY <1>1, <1>4 DEF FetchOk, ghosts, SpacedInv
<1>5. ASSUME NEW t \in Tasks, FetchFails(t) PROVE SpacedInv'
  BY <1>5 DEF FetchFails, ghosts, SpacedInv, IInv, TypeOK
<1>6. ASSUME NEW t \in Tasks, LoopCancels(t) PROVE SpacedInv'
  BY <1>6 DEF LoopCancels, SpacedInv
<1>7. ASSUME NEW t \in Tasks, Settled(t) PROVE SpacedInv'
  <2>1. /\ refresh = t /\ Ended(t)
        /\ failed_age' = (IF task[t] = "failed" THEN 0 ELSE failed_age)
        /\ UNCHANGED <<catalog, since_start, loop_cancel>>
    BY <1>7 DEF Settled, Ended, ghosts, IInv, OneTask
  <2>2. CASE task[t] = "failed"
    BY <1>1, <2>1, <2>2 DEF SpacedInv
  <2>3. CASE task[t] # "failed"
    BY <2>1, <2>3 DEF Ended, SpacedInv
  <2>4. QED
    BY <2>2, <2>3
<1>8. CASE Tick
  <2>1. /\ catalog' = (IF catalog = None THEN None ELSE Older(catalog, CATALOG_MAX_AGE))
        /\ failed_age' = Older(failed_age, RETRY_DELAY)
        /\ since_start' = Older(since_start, Gap)
        /\ UNCHANGED <<refresh, task, loop_cancel>>
    BY <1>8 DEF Tick
  <2>2. (catalog # None => catalog \in Nat) /\ failed_age \in Nat
    BY DEF IInv, TypeOK
  <2>3. CASE since_start = Gap
    <3>1. since_start' = Gap
      BY <1>1, <2>1, <2>3 DEF Older
    <3>2. QED
      BY <3>1 DEF SpacedInv
  <2>4. CASE since_start # Gap
    <3>1. since_start' = since_start + 1
      BY <1>1, <2>1, <2>4 DEF Older
    <3>2. catalog # None /\ catalog <= since_start => catalog' # None /\ catalog' <= since_start'
      <4>1. SUFFICES ASSUME catalog # None, catalog <= since_start
                     PROVE  catalog' \in Nat /\ catalog' <= since_start'
        OBVIOUS
      <4>2. QED
        BY <1>1, <2>1, <2>2, <3>1, <4>1 DEF Older
    <3>3. failed_age <= since_start => failed_age' <= since_start'
      BY <1>1, <2>1, <2>2, <3>1 DEF Older
    <3>4. QED
      BY <2>1, <2>4, <3>2, <3>3 DEF SpacedInv
  <2>5. QED
    BY <2>3, <2>4
<1>9. CASE UNCHANGED vars
  BY <1>9 DEF vars, SpacedInv
<1>10. QED
  BY <1>2, <1>3, <1>4, <1>5, <1>6, <1>7, <1>8, <1>9 DEF Next, Call, EndOf

LEMMA Spacing == Spec => []SInv
<1>1. Init => SInv
  <2>1. Init => CancelInv /\ SpacedInv
    BY DEF Init, CancelInv, SpacedInv
  <2>2. QED
    BY <2>1, InitIInv DEF SInv
<1>2. SInv /\ [Next]_vars => SInv'
  BY StepIInv, CancelStep, SpacedStep DEF SInv
<1>3. QED
  BY <1>1, <1>2, PTL DEF Spec

\* No caller that goes away takes the request from the others: what they wait for
\* is cancelled by the event loop or not at all.
THEOREM LeavingDisturbsNobody == Spec => []LeavingIsPrivate
<1>1. SInv => LeavingIsPrivate
  BY DEF SInv, CancelInv, LeavingIsPrivate
<1>2. QED
  BY <1>1, Spacing, PTL

\* Two requests are at least Gap apart, whatever came of the first and however many
\* callers ask.
THEOREM RequestsAreSpaced == Spec => RequestsSpaced
<1>1. ASSUME SInv, [Next]_vars, NEW t \in Tasks, task[t] = "unused", task'[t] = "running"
      PROVE  since_start = Gap \/ loop_cancel
  <2>1. \E c \in Callers : Due /\ ~Fresh /\ (AnswerStale(c) \/ Join(c))
    <3>1. ASSUME NEW c \in Callers, AnswerFresh(c) \/ Refuse(c) \/ JoinEnded(c) \/ Leave(c)
          PROVE  FALSE
      BY <1>1, <3>1 DEF AnswerFresh, Refuse, JoinEnded, Leave
    <3>2. ASSUME NEW u \in Tasks, EndOf(u) \/ Settled(u) PROVE FALSE
      BY <1>1, <3>2 DEF EndOf, FetchOk, FetchFails, LoopCancels, Settled, SInv, IInv, TypeOK
    <3>3. ASSUME Tick \/ UNCHANGED vars PROVE FALSE
      BY <1>1, <3>3 DEF Tick, vars
    <3>4. ASSUME NEW c \in Callers, AnswerStale(c) \/ Join(c) PROVE Due /\ ~Fresh
      BY <1>1, <3>4 DEF AnswerStale, Join, StartIfDue
    <3>5. QED
      BY <1>1, <3>1, <3>2, <3>3, <3>4 DEF Next, Call
  <2>2. QED
    BY <1>1, <2>1, StartIsLate DEF SInv
<1>2. SInv /\ [Next]_vars =>
        [(\E t \in Tasks : task[t] = "unused" /\ task'[t] = "running")
           => since_start = Gap \/ loop_cancel]_vars
  BY <1>1
<1>3. QED
  BY <1>2, Spacing, PTL DEF Spec, RequestsSpaced

-----------------------------------------------------------------------------
(* The request ends *)

\* The fairness of FairSpec with its guards spelled out, for whichever task it is: the
\* event loop runs a callback that is ready, and the deadline ends a request.
CallbacksRun ==
  []<>~(\E t \in Tasks : Ended(t)) \/ []<><<\E t \in Tasks : Settled(t)>>_vars
DeadlineEnds ==
  \/ []<>~(\E t \in Tasks : Overdue(t))
  \/ []<><<\E t \in Tasks : Overdue(t) /\ FetchFails(t)>>_vars

\* What its fairness of Tick comes to: no request stays short of its deadline.
TimePasses == []<>~(\E t \in Tasks : Running(t) /\ ~Overdue(t))

\* How far `_refresh` is from being reset.
Out == refresh # None /\ Running(refresh)
OutOfTime == Out /\ Overdue(refresh)
Done == refresh # None /\ Ended(refresh)
Reset == refresh = None

LEMMA RefreshDescends ==
  ASSUME IInv
  PROVE  /\ ~Reset => Out \/ Done
         /\ (\E t \in Tasks : Ended(t)) <=> Done
         /\ (\E t \in Tasks : Overdue(t)) <=> OutOfTime
         /\ (\E t \in Tasks : Running(t) /\ ~Overdue(t)) <=> Out /\ ~OutOfTime
         /\ (\E t \in Tasks : Settled(t)) => Reset'
         /\ (\E t \in Tasks : Overdue(t) /\ FetchFails(t)) => Done'
<1>1. \A t \in Tasks : task[t] # "unused" => t = refresh /\ t # None
  BY NoneAssumption DEF IInv, OneTask
<1>2. refresh # None => refresh \in Tasks /\ task[refresh] \in {"running", "ok", "failed", "cancelled"}
  BY DEF IInv, OneTask, TypeOK
<1>3. ~Reset => Out \/ Done
  BY <1>2 DEF Reset, Out, Done, Running, Ended
<1>4. (\E t \in Tasks : Ended(t)) <=> Done
  BY <1>1, <1>2 DEF Ended, Done
<1>5. (\E t \in Tasks : Overdue(t)) <=> OutOfTime
  BY <1>1, <1>2 DEF Overdue, OutOfTime, Out, Running
<1>6. (\E t \in Tasks : Running(t) /\ ~Overdue(t)) <=> Out /\ ~OutOfTime
  BY <1>1, <1>2 DEF Overdue, OutOfTime, Out, Running
<1>7. ASSUME NEW t \in Tasks, Settled(t) PROVE Reset'
  <2>1. t = refresh
    BY <1>1, <1>7 DEF Settled, Ended
  <2>2. QED
    BY <1>7, <2>1 DEF Settled, Reset
<1>8. ASSUME NEW t \in Tasks, Overdue(t), FetchFails(t) PROVE Done'
  <2>1. t = refresh /\ refresh # None
    BY <1>1, <1>8 DEF FetchFails, Running
  <2>2. refresh' = refresh /\ task'[t] = "failed"
    BY <1>8 DEF FetchFails, IInv, TypeOK
  <2>3. QED
    BY <2>1, <2>2 DEF Done, Ended
<1>9. QED
  BY <1>3, <1>4, <1>5, <1>6, <1>7, <1>8

LEMMA RefreshNeverAscends ==
  ASSUME IInv, [Next]_vars
  PROVE  /\ Out => Out' \/ Done' \/ Reset'
         /\ OutOfTime => OutOfTime' \/ Done' \/ Reset'
         /\ Done => Done' \/ Reset'
<1>1. \A t \in Tasks : task[t] # "unused" => t = refresh /\ t # None
  BY NoneAssumption DEF IInv, OneTask
<1>2. ASSUME refresh # None, StartIfDue PROVE UNCHANGED <<refresh, task, task_age>>
  BY <1>2 DEF StartIfDue, Due
<1>3. ASSUME UNCHANGED <<refresh, task, task_age>>
      PROVE  /\ Out => Out'
             /\ OutOfTime => OutOfTime'
             /\ Done => Done'
  BY <1>3 DEF Out, OutOfTime, Done, Running, Ended, Overdue
<1>4. ASSUME NEW c \in Callers, Call(c) \/ Leave(c), refresh # None
      PROVE  UNCHANGED <<refresh, task, task_age>>
  BY <1>2, <1>4 DEF Call, AnswerFresh, AnswerStale, Refuse, Join, JoinEnded, Leave
<1>5. ASSUME NEW t \in Tasks, EndOf(t) PROVE ~Done /\ Done'
  <2>1. t = refresh /\ refresh # None /\ Running(t)
    BY <1>1, <1>5 DEF EndOf, FetchOk, FetchFails, LoopCancels, Running
  <2>2. refresh' = refresh /\ task'[t] \in {"ok", "failed", "cancelled"}
    BY <1>5 DEF EndOf, FetchOk, FetchFails, LoopCancels, IInv, TypeOK
  <2>3. QED
    BY <2>1, <2>2 DEF Done, Ended, Running
<1>6. ASSUME Tick PROVE ~Done /\ ~OutOfTime /\ (Out => Out')
  <2>1. refresh # None => refresh \in Tasks
    BY DEF IInv, TypeOK
  <2>2. ~Done /\ ~OutOfTime
    <3>1. \A t \in Tasks : ~Overdue(t) /\ ~Ended(t)
      BY <1>6 DEF Tick
    <3>2. QED
      BY <2>1, <3>1 DEF Done, OutOfTime, Out
  <2>3. Out => Out'
    BY <1>6 DEF Tick, Out, Running
  <2>4. QED
    BY <2>2, <2>3
<1>7. CASE \E t \in Tasks : Settled(t)
  BY <1>7, RefreshDescends
<1>8. CASE UNCHANGED vars
  BY <1>3, <1>8 DEF vars
<1>9. Out \/ OutOfTime \/ Done => refresh # None
  BY DEF Out, OutOfTime, Done
<1>10. QED
  BY <1>3, <1>4, <1>5, <1>6, <1>7, <1>8, <1>9 DEF Next

\* `_refresh` never stays set, for any callers, tasks and times: the request is answered
\* or its deadline ends it, and either way its callback resets `_refresh`.
THEOREM RefreshIsReset == Spec /\ TimePasses /\ DeadlineEnds /\ CallbacksRun => RefreshEnds
<1>1. IInv /\ ~Reset => Out \/ Done
  BY RefreshDescends
<1>2. /\ IInv /\ Out /\ [Next]_vars => Out' \/ Done' \/ Reset'
      /\ IInv /\ OutOfTime /\ [Next]_vars => OutOfTime' \/ Done' \/ Reset'
      /\ IInv /\ Done /\ [Next]_vars => Done' \/ Reset'
  BY RefreshNeverAscends
<1>3. IInv => /\ (\E t \in Tasks : Ended(t)) <=> Done
              /\ (\E t \in Tasks : Overdue(t)) <=> OutOfTime
              /\ (\E t \in Tasks : Running(t) /\ ~Overdue(t)) <=> Out /\ ~OutOfTime
  BY RefreshDescends
<1>4. /\ IInv /\ <<\E t \in Tasks : Settled(t)>>_vars => Reset'
      /\ IInv /\ <<\E t \in Tasks : Overdue(t) /\ FetchFails(t)>>_vars => Done'
  BY RefreshDescends
<1>5. Reset <=> refresh = None
  BY DEF Reset
<1>6. Spec /\ TimePasses /\ DeadlineEnds /\ CallbacksRun => (~Reset ~> Reset)
  BY <1>1, <1>2, <1>3, <1>4, Invariance, PTL DEF Spec, TimePasses, DeadlineEnds, CallbacksRun
<1>7. QED
  BY <1>5, <1>6, PTL DEF RefreshEnds
=============================================================================
