------------------------------ MODULE Spending ------------------------------
(***************************************************************************)
(* What the user pays per hour: pods, tasks, storage and servings that     *)
(* tools buy, change, stop and delete (tools/write_pods.py,                *)
(* write_storages.py, write_serverless.py).                                *)
(*                                                                         *)
(* A call asks the user about an hourly price; the confirmed call comes    *)
(* later and the machine is found later still.  Meanwhile prices move,     *)
(* other calls about the same thing are asked about, sent and take effect, *)
(* and the user changes servings in the console and with the CLI.  Nothing *)
(* in the tools keeps two calls apart.                                     *)
(*                                                                         *)
(* One price stands for all hardware, a GiB of a pod's local storage costs *)
(* 1 per hour, and the API decides and bills.  Of a serving's settings the *)
(* price cap and the number of replicas are kept: autoscale and the lower  *)
(* end of the range decide how many run, never more than max_replicas.     *)
(***************************************************************************)
EXTENDS Integers

CONSTANTS Calls, Things, None,
          PRICE,     \* bound on the price of hardware
          REPLICAS,  \* bound on max_replicas
          DISK,      \* bound on the GiB of a volume and of a pod's local storage
          OTHERS     \* whether the user changes servings elsewhere

ASSUME SpendingAssumption ==
  /\ PRICE \in Nat \ {0} /\ REPLICAS \in Nat \ {0} /\ DISK \in Nat
  /\ OTHERS \in BOOLEAN /\ None \notin Int /\ None \notin Things

VARIABLES
  price,     \* what hardware costs per hour now
  kind, state, rate,
  gib,       \* of local storage or of a volume; local storage outlives its pod
  order,     \* what a pod or task that looks for a machine was ordered with
  limit,     \* the most to pay the user set or agreed to; None: none, or not known
  settings,  \* of a serving, as the API has them
  agreed,    \* the highest cap and the most replicas the user ever set or agreed to
  pc,        \* a question is shown, its confirmed call or one that needs none is sent
  on, request,
  shown      \* the hourly price in the question, or of a change that was found to raise
             \* nothing, as long as what it rests on stands

things == <<kind, state, rate, gib, order, limit>>
servings == <<settings, agreed>>
calls == <<pc, on, request, shown>>
vars == <<price, things, servings, calls>>

Caps == 1 .. PRICE
Settings == [cap : 0 .. PRICE, replicas : 0 .. REPLICAS]
Choices == [cap : Caps, replicas : 1 .. REPLICAS]
Nothing == [cap |-> 0, replicas |-> 0]
Orders == [cap : Caps \cup {None}, gib : 0 .. DISK, shown : Nat \cup {None}]
NoOrder == [cap |-> None, gib |-> 0, shown |-> None]

Tools == {"create_pod", "update_pod", "start_pod", "delete_pod", "submit_task",
          "create_storage", "update_storage", "deploy_serving", "scale_serving"}
\* cap: max_price_per_hour or price_cap_per_hour.  gib: new local storage, the size of a
\* volume, or for delete_pod what delete_local_storages lists.
Requests == [tool : Tools \cup {"none"}, cap : Caps \cup {None}, gib : 0 .. DISK,
             replicas : (1 .. REPLICAS) \cup {None}]
Asks(tool, cap, size, n) == [tool |-> tool, cap |-> cap, gib |-> size, replicas |-> n]
NoRequest == Asks("none", None, 0, None)

TypeOK ==
  /\ price \in Caps
  /\ kind \in [Things -> {"pod", "task", "storage", "serving"}]
  /\ state \in [Things -> {"none", "placing", "starting", "running", "stopped",
                           "paused", "gone"}]
  /\ rate \in [Things -> Nat] /\ gib \in [Things -> Nat]
  /\ order \in [Things -> Orders] /\ limit \in [Things -> Nat \cup {None}]
  /\ settings \in [Things -> Settings] /\ agreed \in [Things -> Settings]
  /\ pc \in [Calls -> {"idle", "shown", "sent", "unasked"}]
  /\ on \in [Calls -> Things \cup {None}] /\ request \in [Calls -> Requests]
  /\ shown \in [Calls -> Nat \cup {None}]
  \* What does not run has no compute rate.
  /\ \A o \in Things : state[o] # "running" => rate[o] = 0

Init ==
  /\ price \in Caps
  /\ kind = [o \in Things |-> "pod"] /\ state = [o \in Things |-> "none"]
  /\ rate = [o \in Things |-> 0] /\ gib = [o \in Things |-> 0]
  /\ order = [o \in Things |-> NoOrder] /\ limit = [o \in Things |-> None]
  /\ settings = [o \in Things |-> Nothing] /\ agreed = [o \in Things |-> Nothing]
  /\ pc = [c \in Calls |-> "idle"] /\ on = [c \in Calls |-> None]
  /\ request = [c \in Calls |-> NoRequest] /\ shown = [c \in Calls |-> None]

-----------------------------------------------------------------------------
(* Questions *)

\* Whatever else is in progress: the tools keep nothing between calls.
Ask(c, o, r, q) ==
  /\ pc[c] = "idle"
  /\ pc' = [pc EXCEPT ![c] = "shown"]
  /\ on' = [on EXCEPT ![c] = o]
  /\ request' = [request EXCEPT ![c] = r]
  /\ shown' = [shown EXCEPT ![c] = q]
  /\ UNCHANGED <<price, things, servings>>

\* Things bounds how much is ever bought.
AskNew(c, r, q) == (\E o \in Things : state[o] = "none") /\ Ask(c, None, r, q)

AskAbout(c, o, k, r, q) ==
  /\ kind[o] = k /\ state[o] \notin {"none", "gone"}
  /\ Ask(c, o, r, q)

\* price_exceeds_cap: checked by the API on an estimate and on a confirmed call.
FitsCap(cost, cap) == cap # None => cost <= cap

\* "compute plus new local_volumes"
PodEstimate(r) == price + r.gib

CreatePod(c) ==
  \E cap \in Caps \cup {None}, size \in 0 .. DISK :
    LET r == Asks("create_pod", cap, size, None)
    IN  FitsCap(PodEstimate(r), cap) /\ AskNew(c, r, PodEstimate(r))

\* max_cost, here per hour, or "an amount that depends on the machine".
SubmitTask(c) ==
  \E cap \in Caps \cup {None}, q \in {price, None} :
    FitsCap(price, cap) /\ AskNew(c, Asks("submit_task", cap, 0, None), q)

VolumePrice(size) == price * size

CreateStorage(c) ==
  \E cap \in Caps \cup {None}, size \in 1 .. DISK :
    /\ FitsCap(VolumePrice(size), cap)
    /\ AskNew(c, Asks("create_storage", cap, size, None), VolumePrice(size))

\* "the worst case is price_cap * max_replicas per hour"
Ceiling(s) == s.cap * s.replicas

\* The one question answered without asking the API.
DeployServing(c) ==
  \E cap \in Caps, n \in 1 .. REPLICAS :
    LET r == Asks("deploy_serving", cap, 0, n) IN AskNew(c, r, Ceiling(r))

\* The question is about the pod's hourly price after the edit, running or not.
UpdatePod(c, o) ==
  \E cap \in Caps \cup {None}, size \in 0 .. DISK :
    LET r == Asks("update_pod", cap, size, None)
    IN  FitsCap(PodEstimate(r), cap) /\ AskAbout(c, o, "pod", r, PodEstimate(r))

\* Mutant: the question leaves the storage out.
StartQuestionOnCompute(o) == price
\* "compute plus ... storage"
StartQuestion(o) == price + gib[o]

StartPod(c, o) == AskAbout(c, o, "pod", Asks("start_pod", None, 0, None), StartQuestion(o))

\* The pod, with its local volumes, and the list: what is not listed goes on being billed.
DeletePod(c, o) ==
  \E listed \in 0 .. DISK :
    /\ listed <= gib[o]
    /\ AskAbout(c, o, "pod", Asks("delete_pod", None, listed, None), gib[o] - listed)

\* It takes no cap; "Storage can grow but never shrink".
UpdateStorage(c, o) ==
  \E size \in 1 .. DISK :
    /\ gib[o] <= size
    /\ AskAbout(c, o, "storage", Asks("update_storage", None, size, None), VolumePrice(size))

\* "Pass only the fields to change."
Applied(s, r) == [cap |-> IF r.cap = None THEN s.cap ELSE r.cap,
                  replicas |-> IF r.replicas = None THEN s.replicas ELSE r.replicas]

\* Mutant: the rule looks at the replicas only.
RaisesReplicas(s, r) == r.replicas # None /\ r.replicas > s.replicas
\* Serving.scale_raises_cost (external)
RaisesCost(s, r) ==
  \/ r.cap # None /\ r.cap > s.cap
  \/ r.replicas # None /\ r.replicas > s.replicas

\* The question shows the serving and the change: the new worst case follows from the two.
ScaleServing(c, o) ==
  \E cap \in Caps \cup {None}, n \in (1 .. REPLICAS) \cup {None} :
    LET r == Asks("scale_serving", cap, 0, n)
    IN  /\ RaisesCost(settings[o], r)
        /\ AskAbout(c, o, "serving", r, Ceiling(Applied(settings[o], r)))

\* A change that raises nothing as read goes on without a question.
ScaleUnasked(c, o) ==
  /\ pc[c] = "idle" /\ kind[o] = "serving" /\ state[o] \in {"running", "paused"}
  /\ \E cap \in Caps \cup {None}, n \in (1 .. REPLICAS) \cup {None} :
       LET r == Asks("scale_serving", cap, 0, n)
       IN  /\ ~RaisesCost(settings[o], r)
           /\ request' = [request EXCEPT ![c] = r]
           /\ shown' = [shown EXCEPT ![c] = Ceiling(Applied(settings[o], r))]
  /\ pc' = [pc EXCEPT ![c] = "unasked"] /\ on' = [on EXCEPT ![c] = o]
  /\ UNCHANGED <<price, things, servings>>

\* The agent calls again with confirm=true and the same arguments.
Confirm(c) ==
  /\ pc[c] = "shown"
  /\ pc' = [pc EXCEPT ![c] = "sent"]
  /\ UNCHANGED <<price, things, servings, on, request, shown>>

\* The calls whose question rests on what o has, when that changes.
Overtaken(o, changed) ==
  {c \in Calls : /\ changed /\ on[c] = o
                 /\ request[c].tool \in {"start_pod", "delete_pod", "scale_serving"}}

EndCall(c, overtaken) ==
  /\ pc' = [pc EXCEPT ![c] = "idle"] /\ on' = [on EXCEPT ![c] = None]
  /\ request' = [request EXCEPT ![c] = NoRequest]
  /\ shown' = [d \in Calls |-> IF d \in {c} \cup overtaken THEN None ELSE shown[d]]

\* The user says no, the API refuses (price_exceeds_cap, price_changed,
\* operation_in_progress), or the call fails.
GiveUp(c) ==
  /\ pc[c] # "idle" /\ EndCall(c, {})
  /\ UNCHANGED <<price, things, servings>>

\* Mutant: the cap is used for the estimate only.
KwargsUncapped(r) == IF r.tool = "deploy_serving" THEN r ELSE [r EXCEPT !.cap = None]
\* _pod_kwargs and its like: all that the price depends on is sent as it was estimated.
Kwargs(r) == r

-----------------------------------------------------------------------------
(* What the API makes of a confirmed call (external) *)

Sent(c, tool) == pc[c] = "sent" /\ request[c].tool = tool

\* A new pod or task, or a stopped pod that starts: what comes of it is asynchronous.
Queues(c, o, tool, k, before, after) ==
  /\ Sent(c, tool)
  /\ FitsCap(PodEstimate(request[c]), Kwargs(request[c]).cap)
  /\ state[o] = before /\ state' = [state EXCEPT ![o] = after]
  /\ kind' = [kind EXCEPT ![o] = k]
  /\ order' = [order EXCEPT ![o] = [cap |-> Kwargs(request[c]).cap,
                                    gib |-> Kwargs(request[c]).gib, shown |-> shown[c]]]
  /\ limit' = [limit EXCEPT ![o] = request[c].cap]
  /\ EndCall(c, {})
  /\ UNCHANGED <<price, rate, gib, servings>>

PodCreated(c, o) == Queues(c, o, "create_pod", "pod", "none", "placing")
TaskSubmitted(c, o) == Queues(c, o, "submit_task", "task", "none", "placing")
PodStarted(c, o) == on[c] = o /\ Queues(c, o, "start_pod", "pod", "stopped", "starting")

\* The cap "caps the final COMPUTE hourly rate at placement".
Placed(o) ==
  /\ state[o] \in {"placing", "starting"} /\ FitsCap(price, order[o].cap)
  /\ state' = [state EXCEPT ![o] = "running"] /\ rate' = [rate EXCEPT ![o] = price]
  /\ gib' = [gib EXCEPT ![o] = @ + order[o].gib]
  /\ order' = [order EXCEPT ![o] = NoOrder]
  /\ shown' = [c \in Calls |-> IF c \in Overtaken(o, order[o].gib # 0) THEN None ELSE shown[c]]
  /\ UNCHANGED <<price, kind, limit, servings, pc, on, request>>

\* "an over-cap placement fails asynchronously"
NotPlaced(o) ==
  /\ state[o] \in {"placing", "starting"}
  /\ state' = [state EXCEPT ![o] = IF @ = "placing" THEN "gone" ELSE "stopped"]
  /\ order' = [order EXCEPT ![o] = NoOrder]
  /\ UNCHANGED <<price, kind, rate, gib, limit, servings, calls>>

\* A volume, as large as the call says.
SizesVolume(c, o) ==
  /\ rate' = [rate EXCEPT ![o] = VolumePrice(Kwargs(request[c]).gib)]
  /\ gib' = [gib EXCEPT ![o] = Kwargs(request[c]).gib]
  /\ limit' = [limit EXCEPT ![o] = request[c].cap]
  /\ EndCall(c, {}) /\ UNCHANGED <<price, order, servings>>

StorageCreated(c, o) ==
  /\ Sent(c, "create_storage") /\ state[o] = "none"
  /\ FitsCap(VolumePrice(request[c].gib), Kwargs(request[c]).cap)
  /\ kind' = [kind EXCEPT ![o] = "storage"] /\ state' = [state EXCEPT ![o] = "running"]
  /\ SizesVolume(c, o)

\* storage_cannot_shrink
StorageUpdated(c, o) ==
  /\ Sent(c, "update_storage") /\ on[c] = o /\ state[o] = "running"
  /\ gib[o] <= request[c].gib
  /\ SizesVolume(c, o) /\ UNCHANGED <<kind, state>>

ServingDeployed(c, o) ==
  /\ Sent(c, "deploy_serving") /\ state[o] = "none"
  /\ kind' = [kind EXCEPT ![o] = "serving"] /\ state' = [state EXCEPT ![o] = "running"]
  /\ LET s == Applied(Nothing, Kwargs(request[c]))
     IN  /\ settings' = [settings EXCEPT ![o] = s] /\ agreed' = [agreed EXCEPT ![o] = s]
         /\ limit' = [limit EXCEPT ![o] = Ceiling(s)]
  /\ EndCall(c, {}) /\ UNCHANGED <<price, rate, gib, order>>

\* operation_in_progress unless the pod is "running or stopped".  A running pod is billed
\* anew, "a stopped pod uses them at its next start"; new storage is billed either way.
PodUpdated(c, o) ==
  /\ Sent(c, "update_pod") /\ on[c] = o /\ state[o] \in {"running", "stopped"}
  /\ FitsCap(PodEstimate(request[c]), Kwargs(request[c]).cap)
  /\ gib[o] + request[c].gib <= DISK  \* bound
  /\ rate' = [rate EXCEPT ![o] = IF state[o] = "running" THEN price ELSE 0]
  /\ gib' = [gib EXCEPT ![o] = @ + Kwargs(request[c]).gib]
  /\ limit' = [limit EXCEPT ![o] = request[c].cap]
  /\ EndCall(c, Overtaken(o, request[c].gib # 0))
  /\ UNCHANGED <<price, kind, state, order, servings>>

\* Only the local volumes in `delete_local_storages` go with the pod.
PodDeleted(c, o) ==
  /\ Sent(c, "delete_pod") /\ on[c] = o /\ state[o] # "gone"
  /\ state' = [state EXCEPT ![o] = "gone"] /\ rate' = [rate EXCEPT ![o] = 0]
  /\ gib' = [gib EXCEPT ![o] = @ - Kwargs(request[c]).gib]
  /\ order' = [order EXCEPT ![o] = NoOrder]
  /\ EndCall(c, Overtaken(o, TRUE))
  /\ UNCHANGED <<price, kind, limit, servings>>

Serves(o) == kind[o] = "serving" /\ state[o] \in {"running", "paused"}

Higher(a, b) == [cap |-> IF a.cap > b.cap THEN a.cap ELSE b.cap,
                 replicas |-> IF a.replicas > b.replicas THEN a.replicas ELSE b.replicas]

\* The more of two costs, if both are known.
Dearer(x, y) == IF x = None \/ y = None THEN None ELSE IF x > y THEN x ELSE y

\* The API applies the change to what the serving is by then; confirmed or not, the
\* request says nothing of what was read.  With confirm the user has agreed to the worst
\* case shown, without to nothing; once another change has overtaken it nobody knows.
ScaleWrites(c, o) ==
  /\ pc[c] \in {"sent", "unasked"} /\ request[c].tool = "scale_serving" /\ on[c] = o /\ Serves(o)
  /\ LET s == Applied(settings[o], request[c])
     IN  /\ settings' = [settings EXCEPT ![o] = s]
         /\ agreed' = [agreed EXCEPT ![o] =
                         IF pc[c] = "sent" THEN Higher(@, Applied(@, request[c])) ELSE @]
         /\ limit' = [limit EXCEPT ![o] =
                         IF pc[c] = "unasked" /\ shown[c] # None THEN @ ELSE Dearer(@, shown[c])]
         /\ EndCall(c, Overtaken(o, s # settings[o]))
  /\ UNCHANGED <<price, kind, state, rate, gib, order>>

\* The serving's replicas come and go, each billed at the price up to the cap.
ReplicasRun(o, n) ==
  /\ kind[o] = "serving" /\ state[o] = "running" /\ n <= settings[o].replicas
  /\ rate' = [rate EXCEPT ![o] =
                 n * (IF price <= settings[o].cap THEN price ELSE settings[o].cap)]
  /\ UNCHANGED <<price, kind, state, gib, order, limit, servings, calls>>

-----------------------------------------------------------------------------
(* What else happens *)

\* What rests on the price no longer stands.
PriceMoves(p) ==
  /\ p # price /\ price' = p
  /\ shown' = [c \in Calls |->
                 IF request[c].tool \in Tools \ {"delete_pod", "deploy_serving", "scale_serving"}
                 THEN None ELSE shown[c]]
  /\ order' = [o \in Things |-> [order[o] EXCEPT !.shown = None]]
  /\ UNCHANGED <<kind, state, rate, gib, limit, servings, pc, on, request>>

\* The user's own changes in the console or with the CLI (external).
OtherChanges(o, s) ==
  /\ OTHERS /\ Serves(o) /\ s # settings[o]
  /\ settings' = [settings EXCEPT ![o] = s]
  /\ agreed' = [agreed EXCEPT ![o] = Higher(@, s)]
  /\ limit' = [limit EXCEPT ![o] = Dearer(@, Ceiling(s))]
  /\ shown' = [c \in Calls |-> IF c \in Overtaken(o, TRUE) THEN None ELSE shown[c]]
  /\ UNCHANGED <<price, kind, state, rate, gib, order, pc, on, request>>

\* A write that costs nothing more, at any time: its own question is not about a price.
Becomes(o, k, before, after) ==
  /\ kind[o] = k /\ state[o] \in before
  /\ state' = [state EXCEPT ![o] = after]
  /\ order' = [order EXCEPT ![o] = NoOrder]
  /\ UNCHANGED <<price, kind, gib, limit, servings, calls>>

Unbilled(o) == rate' = [rate EXCEPT ![o] = 0]

\* "Paused servings stop billing"; resuming starts with no replica.
PauseServing(o) == Becomes(o, "serving", {"running"}, "paused") /\ Unbilled(o)
ResumeServing(o) == Becomes(o, "serving", {"paused"}, "running") /\ Unbilled(o)

\* "Pod billing stops; attached storage keeps being billed."
StopPod(o) == Becomes(o, "pod", {"starting", "running"}, "stopped") /\ Unbilled(o)

\* "Stop a queued or running task", or it ends by itself.
StopTask(o) == Becomes(o, "task", {"placing", "running"}, "gone") /\ Unbilled(o)

\* A volume is billed by its rate alone.
DeleteStorage(o) == Becomes(o, "storage", {"running"}, "gone") /\ Unbilled(o)

\* Mutant: the endpoint goes, its replicas stay.
DeleteEndpoint(o) == Becomes(o, "serving", {"running", "paused"}, "gone") /\ UNCHANGED rate
DeleteServing(o) == Becomes(o, "serving", {"running", "paused"}, "gone") /\ Unbilled(o)

-----------------------------------------------------------------------------
Questions(c) ==
  \/ CreatePod(c) \/ SubmitTask(c) \/ CreateStorage(c) \/ DeployServing(c)
  \/ \E o \in Things :
       \/ UpdatePod(c, o) \/ StartPod(c, o) \/ DeletePod(c, o)
       \/ UpdateStorage(c, o) \/ ScaleServing(c, o) \/ ScaleUnasked(c, o)

Effects(c, o) ==
  \/ PodCreated(c, o) \/ TaskSubmitted(c, o) \/ PodStarted(c, o)
  \/ StorageCreated(c, o) \/ StorageUpdated(c, o) \/ ServingDeployed(c, o)
  \/ PodUpdated(c, o) \/ PodDeleted(c, o) \/ ScaleWrites(c, o)

Next ==
  \/ \E c \in Calls : Questions(c) \/ Confirm(c) \/ GiveUp(c)
  \/ \E c \in Calls, o \in Things : Effects(c, o)
  \/ \E o \in Things :
       \/ Placed(o) \/ NotPlaced(o)
       \/ \E n \in 0 .. REPLICAS : ReplicasRun(o, n)
       \/ \E s \in Choices : OtherChanges(o, s)
       \/ PauseServing(o) \/ ResumeServing(o)
       \/ StopPod(o) \/ StopTask(o) \/ DeleteStorage(o) \/ DeleteServing(o)
  \/ \E p \in Caps : PriceMoves(p)

Spec == Init /\ [][Next]_vars

-----------------------------------------------------------------------------
(* Properties *)

\* However prices move between the estimate, the confirmed call and the placement, and
\* however many replicas run, nothing costs more than the most the user set or agreed to:
\* a pod's, task's or volume's cap, for a serving the dearest worst case (cap times
\* replicas, set together) it was ever given.  Past a change that another overtook, a
\* serving has no such limit: two settings meet that nobody ever chose together.
NeverAboveLimit ==
  \A o \in Things : limit[o] # None /\ state[o] = "running" => rate[o] <= limit[o]

\* However calls and other changes overlap, neither setting of a serving is ever above
\* what the user set or agreed to at some time: a change sent without confirm can bring
\* an old level back, but it never reaches a new one.
NeverAboveAgreed ==
  \A o \in Things : Serves(o) =>
    settings[o].cap <= agreed[o].cap /\ settings[o].replicas <= agreed[o].replicas

\* Whatever other calls were asked about, sent and took effect since the question, what a
\* call makes the user pay is what it said, unless the price moved or, for a start, a
\* deletion and a scaling, the storage or the settings it showed have changed.  An edit's
\* question speaks of compute and new storage; what is billed already comes on top.
PaidAsShown ==
  [][/\ \A o \in Things :
          Placed(o) /\ order[o].shown # None => rate'[o] + gib'[o] = order[o].shown
     /\ \A c \in Calls, o \in Things : shown[c] # None /\ pc'[c] = "idle" /\ Effects(c, o) =>
          /\ kind'[o] = "storage" => rate'[o] = shown[c]
          /\ PodUpdated(c, o) =>
               IF state[o] = "running" THEN rate'[o] + gib'[o] = shown[c] + gib[o]
               ELSE rate'[o] + gib'[o] <= shown[c] + gib[o]
          /\ PodDeleted(c, o) => rate'[o] + gib'[o] = shown[c]
          /\ kind'[o] = "serving" => Ceiling(settings'[o]) = shown[c]]_vars

\* The docstring of scale_serving: "Any change that can raise the hourly cost ...
\* with confirm=false (default) only returns the current state ... and changes
\* nothing".
NoUnconfirmedRaise ==
  [][\A c \in Calls, o \in Things :
       ScaleWrites(c, o) /\ pc[c] = "unasked" =>
         settings'[o].cap <= settings[o].cap /\ settings'[o].replicas <= settings[o].replicas]_vars
=============================================================================
