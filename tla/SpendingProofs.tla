--------------------------- MODULE SpendingProofs ---------------------------
(***************************************************************************)
(* The properties of Spending for any number of calls and things and any   *)
(* prices, caps, sizes and replicas.                                       *)
(*                                                                         *)
(* Of a call is known what it is about (Aimed), that its question still    *)
(* tells what the API would bill as long as it stands (Promised), and that *)
(* what it sends without a question is within what was agreed (Unraised).  *)
(* Of a thing: what it was ordered with (Ordered), that a serving's        *)
(* settings are within what was agreed and its worst case within its limit *)
(* (Covered), and that what runs is (Within).                              *)
(*                                                                         *)
(* NeverAboveAgreed is not inductive: what an unconfirmed call that has    *)
(* done its read is about to send must be within `agreed` too.  It is,     *)
(* because the read found nothing requested above the serving's settings,  *)
(* these were within `agreed` then, and `agreed` never goes down.          *)
(* NeverAboveLimit needs that a call's question, while it stands, is the   *)
(* worst case of the settings it leads to.                                 *)
(***************************************************************************)
EXTENDS Spending, TLAPS

About(c, k) == on[c] \in Things /\ state[on[c]] # "none" /\ kind[on[c]] = k

Aimed(c) ==
  /\ pc[c] = "idle" => request[c] = NoRequest
  /\ pc[c] = "unasked" => request[c].tool = "scale_serving"
  /\ request[c].tool \in {"update_pod", "start_pod", "delete_pod"} => About(c, "pod")
  /\ request[c].tool = "update_storage" => About(c, "storage") /\ request[c].cap = None
  /\ request[c].tool = "scale_serving" => About(c, "serving")
  /\ request[c].tool = "deploy_serving" => request[c].cap # None /\ request[c].replicas # None
  /\ request[c].tool \in {"submit_task", "start_pod"} => request[c].gib = 0
  /\ request[c].tool = "start_pod" => request[c].cap = None
  \* What is listed is there, as storage never shrinks while the pod exists.
  /\ request[c].tool = "delete_pod" =>
       state[on[c]] = "gone" \/ request[c].gib <= gib[on[c]]

Promised(c) ==
  shown[c] # None =>
    /\ request[c].tool \in {"create_pod", "update_pod", "submit_task"} =>
         shown[c] = PodEstimate(request[c])
    /\ request[c].tool = "start_pod" => shown[c] = price + gib[on[c]]
    /\ request[c].tool = "delete_pod" => shown[c] = gib[on[c]] - request[c].gib
    /\ request[c].tool \in {"create_storage", "update_storage"} =>
         shown[c] = VolumePrice(request[c].gib)
    /\ request[c].tool = "deploy_serving" => shown[c] = Ceiling(request[c])
    /\ request[c].tool = "scale_serving" =>
         shown[c] = Ceiling(Applied(settings[on[c]], request[c]))

\* What request r asks for is within the terms a.
Fits(r, a) ==
  /\ r.cap # None => r.cap <= a.cap
  /\ r.replicas # None => r.replicas <= a.replicas

Unraised(c) ==
  pc[c] = "unasked" =>
    /\ Fits(request[c], agreed[on[c]])
    /\ shown[c] # None => Fits(request[c], settings[on[c]])

Fine(c) == Aimed(c) /\ Promised(c) /\ Unraised(c)

Ordered(o) ==
  /\ state[o] = "none" => gib[o] = 0
  /\ state[o] \in {"placing", "starting"} =>
       /\ kind[o] \in {"pod", "task"} /\ order[o].cap = limit[o]
       /\ order[o].shown # None => order[o].shown = price + gib[o] + order[o].gib

Within(o) == limit[o] # None /\ state[o] = "running" => rate[o] <= limit[o]

Covered(o) ==
  Serves(o) =>
    /\ settings[o].cap <= agreed[o].cap /\ settings[o].replicas <= agreed[o].replicas
    /\ limit[o] # None => Ceiling(settings[o]) <= limit[o]

Sound(o) == Ordered(o) /\ Within(o) /\ Covered(o)

IInv == TypeOK /\ (\A c \in Calls : Fine(c)) /\ \A o \in Things : Sound(o)

-----------------------------------------------------------------------------
(* Lemmas about the values *)

LEMMA ProductGrows ==
  ASSUME NEW n \in Nat, NEW m \in Nat, NEW x \in Nat, NEW y \in Nat, n <= m, x <= y
  PROVE  n * x \in Nat /\ m * y \in Nat /\ n * x <= m * y
<1>1. n * x \in Nat /\ n * y \in Nat /\ m * y \in Nat
  OBVIOUS
<1>2. n * x <= n * y
  OBVIOUS
<1>3. n * y <= m * y
  OBVIOUS
<1>4. QED
  BY <1>1, <1>2, <1>3

\* Settings and requests are made of numbers.
LEMMA SettingsType ==
  ASSUME NEW s \in Settings
  PROVE  s.cap \in Nat /\ s.replicas \in Nat /\ Ceiling(s) \in Nat
<1>1. s.cap \in Nat /\ s.replicas \in Nat
  BY SpendingAssumption DEF Settings
<1>2. s.cap * s.replicas \in Nat
  BY <1>1
<1>3. QED
  BY <1>1, <1>2 DEF Ceiling

LEMMA RequestType ==
  ASSUME NEW r \in Requests
  PROVE  /\ r.gib \in Nat /\ r.gib \in 0 .. DISK
         /\ r.cap \in Caps \cup {None} /\ r.cap \in Nat \cup {None}
         /\ r.replicas \in (1 .. REPLICAS) \cup {None} /\ r.replicas \in Nat \cup {None}
BY SpendingAssumption DEF Requests, Caps

LEMMA NoneTypes == NoRequest \in Requests /\ NoRequest.tool = "none" /\ NoOrder \in Orders
                   /\ NoOrder.shown = None
BY SpendingAssumption DEF NoRequest, Asks, Requests, NoOrder, Orders

\* A change of settings gives settings; asking for less gives less.
LEMMA AppliedType ==
  ASSUME NEW s \in Settings, NEW r \in Requests
  PROVE  /\ Applied(s, r) \in Settings
         /\ Applied(s, r).cap = (IF r.cap = None THEN s.cap ELSE r.cap)
         /\ Applied(s, r).replicas = (IF r.replicas = None THEN s.replicas ELSE r.replicas)
BY RequestType, SpendingAssumption DEF Applied, Settings, Caps

LEMMA AppliedFits ==
  ASSUME NEW s \in Settings, NEW r \in Requests, Fits(r, s)
  PROVE  Ceiling(Applied(s, r)) <= Ceiling(s)
<1> DEFINE t == Applied(s, r)
<1>1. t \in Settings /\ t.cap <= s.cap /\ t.replicas <= s.replicas
  BY AppliedType, SettingsType DEF Fits
<1>2. t.cap \in Nat /\ t.replicas \in Nat /\ s.cap \in Nat /\ s.replicas \in Nat
  BY <1>1, SettingsType
<1> HIDE DEF t
<1>3. t.cap * t.replicas <= s.cap * s.replicas
  BY <1>1, <1>2, ProductGrows
<1>4. QED
  BY <1>3 DEF Ceiling, t

\* Raising the agreed terms keeps them above what they were above before.
LEMMA HigherAbove ==
  ASSUME NEW a \in Settings, NEW b \in Settings
  PROVE  /\ Higher(a, b) \in Settings
         /\ a.cap <= Higher(a, b).cap /\ a.replicas <= Higher(a, b).replicas
         /\ b.cap <= Higher(a, b).cap /\ b.replicas <= Higher(a, b).replicas
BY SpendingAssumption DEF Higher, Settings

LEMMA DearerAbove ==
  ASSUME NEW x \in Nat \cup {None}, NEW y \in Nat \cup {None}
  PROVE  /\ Dearer(x, y) \in Nat \cup {None}
         /\ Dearer(x, y) # None => x # None /\ y # None /\ x <= Dearer(x, y) /\ y <= Dearer(x, y)
BY SpendingAssumption DEF Dearer

\* What an order for a thing was made with.
LEMMA OrderType ==
  ASSUME NEW d \in Orders
  PROVE  /\ d.cap \in Nat \cup {None} /\ d.gib \in Nat /\ d.shown \in Nat \cup {None}
         /\ [d EXCEPT !.shown = None] \in Orders
BY SpendingAssumption DEF Orders, Caps

\* The types of what a step of call c about thing o reads.
LEMMA Types ==
  ASSUME TypeOK
  PROVE  /\ price \in Nat /\ price \in Caps
         /\ \A o \in Things :
              /\ rate[o] \in Nat /\ gib[o] \in Nat /\ order[o] \in Orders
              /\ limit[o] \in Nat \cup {None} /\ settings[o] \in Settings /\ agreed[o] \in Settings
         /\ \A c \in Calls : request[c] \in Requests /\ shown[c] \in Nat \cup {None}
BY SpendingAssumption DEF TypeOK, Caps

-----------------------------------------------------------------------------
(* Steps that leave a call or a thing alone *)

\* What no step undoes: a thing keeps its kind, is never unused again, keeps its storage
\* while it exists, and what was agreed to for it never goes down.
Onward ==
  \A o \in Things : state[o] # "none" =>
    /\ kind'[o] = kind[o] /\ state'[o] # "none"
    /\ state[o] = "gone" => state'[o] = "gone"
    /\ state'[o] # "gone" => gib'[o] >= gib[o]
    /\ agreed'[o].cap >= agreed[o].cap /\ agreed'[o].replicas >= agreed[o].replicas

\* The step is not the call's own, and its question goes only if what it rests on does.
Stands(c) ==
  /\ pc'[c] = pc[c] /\ on'[c] = on[c] /\ request'[c] = request[c]
  /\ shown'[c] # None =>
       /\ shown'[c] = shown[c]
       /\ price' = price \/ request[c].tool \in {"delete_pod", "deploy_serving", "scale_serving"}
       /\ request[c].tool \in {"start_pod", "delete_pod", "scale_serving"} =>
            gib'[on[c]] = gib[on[c]] /\ settings'[on[c]] = settings[on[c]]

LEMMA CallStands ==
  ASSUME IInv, TypeOK', NEW c \in Calls, Onward, Stands(c)
  PROVE  Fine(c)'
<1>1. Fine(c) /\ request[c] \in Requests
  BY Types DEF IInv
<1>2. \A k : About(c, k) => About(c, k)'
  BY DEF About, Onward, Stands
<1>3. \A k : About(c, k) => on[c] \in Things /\ state[on[c]] # "none"
  BY DEF About
<1>4. Aimed(c)'
  <2>1. ASSUME request[c].tool = "delete_pod"
        PROVE  state'[on[c]] = "gone" \/ request[c].gib <= gib'[on[c]]
    <3>1. on[c] \in Things /\ state[on[c]] # "none"
          /\ (state[on[c]] = "gone" \/ request[c].gib <= gib[on[c]])
      BY <1>1, <1>3, <2>1 DEF Fine, Aimed
    <3>2. gib[on[c]] \in Nat /\ request[c].gib \in Nat /\ gib'[on[c]] \in Nat
      BY <1>1, <3>1, RequestType DEF IInv, TypeOK
    <3>3. CASE state'[on[c]] = "gone"
      BY <3>3
    <3>4. ASSUME state'[on[c]] # "gone" PROVE request[c].gib <= gib'[on[c]]
      <4>1. state[on[c]] # "gone" /\ gib'[on[c]] >= gib[on[c]]
        BY <3>1, <3>4 DEF Onward
      <4>2. QED
        BY <3>1, <3>2, <4>1
    <3>5. QED
      BY <3>3, <3>4
  <2>2. QED
    BY <1>1, <1>2, <2>1 DEF Fine, Aimed, Stands
<1>5. Promised(c)'
  BY <1>1 DEF Fine, Promised, Stands, PodEstimate, VolumePrice
<1>6. Unraised(c)'
  <2>1. SUFFICES ASSUME pc[c] = "unasked"
                 PROVE  /\ Fits(request[c], agreed'[on[c]])
                        /\ shown'[c] # None => Fits(request[c], settings'[on[c]])
    BY DEF Unraised, Stands
  <2>2. on[c] \in Things /\ state[on[c]] # "none" /\ request[c].tool = "scale_serving"
    BY <1>1, <1>3, <2>1 DEF Fine, Aimed
  <2>3. /\ request[c].cap \in Nat \cup {None} /\ request[c].replicas \in Nat \cup {None}
        /\ agreed[on[c]].cap \in Nat /\ agreed[on[c]].replicas \in Nat
        /\ agreed'[on[c]].cap \in Nat /\ agreed'[on[c]].replicas \in Nat
    BY <1>1, <2>2, RequestType, SpendingAssumption DEF IInv, TypeOK, Settings
  <2>4. /\ agreed'[on[c]].cap >= agreed[on[c]].cap
        /\ agreed'[on[c]].replicas >= agreed[on[c]].replicas
    BY <2>2 DEF Onward
  <2>5. Fits(request[c], agreed[on[c]])
    BY <1>1, <2>1 DEF Fine, Unraised
  <2>6. Fits(request[c], agreed'[on[c]])
    BY <2>3, <2>4, <2>5 DEF Fits
  <2>7. shown'[c] # None => Fits(request[c], settings'[on[c]])
    BY <1>1, <2>1, <2>2 DEF Fine, Unraised, Stands
  <2>8. QED
    BY <2>6, <2>7
<1>7. QED
  BY <1>4, <1>5, <1>6 DEF Fine

LEMMA CallsStand ==
  ASSUME IInv, TypeOK', Onward, \A c \in Calls : Stands(c)
  PROVE  \A c \in Calls : Fine(c)'
BY CallStands

\* What is said of a thing depends on that thing only, and on the price as long as an
\* order for it stands.
LEMMA ThingStands ==
  ASSUME NEW o \in Things, Sound(o),
         state'[o] = state[o], kind'[o] = kind[o], rate'[o] = rate[o], gib'[o] = gib[o],
         limit'[o] = limit[o], settings'[o] = settings[o], agreed'[o] = agreed[o],
         \/ order'[o] = order[o] /\ price' = price
         \/ /\ order'[o].cap = order[o].cap /\ order'[o].gib = order[o].gib
            /\ order'[o].shown = None
  PROVE  Sound(o)'
BY DEF Sound, Ordered, Within, Covered, Serves

\* What ends a call, and which questions it leaves standing.
LEMMA Ended ==
  ASSUME TypeOK, NEW c \in Calls, NEW S, EndCall(c, S)
  PROVE  /\ pc' \in [Calls -> {"idle", "shown", "sent", "unasked"}]
         /\ on' \in [Calls -> Things \cup {None}] /\ request' \in [Calls -> Requests]
         /\ shown' \in [Calls -> Nat \cup {None}]
         /\ Fine(c)'
         /\ \A d \in Calls \ {c} :
              /\ pc'[d] = pc[d] /\ on'[d] = on[d] /\ request'[d] = request[d]
              /\ shown'[d] = IF d \in S THEN None ELSE shown[d]
<1>1. /\ pc' \in [Calls -> {"idle", "shown", "sent", "unasked"}]
      /\ on' \in [Calls -> Things \cup {None}] /\ request' \in [Calls -> Requests]
      /\ shown' \in [Calls -> Nat \cup {None}]
      /\ pc'[c] = "idle" /\ request'[c] = NoRequest /\ shown'[c] = None
      /\ \A d \in Calls \ {c} :
           /\ pc'[d] = pc[d] /\ on'[d] = on[d] /\ request'[d] = request[d]
           /\ shown'[d] = IF d \in S THEN None ELSE shown[d]
  BY NoneTypes DEF EndCall, TypeOK
<1>2. Fine(c)'
  BY <1>1, NoneTypes DEF Fine, Aimed, Promised, Unraised
<1>3. QED
  BY <1>1, <1>2

LEMMA InitIInv == Init => IInv
<1> SUFFICES ASSUME Init PROVE IInv
  OBVIOUS
<1>1. Nothing \in Settings
  BY SpendingAssumption DEF Settings, Nothing
<1>2. TypeOK
  BY <1>1, NoneTypes DEF Init, TypeOK
<1>3. \A c \in Calls : Fine(c)
  BY NoneTypes DEF Init, Fine, Aimed, Promised, Unraised
<1>4. \A o \in Things : Sound(o)
  BY DEF Init, Sound, Ordered, Within, Covered, Serves
<1>5. QED
  BY <1>2, <1>3, <1>4 DEF IInv

-----------------------------------------------------------------------------
(* Questions *)

\* A new question is sound if what it says is.
LEMMA AskStep ==
  ASSUME IInv, NEW c \in Calls, NEW o \in Things \cup {None}, NEW r \in Requests,
         NEW q \in Nat \cup {None}, Ask(c, o, r, q), Aimed(c)', Promised(c)'
  PROVE  IInv'
<1>1. TypeOK'
  BY DEF IInv, TypeOK, Ask, things, servings
<1>2. Onward
  BY Types, SettingsType DEF IInv, Onward, Ask, things, servings
<1>3. ASSUME NEW d \in Calls \ {c} PROVE Fine(d)'
  <2>1. Stands(d)
    BY DEF Stands, Ask, things, servings, IInv, TypeOK
  <2>2. QED
    BY <1>1, <1>2, <2>1, CallStands
<1>4. Unraised(c)'
  BY DEF Unraised, Ask, IInv, TypeOK
<1>5. \A d \in Things : Sound(d)'
  BY ThingStands DEF IInv, Ask, things, servings
<1>6. QED
  BY <1>1, <1>3, <1>4, <1>5 DEF IInv, Fine

\* What the call then has.
LEMMA AskedOf ==
  ASSUME TypeOK, NEW c \in Calls, NEW o, NEW r, NEW q, Ask(c, o, r, q)
  PROVE  /\ pc'[c] = "shown" /\ on'[c] = o /\ request'[c] = r /\ shown'[c] = q
         /\ price' = price /\ state' = state /\ kind' = kind /\ gib' = gib /\ settings' = settings
BY DEF TypeOK, Ask, things, servings

LEMMA NewStep ==
  ASSUME IInv, NEW c \in Calls,
         CreatePod(c) \/ SubmitTask(c) \/ CreateStorage(c) \/ DeployServing(c)
  PROVE  IInv'
<1>t. TypeOK /\ price \in Nat
  BY Types DEF IInv
<1>1. CASE CreatePod(c)
  <2>1. PICK cap \in Caps \cup {None}, size \in 0 .. DISK :
          AskNew(c, Asks("create_pod", cap, size, None),
                 PodEstimate(Asks("create_pod", cap, size, None)))
    BY <1>1 DEF CreatePod
  <2> DEFINE r == Asks("create_pod", cap, size, None)
  <2>2. r \in Requests /\ r.tool = "create_pod"
    BY SpendingAssumption DEF r, Asks, Requests, Tools
  <2> HIDE DEF r
  <2>3. Ask(c, None, r, PodEstimate(r)) /\ PodEstimate(r) \in Nat
    BY <1>t, <2>1, <2>2, RequestType DEF AskNew, PodEstimate, r
  <2>4. Aimed(c)' /\ Promised(c)'
    BY <1>t, <2>2, <2>3, AskedOf DEF Aimed, Promised, PodEstimate
  <2>5. QED
    BY <2>2, <2>3, <2>4, AskStep
<1>2. CASE SubmitTask(c)
  <2>1. PICK cap \in Caps \cup {None}, q \in {price, None} :
          AskNew(c, Asks("submit_task", cap, 0, None), q)
    BY <1>2 DEF SubmitTask
  <2> DEFINE r == Asks("submit_task", cap, 0, None)
  <2>2. r \in Requests /\ r.tool = "submit_task" /\ r.gib = 0
    BY SpendingAssumption DEF r, Asks, Requests, Tools, Caps
  <2> HIDE DEF r
  <2>3. Ask(c, None, r, q) /\ q \in Nat \cup {None} /\ (q # None => q = PodEstimate(r))
    BY <1>t, <2>1, <2>2 DEF AskNew, PodEstimate, r
  <2>4. Aimed(c)' /\ Promised(c)'
    BY <1>t, <2>2, <2>3, AskedOf DEF Aimed, Promised, PodEstimate
  <2>5. QED
    BY <2>2, <2>3, <2>4, AskStep
<1>3. CASE CreateStorage(c)
  <2>1. PICK cap \in Caps \cup {None}, size \in 1 .. DISK :
          AskNew(c, Asks("create_storage", cap, size, None), VolumePrice(size))
    BY <1>3 DEF CreateStorage
  <2> DEFINE r == Asks("create_storage", cap, size, None)
  <2>2. r \in Requests /\ r.tool = "create_storage" /\ r.gib = size /\ size \in Nat
    BY SpendingAssumption DEF r, Asks, Requests, Tools, Caps
  <2> HIDE DEF r
  <2>3. Ask(c, None, r, VolumePrice(size)) /\ VolumePrice(size) \in Nat
    BY <1>t, <2>1, <2>2 DEF AskNew, VolumePrice, r
  <2>4. Aimed(c)' /\ Promised(c)'
    BY <1>t, <2>2, <2>3, AskedOf DEF Aimed, Promised, VolumePrice
  <2>5. QED
    BY <2>2, <2>3, <2>4, AskStep
<1>4. CASE DeployServing(c)
  <2>1. PICK cap \in Caps, n \in 1 .. REPLICAS :
          AskNew(c, Asks("deploy_serving", cap, 0, n), Ceiling(Asks("deploy_serving", cap, 0, n)))
    BY <1>4 DEF DeployServing
  <2> DEFINE r == Asks("deploy_serving", cap, 0, n)
  <2>2. r \in Requests /\ r.tool = "deploy_serving" /\ r.cap = cap /\ r.replicas = n
        /\ cap \in Nat /\ n \in Nat
    BY SpendingAssumption DEF r, Asks, Requests, Tools, Caps
  <2> HIDE DEF r
  <2>3. Ask(c, None, r, Ceiling(r)) /\ Ceiling(r) \in Nat
    BY <2>1, <2>2 DEF AskNew, Ceiling, r
  <2>4. Aimed(c)' /\ Promised(c)'
    BY <1>t, <2>2, <2>3, AskedOf, SpendingAssumption DEF Aimed, Promised
  <2>5. QED
    BY <2>2, <2>3, <2>4, AskStep
<1>5. QED
  BY <1>1, <1>2, <1>3, <1>4

LEMMA AboutStep ==
  ASSUME IInv, NEW c \in Calls, NEW o \in Things,
         UpdatePod(c, o) \/ StartPod(c, o) \/ DeletePod(c, o) \/ UpdateStorage(c, o)
  PROVE  IInv'
<1>t. TypeOK /\ price \in Nat /\ gib[o] \in Nat
  BY Types DEF IInv
<1>1. CASE UpdatePod(c, o)
  <2>1. PICK cap \in Caps \cup {None}, size \in 0 .. DISK :
          AskAbout(c, o, "pod", Asks("update_pod", cap, size, None),
                   PodEstimate(Asks("update_pod", cap, size, None)))
    BY <1>1 DEF UpdatePod
  <2> DEFINE r == Asks("update_pod", cap, size, None)
  <2>2. r \in Requests /\ r.tool = "update_pod"
    BY SpendingAssumption DEF r, Asks, Requests, Tools
  <2> HIDE DEF r
  <2>3. Ask(c, o, r, PodEstimate(r)) /\ PodEstimate(r) \in Nat
        /\ kind[o] = "pod" /\ state[o] # "none"
    BY <1>t, <2>1, <2>2, RequestType DEF AskAbout, PodEstimate, r
  <2>4. Aimed(c)' /\ Promised(c)'
    BY <1>t, <2>2, <2>3, AskedOf DEF Aimed, About, Promised, PodEstimate
  <2>5. QED
    BY <2>2, <2>3, <2>4, AskStep
<1>2. CASE StartPod(c, o)
  <2> DEFINE r == Asks("start_pod", None, 0, None)
  <2>2. r \in Requests /\ r.tool = "start_pod" /\ r.cap = None /\ r.gib = 0
    BY SpendingAssumption DEF r, Asks, Requests, Tools
  <2> HIDE DEF r
  <2>3. Ask(c, o, r, price + gib[o]) /\ price + gib[o] \in Nat
        /\ kind[o] = "pod" /\ state[o] # "none"
    BY <1>t, <1>2 DEF StartPod, StartQuestion, AskAbout, r
  <2>4. Aimed(c)' /\ Promised(c)'
    BY <1>t, <2>2, <2>3, AskedOf DEF Aimed, About, Promised
  <2>5. QED
    BY <2>2, <2>3, <2>4, AskStep
<1>3. CASE DeletePod(c, o)
  <2>1. PICK listed \in 0 .. DISK :
          /\ listed <= gib[o]
          /\ AskAbout(c, o, "pod", Asks("delete_pod", None, listed, None), gib[o] - listed)
    BY <1>3 DEF DeletePod
  <2> DEFINE r == Asks("delete_pod", None, listed, None)
  <2>2. r \in Requests /\ r.tool = "delete_pod" /\ r.gib = listed /\ listed \in Nat
    BY SpendingAssumption DEF r, Asks, Requests, Tools
  <2> HIDE DEF r
  <2>3. Ask(c, o, r, gib[o] - listed) /\ gib[o] - listed \in Nat
        /\ kind[o] = "pod" /\ state[o] # "none"
    BY <1>t, <2>1, <2>2 DEF AskAbout, r
  <2>4. Aimed(c)' /\ Promised(c)'
    BY <1>t, <2>1, <2>2, <2>3, AskedOf DEF Aimed, About, Promised
  <2>5. QED
    BY <2>2, <2>3, <2>4, AskStep
<1>4. CASE UpdateStorage(c, o)
  <2>1. PICK size \in 1 .. DISK :
          AskAbout(c, o, "storage", Asks("update_storage", None, size, None), VolumePrice(size))
    BY <1>4 DEF UpdateStorage
  <2> DEFINE r == Asks("update_storage", None, size, None)
  <2>2. r \in Requests /\ r.tool = "update_storage" /\ r.gib = size /\ r.cap = None /\ size \in Nat
    BY SpendingAssumption DEF r, Asks, Requests, Tools
  <2> HIDE DEF r
  <2>3. Ask(c, o, r, VolumePrice(size)) /\ VolumePrice(size) \in Nat
        /\ kind[o] = "storage" /\ state[o] # "none"
    BY <1>t, <2>1, <2>2 DEF AskAbout, VolumePrice, r
  <2>4. Aimed(c)' /\ Promised(c)'
    BY <1>t, <2>2, <2>3, AskedOf DEF Aimed, About, Promised, VolumePrice
  <2>5. QED
    BY <2>2, <2>3, <2>4, AskStep
<1>5. QED
  BY <1>1, <1>2, <1>3, <1>4

\* A scaling that raises nothing asks for no more than there is.
LEMMA RaisesOrFits ==
  ASSUME NEW s \in Settings, NEW r \in Requests, ~RaisesCost(s, r)
  PROVE  Fits(r, s)
<1>1. /\ s.cap \in Nat /\ s.replicas \in Nat
      /\ r.cap \in Nat \cup {None} /\ r.replicas \in Nat \cup {None}
  BY SettingsType, RequestType
<1>2. QED
  BY <1>1 DEF RaisesCost, Fits

LEMMA ScaleServingStep ==
  ASSUME IInv, NEW c \in Calls, NEW o \in Things, ScaleServing(c, o)
  PROVE  IInv'
<1>t. TypeOK /\ settings[o] \in Settings
  BY Types DEF IInv
<1>1. PICK cap \in Caps \cup {None}, n \in (1 .. REPLICAS) \cup {None} :
        AskAbout(c, o, "serving", Asks("scale_serving", cap, 0, n),
                 Ceiling(Applied(settings[o], Asks("scale_serving", cap, 0, n))))
  BY DEF ScaleServing
<1> DEFINE r == Asks("scale_serving", cap, 0, n)
<1>2. r \in Requests /\ r.tool = "scale_serving"
  BY SpendingAssumption DEF r, Asks, Requests, Tools
<1> HIDE DEF r
<1>3. Ask(c, o, r, Ceiling(Applied(settings[o], r))) /\ kind[o] = "serving" /\ state[o] # "none"
  BY <1>1 DEF AskAbout, r
<1>4. Ceiling(Applied(settings[o], r)) \in Nat
  BY <1>t, <1>2, AppliedType, SettingsType
<1>5. Aimed(c)' /\ Promised(c)'
  BY <1>t, <1>2, <1>3, AskedOf DEF Aimed, About, Promised
<1>6. QED
  BY <1>2, <1>3, <1>4, <1>5, AskStep

LEMMA ScaleUnaskedStep ==
  ASSUME IInv, NEW c \in Calls, NEW o \in Things, ScaleUnasked(c, o)
  PROVE  IInv'
<1>t. TypeOK /\ settings[o] \in Settings /\ agreed[o] \in Settings
  BY Types DEF IInv
<1>1. PICK r \in Requests :
        /\ r.tool = "scale_serving" /\ ~RaisesCost(settings[o], r)
        /\ request' = [request EXCEPT ![c] = r]
        /\ shown' = [shown EXCEPT ![c] = Ceiling(Applied(settings[o], r))]
  <2>1. PICK cap \in Caps \cup {None}, n \in (1 .. REPLICAS) \cup {None} :
          LET r == Asks("scale_serving", cap, 0, n)
          IN  /\ ~RaisesCost(settings[o], r)
              /\ request' = [request EXCEPT ![c] = r]
              /\ shown' = [shown EXCEPT ![c] = Ceiling(Applied(settings[o], r))]
    BY DEF ScaleUnasked
  <2> DEFINE r == Asks("scale_serving", cap, 0, n)
  <2>2. r \in Requests /\ r.tool = "scale_serving"
    BY SpendingAssumption DEF r, Asks, Requests, Tools
  <2> HIDE DEF r
  <2>3. QED
    BY <2>1, <2>2 DEF r
<1>2. /\ pc' = [pc EXCEPT ![c] = "unasked"] /\ on' = [on EXCEPT ![c] = o]
      /\ UNCHANGED <<price, kind, state, rate, gib, order, limit, settings, agreed>>
      /\ Serves(o) /\ state[o] # "none" /\ kind[o] = "serving"
  BY DEF ScaleUnasked, Serves, things, servings
<1>3. Ceiling(Applied(settings[o], r)) \in Nat
  BY <1>t, AppliedType, SettingsType
<1>4. TypeOK'
  BY <1>1, <1>2, <1>3 DEF IInv, TypeOK
<1>5. Onward
  BY <1>2, Types, SettingsType DEF IInv, Onward
<1>6. \A d \in Calls \ {c} : Fine(d)'
  <2>1. \A d \in Calls \ {c} : Stands(d)
    BY <1>1, <1>2 DEF Stands, IInv, TypeOK
  <2>2. QED
    BY <1>4, <1>5, <2>1, CallStands
<1>7. /\ pc'[c] = "unasked" /\ on'[c] = o /\ request'[c] = r
      /\ shown'[c] = Ceiling(Applied(settings[o], r))
  BY <1>1, <1>2 DEF IInv, TypeOK
<1>8. Aimed(c)' /\ Promised(c)'
  BY <1>1, <1>2, <1>7 DEF Aimed, About, Promised
<1>9. Unraised(c)'
  <2>1. Fits(r, settings[o])
    BY <1>t, <1>1, RaisesOrFits
  <2>2. settings[o].cap <= agreed[o].cap /\ settings[o].replicas <= agreed[o].replicas
    BY <1>2 DEF IInv, Sound, Covered
  <2>3. Fits(r, agreed[o])
    BY <1>t, <2>1, <2>2, SettingsType, RequestType DEF Fits
  <2>4. QED
    BY <1>2, <1>7, <2>1, <2>3 DEF Unraised
<1>10. \A d \in Things : Sound(d)'
  BY <1>2, ThingStands DEF IInv
<1>11. QED
  BY <1>4, <1>6, <1>8, <1>9, <1>10 DEF IInv, Fine

LEMMA ConfirmStep ==
  ASSUME IInv, NEW c \in Calls, Confirm(c)
  PROVE  IInv'
<1>1. TypeOK'
  BY DEF IInv, TypeOK, Confirm, things, servings
<1>2. \A d \in Calls : Fine(d)'
  BY DEF IInv, TypeOK, Confirm, things, servings, Fine, Aimed, About, Promised, PodEstimate,
     VolumePrice, Unraised
<1>3. \A d \in Things : Sound(d)'
  BY ThingStands DEF IInv, Confirm, things, servings
<1>4. QED
  BY <1>1, <1>2, <1>3 DEF IInv

LEMMA GiveUpStep ==
  ASSUME IInv, NEW c \in Calls, GiveUp(c)
  PROVE  IInv'
<1>1. EndCall(c, {}) /\ UNCHANGED <<price, kind, state, rate, gib, order, limit, settings, agreed>>
  BY DEF GiveUp, things, servings
<1>2. TypeOK'
  BY <1>1, Ended DEF IInv, TypeOK
<1>3. Onward
  BY <1>1, Types, SettingsType DEF IInv, Onward
<1>4. \A d \in Calls \ {c} : Stands(d)
  BY <1>1, Ended DEF IInv, Stands
<1>5. \A d \in Calls : Fine(d)'
  BY <1>1, <1>2, <1>3, <1>4, CallStands, Ended DEF IInv
<1>6. \A d \in Things : Sound(d)'
  BY <1>1, ThingStands DEF IInv
<1>7. QED
  BY <1>2, <1>5, <1>6 DEF IInv

-----------------------------------------------------------------------------
(* What the API makes of a call *)

\* What is ordered is what the question was about.
LEMMA QueuesStep ==
  ASSUME IInv, NEW c \in Calls, NEW o \in Things,
         NEW tool \in {"create_pod", "submit_task", "start_pod"}, NEW k \in {"pod", "task"},
         NEW before \in {"none", "stopped"}, NEW after \in {"placing", "starting"},
         Queues(c, o, tool, k, before, after),
         \/ tool # "start_pod" /\ before = "none"
         \/ tool = "start_pod" /\ before = "stopped" /\ k = "pod" /\ on[c] = o
  PROVE  IInv'
<1> DEFINE r == request[c]
<1>t. /\ TypeOK /\ price \in Nat /\ gib[o] \in Nat /\ r \in Requests /\ shown[c] \in Nat \cup {None}
      /\ r.gib \in Nat /\ r.gib \in 0 .. DISK
      /\ r.cap \in Caps \cup {None} /\ r.cap \in Nat \cup {None}
  BY Types, RequestType DEF IInv
<1>1. /\ r.tool = tool /\ state[o] = before
      /\ state' = [state EXCEPT ![o] = after] /\ kind' = [kind EXCEPT ![o] = k]
      /\ order' = [order EXCEPT ![o] = [cap |-> r.cap, gib |-> r.gib, shown |-> shown[c]]]
      /\ limit' = [limit EXCEPT ![o] = r.cap]
      /\ EndCall(c, {})
      /\ UNCHANGED <<price, rate, gib, settings, agreed>>
  BY DEF Queues, Sent, Kwargs, servings
<1>2. before = "stopped" => kind[o] = k
  BY <1>1 DEF IInv, Fine, Aimed, About
<1>3. TypeOK'
  <2>1. [cap |-> r.cap, gib |-> r.gib, shown |-> shown[c]] \in Orders
    BY <1>t DEF Orders
  <2>2. order' \in [Things -> Orders] /\ limit' \in [Things -> Nat \cup {None}]
        /\ state' \in [Things -> {"none", "placing", "starting", "running", "stopped",
                                  "paused", "gone"}]
        /\ kind' \in [Things -> {"pod", "task", "storage", "serving"}]
    BY <1>t, <1>1, <2>1 DEF TypeOK
  <2>3. \A d \in Things : state'[d] # "running" => rate'[d] = 0
    BY <1>t, <1>1 DEF TypeOK
  <2>4. /\ pc' \in [Calls -> {"idle", "shown", "sent", "unasked"}]
        /\ on' \in [Calls -> Things \cup {None}] /\ request' \in [Calls -> Requests]
        /\ shown' \in [Calls -> Nat \cup {None}]
    BY <1>t, <1>1, Ended
  <2>5. QED
    BY <1>t, <1>1, <2>2, <2>3, <2>4 DEF TypeOK
<1>4. Onward
  <2>1. \A d \in Things : state[d] # "none" =>
           kind'[d] = kind[d] /\ state'[d] # "none" /\ (state[d] = "gone" => state'[d] = "gone")
    BY <1>t, <1>1, <1>2 DEF TypeOK
  <2>2. QED
    BY <1>t, <1>1, <2>1, Types, SettingsType DEF Onward
<1>5. \A d \in Calls : Fine(d)'
  <2>1. \A d \in Calls \ {c} : Stands(d)
    BY <1>t, <1>1, Ended DEF Stands
  <2>2. QED
    BY <1>t, <1>1, <1>3, <1>4, <2>1, CallStands, Ended
<1>6. Sound(o)'
  <2>1. /\ state'[o] = after /\ kind'[o] = k /\ limit'[o] = r.cap /\ price' = price
        /\ gib'[o] = gib[o] /\ order'[o].cap = r.cap /\ order'[o].gib = r.gib
        /\ order'[o].shown = shown[c]
    BY <1>t, <1>1 DEF TypeOK
  <2>2. shown[c] # None => shown[c] = price + gib[o] + r.gib
    BY <1>t, <1>1 DEF IInv, Fine, Aimed, Promised, PodEstimate, Sound, Ordered
  <2>3. QED
    BY <2>1, <2>2 DEF Sound, Ordered, Within, Covered, Serves
<1>7. \A d \in Things \ {o} : Sound(d)'
  BY <1>t, <1>1, ThingStands DEF IInv, TypeOK
<1>8. QED
  BY <1>3, <1>5, <1>6, <1>7 DEF IInv

LEMMA PlacedStep ==
  ASSUME IInv, NEW o \in Things, Placed(o)
  PROVE  IInv' /\ (order[o].shown # None => rate'[o] + gib'[o] = order[o].shown)
<1>t. /\ TypeOK /\ price \in Nat /\ gib[o] \in Nat
      /\ order[o].cap \in Nat \cup {None} /\ order[o].gib \in Nat
      /\ limit[o] \in Nat \cup {None} /\ Sound(o)
  BY Types, OrderType DEF IInv
<1>1. /\ state[o] \in {"placing", "starting"} /\ FitsCap(price, order[o].cap)
      /\ state' = [state EXCEPT ![o] = "running"] /\ rate' = [rate EXCEPT ![o] = price]
      /\ gib' = [gib EXCEPT ![o] = @ + order[o].gib]
      /\ order' = [order EXCEPT ![o] = NoOrder]
      /\ \A c \in Calls : shown'[c] = IF c \in Overtaken(o, order[o].gib # 0) THEN None ELSE shown[c]
      /\ shown' \in [Calls -> Nat \cup {None}]
      /\ UNCHANGED <<price, kind, limit, settings, agreed, pc, on, request>>
  BY <1>t DEF Placed, servings, TypeOK
<1>2. TypeOK'
  <2>1. order' \in [Things -> Orders] /\ rate' \in [Things -> Nat] /\ gib' \in [Things -> Nat]
    BY <1>t, <1>1, NoneTypes DEF TypeOK
  <2>2. /\ state' \in [Things -> {"none", "placing", "starting", "running", "stopped",
                                  "paused", "gone"}]
        /\ \A d \in Things : state'[d] # "running" => rate'[d] = 0
    BY <1>t, <1>1 DEF TypeOK
  <2>3. QED
    BY <1>t, <1>1, <2>1, <2>2 DEF TypeOK
<1>3. Onward
  <2>1. \A d \in Things : gib'[d] >= gib[d] /\ (state[d] # "none" => state'[d] # "none")
          /\ (state[d] = "gone" => state'[d] = "gone")
    BY <1>t, <1>1, Types DEF TypeOK
  <2>2. QED
    BY <1>t, <1>1, <2>1, Types, SettingsType DEF Onward
<1>4. \A c \in Calls : Stands(c)
  BY <1>t, <1>1 DEF Stands, Overtaken, TypeOK
<1>5. /\ state'[o] = "running" /\ rate'[o] = price /\ gib'[o] = gib[o] + order[o].gib
      /\ limit'[o] = limit[o] /\ kind'[o] = kind[o]
  BY <1>t, <1>1 DEF TypeOK
<1>6. Sound(o)' /\ (order[o].shown # None => rate'[o] + gib'[o] = order[o].shown)
  BY <1>t, <1>1, <1>5 DEF Sound, Ordered, Within, Covered, Serves, FitsCap
<1>7. \A d \in Things \ {o} : Sound(d)'
  BY <1>t, <1>1, ThingStands DEF IInv, TypeOK
<1>8. QED
  BY <1>2, <1>3, <1>4, <1>6, <1>7, CallsStand DEF IInv

LEMMA NotPlacedStep ==
  ASSUME IInv, NEW o \in Things, NotPlaced(o)
  PROVE  IInv'
<1>1. /\ state[o] \in {"placing", "starting"} /\ TypeOK
      /\ state' = [state EXCEPT ![o] = IF @ = "placing" THEN "gone" ELSE "stopped"]
      /\ order' = [order EXCEPT ![o] = NoOrder]
      /\ UNCHANGED <<price, kind, rate, gib, limit, settings, agreed, pc, on, request, shown>>
  BY DEF NotPlaced, servings, calls, IInv
<1>2. TypeOK'
  BY <1>1, NoneTypes DEF TypeOK
<1>3. Onward
  BY <1>1, Types, SettingsType DEF Onward, TypeOK
<1>4. \A c \in Calls : Stands(c)
  BY <1>1 DEF Stands
<1>5. Sound(o)'
  BY <1>1 DEF IInv, TypeOK, Sound, Ordered, Within, Covered, Serves
<1>6. \A d \in Things \ {o} : Sound(d)'
  BY <1>1, ThingStands DEF IInv, TypeOK
<1>7. QED
  BY <1>2, <1>3, <1>4, <1>5, <1>6, CallsStand DEF IInv

LEMMA VolumeStep ==
  ASSUME IInv, NEW c \in Calls, NEW o \in Things, StorageCreated(c, o) \/ StorageUpdated(c, o)
  PROVE  IInv' /\ kind'[o] = "storage" /\ (shown[c] # None => rate'[o] = shown[c])
<1> DEFINE r == request[c]
<1>t. /\ TypeOK /\ price \in Nat /\ gib[o] \in Nat /\ r \in Requests
      /\ r.gib \in Nat /\ r.cap \in Nat \cup {None} /\ VolumePrice(r.gib) \in Nat
  <2>1. price \in Nat /\ r \in Requests /\ r.gib \in Nat /\ r.cap \in Nat \cup {None}
    BY Types, RequestType DEF IInv
  <2>2. VolumePrice(r.gib) \in Nat
    BY <2>1 DEF VolumePrice
  <2>3. QED
    BY <2>1, <2>2, Types DEF IInv
<1>1. /\ r.tool \in {"create_storage", "update_storage"}
      /\ rate' = [rate EXCEPT ![o] = VolumePrice(r.gib)] /\ gib' = [gib EXCEPT ![o] = r.gib]
      /\ limit' = [limit EXCEPT ![o] = r.cap]
      /\ EndCall(c, {}) /\ UNCHANGED <<price, order, settings, agreed>>
      /\ FitsCap(VolumePrice(r.gib), r.cap)
  BY DEF StorageCreated, StorageUpdated, SizesVolume, Sent, Kwargs, servings, FitsCap,
     IInv, Fine, Aimed
<1>2. /\ state'[o] = "running" /\ kind'[o] = "storage"
      /\ \A d \in Things \ {o} : state'[d] = state[d] /\ kind'[d] = kind[d]
      /\ state' \in [Things -> {"none", "placing", "starting", "running", "stopped",
                                "paused", "gone"}]
      /\ kind' \in [Things -> {"pod", "task", "storage", "serving"}]
      /\ state[o] \in {"none", "running"}
      /\ state[o] # "none" => kind'[o] = kind[o] /\ gib[o] <= r.gib
  <2>1. CASE StorageCreated(c, o)
    BY <1>t, <2>1 DEF StorageCreated, TypeOK
  <2>2. CASE StorageUpdated(c, o)
    <3>1. About(c, "storage") /\ on[c] = o
      BY <2>2 DEF StorageUpdated, Sent, IInv, Fine, Aimed
    <3>2. QED
      BY <1>t, <2>2, <3>1 DEF StorageUpdated, About, TypeOK
  <2>3. QED
    BY <2>1, <2>2
<1>3. /\ rate'[o] = VolumePrice(r.gib) /\ gib'[o] = r.gib /\ limit'[o] = r.cap
      /\ \A d \in Things \ {o} : rate'[d] = rate[d] /\ gib'[d] = gib[d] /\ limit'[d] = limit[d]
  BY <1>t, <1>1 DEF TypeOK
<1>4. TypeOK'
  <2>1. /\ rate' \in [Things -> Nat] /\ gib' \in [Things -> Nat]
        /\ limit' \in [Things -> Nat \cup {None}]
    BY <1>t, <1>1 DEF TypeOK
  <2>2. \A d \in Things : state'[d] # "running" => rate'[d] = 0
    BY <1>t, <1>2, <1>3 DEF TypeOK
  <2>3. /\ pc' \in [Calls -> {"idle", "shown", "sent", "unasked"}]
        /\ on' \in [Calls -> Things \cup {None}] /\ request' \in [Calls -> Requests]
        /\ shown' \in [Calls -> Nat \cup {None}]
    BY <1>t, <1>1, Ended
  <2>4. QED
    BY <1>t, <1>1, <1>2, <2>1, <2>2, <2>3 DEF TypeOK
<1>5. Onward
  <2>1. \A d \in Things : state[d] # "none" =>
          /\ kind'[d] = kind[d] /\ state'[d] # "none" /\ (state[d] = "gone" => state'[d] = "gone")
          /\ gib'[d] >= gib[d]
    BY <1>t, <1>2, <1>3, Types
  <2>2. QED
    BY <1>t, <1>1, <2>1, Types, SettingsType DEF Onward
\* No question that rests on what a thing has is about a volume.
<1>6. \A d \in Calls : Fine(d)'
  <2>1. ASSUME NEW d \in Calls \ {c} PROVE Stands(d)
    <3>1. ASSUME request[d].tool \in {"start_pod", "delete_pod", "scale_serving"}
          PROVE  on[d] \in Things \ {o}
      BY <1>2, <3>1 DEF IInv, Fine, Aimed, About
    <3>2. /\ pc'[d] = pc[d] /\ on'[d] = on[d] /\ request'[d] = request[d] /\ shown'[d] = shown[d]
      BY <1>t, <1>1, Ended
    <3>3. QED
      BY <1>1, <1>3, <3>1, <3>2 DEF Stands
  <2>2. QED
    BY <1>t, <1>1, <1>4, <1>5, <2>1, CallStands, Ended
<1>7. Sound(o)'
  BY <1>t, <1>1, <1>2, <1>3 DEF Sound, Ordered, Within, Covered, Serves, FitsCap
<1>8. \A d \in Things \ {o} : Sound(d)'
  BY <1>1, <1>2, <1>3, ThingStands DEF IInv
<1>9. shown[c] # None => rate'[o] = shown[c]
  BY <1>1, <1>3 DEF IInv, Fine, Promised
<1>10. QED
  BY <1>2, <1>4, <1>6, <1>7, <1>8, <1>9 DEF IInv

LEMMA DeployedStep ==
  ASSUME IInv, NEW c \in Calls, NEW o \in Things, ServingDeployed(c, o)
  PROVE  IInv' /\ (shown[c] # None => Ceiling(settings'[o]) = shown[c])
<1> DEFINE r == request[c]
           s == Applied(Nothing, r)
<1>t. /\ TypeOK /\ r \in Requests /\ r.tool = "deploy_serving" /\ r.cap # None /\ r.replicas # None
  BY Types DEF IInv, ServingDeployed, Sent, Fine, Aimed
<1>1. s \in Settings /\ s.cap = r.cap /\ s.replicas = r.replicas /\ Ceiling(s) \in Nat
      /\ Ceiling(s) = Ceiling(r) /\ s.cap \in Nat /\ s.replicas \in Nat
  <2>1. Nothing \in Settings
    BY SpendingAssumption DEF Nothing, Settings
  <2>2. s \in Settings /\ s.cap = r.cap /\ s.replicas = r.replicas
    BY <1>t, <2>1, AppliedType
  <2>3. QED
    BY <2>2, SettingsType DEF Ceiling
<1>2. /\ state[o] = "none"
      /\ kind' = [kind EXCEPT ![o] = "serving"] /\ state' = [state EXCEPT ![o] = "running"]
      /\ settings' = [settings EXCEPT ![o] = s] /\ agreed' = [agreed EXCEPT ![o] = s]
      /\ limit' = [limit EXCEPT ![o] = Ceiling(s)]
      /\ EndCall(c, {}) /\ UNCHANGED <<price, rate, gib, order>>
  BY DEF ServingDeployed, Kwargs
<1> HIDE DEF s
<1>3. TypeOK'
  <2>1. /\ pc' \in [Calls -> {"idle", "shown", "sent", "unasked"}]
        /\ on' \in [Calls -> Things \cup {None}] /\ request' \in [Calls -> Requests]
        /\ shown' \in [Calls -> Nat \cup {None}]
    BY <1>t, <1>2, Ended
  <2>2. QED
    BY <1>t, <1>1, <1>2, <2>1 DEF TypeOK
<1>4. Onward
  <2>1. \A d \in Things : state[d] # "none" =>
          kind'[d] = kind[d] /\ state'[d] = state[d] /\ gib'[d] = gib[d] /\ agreed'[d] = agreed[d]
    BY <1>t, <1>2 DEF TypeOK
  <2>2. QED
    BY <1>t, <2>1, Types, SettingsType DEF Onward
<1>5. \A d \in Calls : Fine(d)'
  <2>1. ASSUME NEW d \in Calls \ {c} PROVE Stands(d)
    <3>1. ASSUME request[d].tool \in {"start_pod", "delete_pod", "scale_serving"}
          PROVE  on[d] \in Things \ {o}
      BY <1>2, <3>1 DEF IInv, Fine, Aimed, About
    <3>2. /\ pc'[d] = pc[d] /\ on'[d] = on[d] /\ request'[d] = request[d] /\ shown'[d] = shown[d]
      BY <1>t, <1>2, Ended
    <3>3. QED
      BY <1>t, <1>2, <3>1, <3>2 DEF Stands, TypeOK
  <2>2. QED
    BY <1>t, <1>2, <1>3, <1>4, <2>1, CallStands, Ended
<1>6. /\ state'[o] = "running" /\ kind'[o] = "serving" /\ settings'[o] = s /\ agreed'[o] = s
      /\ limit'[o] = Ceiling(s) /\ rate'[o] = 0
  BY <1>t, <1>2 DEF TypeOK
<1>7. Sound(o)'
  BY <1>1, <1>6 DEF Sound, Ordered, Within, Covered, Serves
<1>8. \A d \in Things \ {o} : Sound(d)'
  BY <1>t, <1>2, ThingStands DEF IInv, TypeOK
<1>9. shown[c] # None => Ceiling(settings'[o]) = shown[c]
  BY <1>t, <1>1, <1>6 DEF IInv, Fine, Promised
<1>10. QED
  BY <1>3, <1>5, <1>7, <1>8, <1>9 DEF IInv

LEMMA PodUpdatedStep ==
  ASSUME IInv, NEW c \in Calls, NEW o \in Things, PodUpdated(c, o)
  PROVE  /\ IInv' /\ kind'[o] = "pod"
         /\ shown[c] # None =>
              IF state[o] = "running" THEN rate'[o] + gib'[o] = shown[c] + gib[o]
              ELSE rate'[o] + gib'[o] <= shown[c] + gib[o]
<1> DEFINE r == request[c]
<1>t. /\ TypeOK /\ price \in Nat /\ gib[o] \in Nat /\ r \in Requests
      /\ r.gib \in Nat /\ r.cap \in Nat \cup {None}
  BY Types, RequestType DEF IInv
<1>1. /\ r.tool = "update_pod" /\ on[c] = o /\ state[o] \in {"running", "stopped"}
      /\ FitsCap(price + r.gib, r.cap)
      /\ rate' = [rate EXCEPT ![o] = IF state[o] = "running" THEN price ELSE 0]
      /\ gib' = [gib EXCEPT ![o] = @ + r.gib]
      /\ limit' = [limit EXCEPT ![o] = r.cap]
      /\ EndCall(c, Overtaken(o, r.gib # 0))
      /\ UNCHANGED <<price, kind, state, order, settings, agreed>>
  BY DEF PodUpdated, Sent, Kwargs, PodEstimate, servings
<1>2. kind[o] = "pod"
  BY <1>1 DEF IInv, Fine, Aimed, About
<1>3. /\ rate'[o] = (IF state[o] = "running" THEN price ELSE 0) /\ gib'[o] = gib[o] + r.gib
      /\ limit'[o] = r.cap
      /\ \A d \in Things \ {o} : rate'[d] = rate[d] /\ gib'[d] = gib[d] /\ limit'[d] = limit[d]
  BY <1>t, <1>1 DEF TypeOK
<1>4. TypeOK'
  <2>1. /\ rate' \in [Things -> Nat] /\ gib' \in [Things -> Nat]
        /\ limit' \in [Things -> Nat \cup {None}]
    BY <1>t, <1>1 DEF TypeOK
  <2>2. \A d \in Things : state'[d] # "running" => rate'[d] = 0
    BY <1>t, <1>1, <1>3 DEF TypeOK
  <2>3. /\ pc' \in [Calls -> {"idle", "shown", "sent", "unasked"}]
        /\ on' \in [Calls -> Things \cup {None}] /\ request' \in [Calls -> Requests]
        /\ shown' \in [Calls -> Nat \cup {None}]
    BY <1>t, <1>1, Ended
  <2>4. QED
    BY <1>t, <1>1, <2>1, <2>2, <2>3 DEF TypeOK
<1>5. Onward
  <2>1. \A d \in Things : gib'[d] >= gib[d]
    BY <1>t, <1>3, Types
  <2>2. QED
    BY <1>t, <1>1, <2>1, Types, SettingsType DEF Onward
<1>6. \A d \in Calls : Fine(d)'
  <2>1. ASSUME NEW d \in Calls \ {c} PROVE Stands(d)
    <3>1. /\ pc'[d] = pc[d] /\ on'[d] = on[d] /\ request'[d] = request[d]
          /\ shown'[d] = IF d \in Overtaken(o, r.gib # 0) THEN None ELSE shown[d]
      BY <1>t, <1>1, Ended
    <3>2. ASSUME shown'[d] # None,
                 request[d].tool \in {"start_pod", "delete_pod", "scale_serving"}
          PROVE  gib'[on[d]] = gib[on[d]]
      <4>1. on[d] # o \/ r.gib = 0
        BY <3>1, <3>2 DEF Overtaken
      <4>2. on[d] \in Things
        BY <3>2 DEF IInv, Fine, Aimed, About
      <4>3. QED
        BY <1>t, <1>3, <4>1, <4>2
    <3>3. shown'[d] # None => shown'[d] = shown[d]
      BY <3>1
    <3>4. QED
      BY <1>1, <3>1, <3>2, <3>3 DEF Stands
  <2>2. QED
    BY <1>t, <1>1, <1>4, <1>5, <2>1, CallStands, Ended
<1>7. Sound(o)'
  BY <1>t, <1>1, <1>2, <1>3 DEF Sound, Ordered, Within, Covered, Serves, FitsCap
<1>8. \A d \in Things \ {o} : Sound(d)'
  BY <1>1, <1>3, ThingStands DEF IInv
<1>9. shown[c] # None => shown[c] = price + r.gib
  BY <1>1 DEF IInv, Fine, Promised, PodEstimate
<1>10. QED
  BY <1>t, <1>1, <1>2, <1>3, <1>4, <1>6, <1>7, <1>8, <1>9 DEF IInv

LEMMA PodDeletedStep ==
  ASSUME IInv, NEW c \in Calls, NEW o \in Things, PodDeleted(c, o)
  PROVE  IInv' /\ kind'[o] = "pod" /\ (shown[c] # None => rate'[o] + gib'[o] = shown[c])
<1> DEFINE r == request[c]
           S == Overtaken(o, TRUE)
<1>t. TypeOK /\ gib[o] \in Nat /\ r \in Requests /\ r.gib \in Nat
  BY Types, RequestType DEF IInv
<1>1. /\ r.tool = "delete_pod" /\ on[c] = o /\ state[o] # "gone"
      /\ state' = [state EXCEPT ![o] = "gone"] /\ rate' = [rate EXCEPT ![o] = 0]
      /\ gib' = [gib EXCEPT ![o] = @ - r.gib]
      /\ order' = [order EXCEPT ![o] = NoOrder] /\ EndCall(c, S)
      /\ UNCHANGED <<price, kind, limit, settings, agreed>>
  BY DEF PodDeleted, Sent, Kwargs, servings
<1>e. \A d \in Calls \ S : on[d] # o
         \/ request[d].tool \notin {"start_pod", "delete_pod", "scale_serving"}
  BY DEF Overtaken
<1> HIDE DEF S
<1>2. kind[o] = "pod" /\ r.gib <= gib[o]
  BY <1>1 DEF IInv, Fine, Aimed, About
<1>3. /\ state'[o] = "gone" /\ rate'[o] = 0 /\ gib'[o] = gib[o] - r.gib /\ gib'[o] \in Nat
      /\ \A d \in Things \ {o} : state'[d] = state[d] /\ rate'[d] = rate[d] /\ gib'[d] = gib[d]
                                 /\ order'[d] = order[d]
  BY <1>t, <1>1, <1>2 DEF TypeOK
<1>4. TypeOK'
  <2>1. /\ rate' \in [Things -> Nat] /\ gib' \in [Things -> Nat]
        /\ state' \in [Things -> {"none", "placing", "starting", "running", "stopped",
                                  "paused", "gone"}]
    BY <1>t, <1>1, <1>3 DEF TypeOK
  <2>2. \A d \in Things : state'[d] # "running" => rate'[d] = 0
    BY <1>t, <1>3 DEF TypeOK
  <2>3. /\ pc' \in [Calls -> {"idle", "shown", "sent", "unasked"}]
        /\ on' \in [Calls -> Things \cup {None}] /\ request' \in [Calls -> Requests]
        /\ shown' \in [Calls -> Nat \cup {None}]
    BY <1>t, <1>1, Ended
  <2>4. QED
    BY <1>t, <1>1, <2>1, <2>2, <2>3, NoneTypes DEF TypeOK
<1>5. Onward
  <2>1. \A d \in Things : /\ state'[d] # "gone" => gib'[d] >= gib[d]
                          /\ state[d] # "none" => state'[d] # "none"
                          /\ state[d] = "gone" => state'[d] = "gone"
    BY <1>t, <1>3, Types
  <2>2. QED
    BY <1>t, <1>1, <2>1, Types, SettingsType DEF Onward
<1>6. \A d \in Calls : Fine(d)'
  <2>1. ASSUME NEW d \in Calls \ {c} PROVE Stands(d)
    <3>1. /\ pc'[d] = pc[d] /\ on'[d] = on[d] /\ request'[d] = request[d]
          /\ shown'[d] = IF d \in S THEN None ELSE shown[d]
      BY <1>t, <1>1, Ended
    <3>2. ASSUME shown'[d] # None,
                 request[d].tool \in {"start_pod", "delete_pod", "scale_serving"}
          PROVE  gib'[on[d]] = gib[on[d]]
      <4>1. on[d] # o
        BY <1>e, <3>1, <3>2
      <4>2. on[d] \in Things
        BY <3>2 DEF IInv, Fine, Aimed, About
      <4>3. QED
        BY <1>3, <4>1, <4>2
    <3>3. shown'[d] # None => shown'[d] = shown[d]
      BY <3>1
    <3>4. QED
      BY <1>1, <3>1, <3>2, <3>3 DEF Stands
  <2>2. QED
    BY <1>t, <1>1, <1>4, <1>5, <2>1, CallStands, Ended
<1>7. Sound(o)'
  BY <1>1, <1>3 DEF Sound, Ordered, Within, Covered, Serves
<1>8. \A d \in Things \ {o} : Sound(d)'
  BY <1>1, <1>3, ThingStands DEF IInv
<1>9. shown[c] # None => shown[c] = gib[o] - r.gib
  BY <1>1 DEF IInv, Fine, Promised
<1>10. QED
  BY <1>t, <1>1, <1>2, <1>3, <1>4, <1>6, <1>7, <1>8, <1>9 DEF IInv

\* Settings that become s: within what is agreed then, and no dearer than the limit.
LEMMA SettingsStep ==
  ASSUME IInv, NEW o \in Things, Serves(o), NEW s \in Settings, NEW a \in Settings,
         NEW l \in Nat \cup {None},
         settings' = [settings EXCEPT ![o] = s], agreed' = [agreed EXCEPT ![o] = a],
         limit' = [limit EXCEPT ![o] = l],
         UNCHANGED <<price, kind, state, rate, gib, order>>,
         pc' \in [Calls -> {"idle", "shown", "sent", "unasked"}],
         on' \in [Calls -> Things \cup {None}], request' \in [Calls -> Requests],
         shown' \in [Calls -> Nat \cup {None}],
         agreed[o].cap <= a.cap, agreed[o].replicas <= a.replicas,
         s.cap <= a.cap, s.replicas <= a.replicas,
         l # None => Ceiling(s) <= l /\ limit[o] # None /\ limit[o] <= l
  PROVE  TypeOK' /\ Onward /\ \A d \in Things : Sound(d)'
<1>t. /\ TypeOK /\ rate[o] \in Nat /\ limit[o] \in Nat \cup {None} /\ Sound(o)
  BY Types DEF IInv
<1>1. TypeOK'
  BY <1>t DEF TypeOK
<1>2. /\ settings'[o] = s /\ agreed'[o] = a /\ limit'[o] = l
      /\ \A d \in Things \ {o} :
           settings'[d] = settings[d] /\ agreed'[d] = agreed[d] /\ limit'[d] = limit[d]
  BY <1>t DEF TypeOK
<1>3. Onward
  <2>1. \A d \in Things : agreed'[d].cap >= agreed[d].cap /\ agreed'[d].replicas >= agreed[d].replicas
    BY <1>2, <1>t, Types, SettingsType
  <2>2. QED
    BY <1>t, <2>1, Types DEF Onward
<1>4. Within(o)'
  <2>1. ASSUME l # None, state[o] = "running" PROVE rate[o] <= l
    <3>1. limit[o] # None /\ limit[o] <= l /\ l \in Nat /\ limit[o] \in Nat
      BY <1>t, <2>1
    <3>2. rate[o] <= limit[o]
      BY <1>t, <2>1, <3>1 DEF Sound, Within
    <3>3. QED
      BY <1>t, <3>1, <3>2
  <2>2. QED
    BY <1>2, <2>1 DEF Within
<1>5. Ordered(o)' /\ Covered(o)'
  BY <1>t, <1>2 DEF Sound, Ordered, Covered, Serves
<1>6. \A d \in Things \ {o} : Sound(d)'
  BY <1>2, ThingStands DEF IInv
<1>7. QED
  BY <1>1, <1>3, <1>4, <1>5, <1>6 DEF Sound

LEMMA ScaleWritesStep ==
  ASSUME IInv, NEW c \in Calls, NEW o \in Things, ScaleWrites(c, o)
  PROVE  IInv' /\ kind'[o] = "serving" /\ (shown[c] # None => Ceiling(settings'[o]) = shown[c])
<1> DEFINE r == request[c]
           s == Applied(settings[o], r)
           a == IF pc[c] = "sent" THEN Higher(agreed[o], Applied(agreed[o], r)) ELSE agreed[o]
           l == IF pc[c] = "unasked" /\ shown[c] # None THEN limit[o] ELSE Dearer(limit[o], shown[c])
<1>t. /\ TypeOK /\ settings[o] \in Settings /\ agreed[o] \in Settings /\ r \in Requests
      /\ limit[o] \in Nat \cup {None} /\ shown[c] \in Nat \cup {None}
      /\ r.cap \in Nat \cup {None} /\ r.replicas \in Nat \cup {None}
  BY Types, RequestType DEF IInv
<1>1. /\ pc[c] \in {"sent", "unasked"} /\ r.tool = "scale_serving" /\ on[c] = o /\ Serves(o)
      /\ settings' = [settings EXCEPT ![o] = s] /\ agreed' = [agreed EXCEPT ![o] = a]
      /\ limit' = [limit EXCEPT ![o] = l]
      /\ EndCall(c, Overtaken(o, s # settings[o]))
      /\ UNCHANGED <<price, kind, state, rate, gib, order>>
  BY <1>t DEF ScaleWrites, TypeOK
<1>2. /\ s \in Settings /\ s.cap = (IF r.cap = None THEN settings[o].cap ELSE r.cap)
      /\ s.replicas = (IF r.replicas = None THEN settings[o].replicas ELSE r.replicas)
      /\ s.cap \in Nat /\ s.replicas \in Nat /\ Ceiling(s) \in Nat
  BY <1>t, AppliedType, SettingsType
<1>3. settings[o].cap <= agreed[o].cap /\ settings[o].replicas <= agreed[o].replicas
      /\ (limit[o] # None => Ceiling(settings[o]) <= limit[o])
  BY <1>1 DEF IInv, Sound, Covered
<1>4. shown[c] # None => Ceiling(s) = shown[c]
  BY <1>1 DEF IInv, Fine, Promised
<1>5. /\ a \in Settings /\ agreed[o].cap <= a.cap /\ agreed[o].replicas <= a.replicas
      /\ s.cap <= a.cap /\ s.replicas <= a.replicas
  <2>1. CASE pc[c] = "sent"
    <3> DEFINE b == Applied(agreed[o], r)
    <3>1. /\ b \in Settings /\ b.cap = (IF r.cap = None THEN agreed[o].cap ELSE r.cap)
          /\ b.replicas = (IF r.replicas = None THEN agreed[o].replicas ELSE r.replicas)
      BY <1>t, AppliedType
    <3> HIDE DEF b
    <3>2. /\ Higher(agreed[o], b) \in Settings
          /\ agreed[o].cap <= Higher(agreed[o], b).cap
          /\ agreed[o].replicas <= Higher(agreed[o], b).replicas
          /\ b.cap <= Higher(agreed[o], b).cap /\ b.replicas <= Higher(agreed[o], b).replicas
      BY <1>t, <3>1, HigherAbove
    <3>3. a = Higher(agreed[o], b)
      BY <2>1 DEF b
    <3>4. /\ a.cap \in Nat /\ a.replicas \in Nat /\ agreed[o].cap \in Nat
          /\ agreed[o].replicas \in Nat /\ settings[o].cap \in Nat /\ settings[o].replicas \in Nat
      BY <1>t, <3>2, <3>3, SettingsType
    <3> HIDE DEF a, s
    <3>5. QED
      BY <1>2, <1>3, <3>1, <3>2, <3>3, <3>4
  <2>2. CASE pc[c] = "unasked"
    <3>1. Fits(r, agreed[o])
      BY <1>1, <2>2 DEF IInv, Fine, Unraised
    <3>2. a = agreed[o]
      BY <2>2
    <3>3. agreed[o].cap \in Nat /\ agreed[o].replicas \in Nat
      BY <1>t, SettingsType
    <3> HIDE DEF a, s
    <3>4. QED
      BY <1>t, <1>2, <1>3, <3>1, <3>2, <3>3 DEF Fits
  <2>3. QED
    BY <1>1, <2>1, <2>2
<1>6. /\ l \in Nat \cup {None}
      /\ l # None => Ceiling(s) <= l /\ limit[o] # None /\ limit[o] <= l
  <2>1. CASE pc[c] = "unasked" /\ shown[c] # None
    <3>1. Fits(r, settings[o])
      BY <1>1, <2>1 DEF IInv, Fine, Unraised
    <3>2. Ceiling(s) <= Ceiling(settings[o])
      BY <1>t, <3>1, AppliedFits
    <3>3. Ceiling(settings[o]) \in Nat /\ l = limit[o]
      BY <1>t, <2>1, SettingsType
    <3> HIDE DEF l, s
    <3>4. QED
      BY <1>t, <1>2, <1>3, <3>2, <3>3
  <2>2. CASE ~(pc[c] = "unasked" /\ shown[c] # None)
    <3>1. l = Dearer(limit[o], shown[c])
      BY <2>2
    <3> HIDE DEF l, s
    <3>2. /\ l \in Nat \cup {None}
          /\ l # None => limit[o] # None /\ shown[c] # None /\ limit[o] <= l /\ shown[c] <= l
      BY <1>t, <3>1, DearerAbove
    <3>3. QED
      BY <1>4, <3>2
  <2>3. QED
    BY <2>1, <2>2
<1>7. /\ pc' \in [Calls -> {"idle", "shown", "sent", "unasked"}]
      /\ on' \in [Calls -> Things \cup {None}] /\ request' \in [Calls -> Requests]
      /\ shown' \in [Calls -> Nat \cup {None}] /\ Fine(c)'
      /\ \A d \in Calls \ {c} :
           /\ pc'[d] = pc[d] /\ on'[d] = on[d] /\ request'[d] = request[d]
           /\ shown'[d] = IF d \in Overtaken(o, s # settings[o]) THEN None ELSE shown[d]
  BY <1>t, <1>1, Ended
<1>8. settings'[o] = s /\ \A d \in Things \ {o} : settings'[d] = settings[d]
  BY <1>t, <1>1 DEF TypeOK
<1> HIDE DEF s, a, l, r
<1>9. TypeOK' /\ Onward /\ \A d \in Things : Sound(d)'
  BY <1>1, <1>2, <1>5, <1>6, <1>7, SettingsStep
<1>10. ASSUME NEW d \in Calls \ {c} PROVE Stands(d)
  <2>1. ASSUME shown'[d] # None, request[d].tool \in {"start_pod", "delete_pod", "scale_serving"}
        PROVE  settings'[on[d]] = settings[on[d]]
    <3>1. on[d] # o \/ s = settings[o]
      BY <1>7, <2>1 DEF Overtaken
    <3>2. on[d] \in Things
      BY <2>1 DEF IInv, Fine, Aimed, About
    <3>3. QED
      BY <1>8, <3>1, <3>2
  <2>2. shown'[d] # None => shown'[d] = shown[d]
    BY <1>7
  <2>3. QED
    BY <1>1, <1>7, <2>1, <2>2 DEF Stands
<1>11. \A d \in Calls : Fine(d)'
  BY <1>7, <1>9, <1>10, CallStands
<1>12. QED
  BY <1>1, <1>4, <1>8, <1>9, <1>11 DEF IInv, Serves

-----------------------------------------------------------------------------
(* What else happens *)

LEMMA OtherChangesStep ==
  ASSUME IInv, NEW o \in Things, NEW s \in Choices, OtherChanges(o, s)
  PROVE  IInv'
<1> DEFINE S == Overtaken(o, TRUE)
<1>e. \A d \in Calls \ S : on[d] # o
         \/ request[d].tool \notin {"start_pod", "delete_pod", "scale_serving"}
  BY DEF Overtaken
<1> HIDE DEF S
<1>t. /\ TypeOK /\ settings[o] \in Settings /\ agreed[o] \in Settings /\ s \in Settings
      /\ limit[o] \in Nat \cup {None} /\ Ceiling(s) \in Nat
  <2>1. s \in Settings
    BY SpendingAssumption DEF Choices, Settings, Caps
  <2>2. QED
    BY <2>1, Types, SettingsType DEF IInv
<1>1. /\ Serves(o) /\ settings' = [settings EXCEPT ![o] = s]
      /\ agreed' = [agreed EXCEPT ![o] = Higher(agreed[o], s)]
      /\ limit' = [limit EXCEPT ![o] = Dearer(limit[o], Ceiling(s))]
      /\ shown' = [d \in Calls |-> IF d \in S THEN None ELSE shown[d]]
      /\ UNCHANGED <<price, kind, state, rate, gib, order, pc, on, request>>
  BY <1>t DEF OtherChanges, TypeOK, S
<1>2. /\ Higher(agreed[o], s) \in Settings
      /\ agreed[o].cap <= Higher(agreed[o], s).cap
      /\ agreed[o].replicas <= Higher(agreed[o], s).replicas
      /\ s.cap <= Higher(agreed[o], s).cap /\ s.replicas <= Higher(agreed[o], s).replicas
  BY <1>t, HigherAbove
<1>3. /\ Dearer(limit[o], Ceiling(s)) \in Nat \cup {None}
      /\ Dearer(limit[o], Ceiling(s)) # None =>
           /\ Ceiling(s) <= Dearer(limit[o], Ceiling(s)) /\ limit[o] # None
           /\ limit[o] <= Dearer(limit[o], Ceiling(s))
  BY <1>t, DearerAbove
<1>4. /\ pc' \in [Calls -> {"idle", "shown", "sent", "unasked"}]
      /\ on' \in [Calls -> Things \cup {None}] /\ request' \in [Calls -> Requests]
      /\ shown' \in [Calls -> Nat \cup {None}]
  BY <1>t, <1>1 DEF TypeOK
<1>5. TypeOK' /\ Onward /\ \A d \in Things : Sound(d)'
  BY <1>t, <1>1, <1>2, <1>3, <1>4, SettingsStep
<1>6. ASSUME NEW d \in Calls PROVE Stands(d)
  <2>1. shown'[d] # None => d \notin S /\ shown'[d] = shown[d]
    BY <1>1
  <2>2. ASSUME shown'[d] # None, request[d].tool \in {"start_pod", "delete_pod", "scale_serving"}
        PROVE  settings'[on[d]] = settings[on[d]]
    <3>1. on[d] # o
      BY <1>e, <2>1, <2>2
    <3>2. on[d] \in Things
      BY <2>2 DEF IInv, Fine, Aimed, About
    <3>3. QED
      BY <1>t, <1>1, <3>1, <3>2 DEF TypeOK
  <2>3. QED
    BY <1>1, <2>1, <2>2 DEF Stands
<1>7. QED
  BY <1>5, <1>6, CallsStand DEF IInv

\* A replica is billed at most the serving's cap, and no more than its replicas run: the
\* product is within the worst case, and that within the limit.
LEMMA ReplicasRunStep ==
  ASSUME IInv, NEW o \in Things, NEW n \in 0 .. REPLICAS, ReplicasRun(o, n)
  PROVE  IInv'
<1> DEFINE each == IF price <= settings[o].cap THEN price ELSE settings[o].cap
<1>t. /\ TypeOK /\ Sound(o) /\ price \in Nat /\ n \in Nat /\ settings[o] \in Settings
      /\ settings[o].cap \in Nat /\ settings[o].replicas \in Nat /\ limit[o] \in Nat \cup {None}
  BY Types, SettingsType, SpendingAssumption DEF IInv
<1>1. /\ kind[o] = "serving" /\ state[o] = "running" /\ n <= settings[o].replicas
      /\ rate' = [rate EXCEPT ![o] = n * each]
      /\ UNCHANGED <<price, kind, state, gib, order, limit, settings, agreed, pc, on, request, shown>>
  BY DEF ReplicasRun, servings, calls
<1>2. each \in Nat /\ each <= settings[o].cap
  BY <1>t
<1> HIDE DEF each
<1>3. /\ n * each \in Nat /\ settings[o].replicas * settings[o].cap \in Nat
      /\ n * each <= settings[o].replicas * settings[o].cap
  BY <1>t, <1>1, <1>2, ProductGrows
<1>4. /\ Ceiling(settings[o]) \in Nat /\ n * each <= Ceiling(settings[o])
  BY <1>t, <1>3 DEF Ceiling
<1>5. TypeOK'
  BY <1>t, <1>1, <1>3 DEF TypeOK
<1>6. Onward
  BY <1>t, <1>1, Types, SettingsType DEF Onward
<1>7. \A c \in Calls : Stands(c)
  BY <1>1 DEF Stands
<1>8. rate'[o] = n * each /\ \A d \in Things \ {o} : rate'[d] = rate[d]
  BY <1>t, <1>1 DEF TypeOK
<1>9. Sound(o)'
  <2>1. limit[o] # None => n * each <= limit[o]
    <3>1. limit[o] # None => Ceiling(settings[o]) <= limit[o]
      BY <1>t, <1>1 DEF Sound, Covered, Serves
    <3>2. QED
      BY <1>t, <1>3, <1>4, <3>1
  <2>2. Within(o)'
    BY <1>1, <1>8, <2>1 DEF Within
  <2>3. Ordered(o)' /\ Covered(o)'
    BY <1>t, <1>1 DEF Sound, Ordered, Covered, Serves
  <2>4. QED
    BY <2>2, <2>3 DEF Sound
<1>10. \A d \in Things \ {o} : Sound(d)'
  BY <1>1, <1>8, ThingStands DEF IInv
<1>11. QED
  BY <1>5, <1>6, <1>7, <1>9, <1>10, CallsStand DEF IInv

LEMMA PriceMovesStep ==
  ASSUME IInv, NEW p \in Caps, PriceMoves(p)
  PROVE  IInv'
<1>t. TypeOK
  BY DEF IInv
<1>1. /\ price' = p
      /\ order' = [o \in Things |-> [order[o] EXCEPT !.shown = None]]
      /\ UNCHANGED <<kind, state, rate, gib, limit, settings, agreed, pc, on, request>>
  BY DEF PriceMoves, servings
<1>2. /\ shown' \in [Calls -> Nat \cup {None}]
      /\ \A c \in Calls : shown'[c] # None =>
           /\ shown'[c] = shown[c]
           /\ request[c].tool \notin Tools \ {"delete_pod", "deploy_serving", "scale_serving"}
  BY <1>t DEF PriceMoves, TypeOK
<1>3. TypeOK'
  <2>1. order' \in [Things -> Orders]
    BY <1>1, Types, OrderType, <1>t
  <2>2. QED
    BY <1>t, <1>1, <1>2, <2>1 DEF TypeOK
<1>4. Onward
  BY <1>1, <1>t, Types, SettingsType DEF Onward
<1>5. ASSUME NEW c \in Calls PROVE Fine(c)'
  <2>1. CASE request[c].tool = "none"
    <3>1. pc'[c] = "idle" => request'[c] = NoRequest
      BY <1>1 DEF IInv, Fine, Aimed
    <3>2. pc[c] # "unasked"
      BY <2>1 DEF IInv, Fine, Aimed
    <3>3. QED
      BY <1>1, <2>1, <3>1, <3>2 DEF Fine, Aimed, Promised, Unraised
  <2>2. CASE request[c].tool # "none"
    <3>1. request[c].tool \in Tools
      BY <1>t, <2>2 DEF TypeOK, Requests
    <3>2. Stands(c)
      BY <1>1, <1>2, <3>1 DEF Stands
    <3>3. QED
      BY <1>3, <1>4, <3>2, CallStands
  <2>3. QED
    BY <2>1, <2>2
<1>6. ASSUME NEW o \in Things PROVE Sound(o)'
  <2>1. order'[o].cap = order[o].cap /\ order'[o].gib = order[o].gib /\ order'[o].shown = None
    BY <1>1, Types, <1>t DEF Orders
  <2>2. QED
    BY <1>1, <2>1, ThingStands DEF IInv
<1>7. QED
  BY <1>3, <1>5, <1>6 DEF IInv

\* The pauses, stops and deletions.
Ceases(o) ==
  \/ PauseServing(o) \/ ResumeServing(o) \/ StopPod(o) \/ StopTask(o)
  \/ DeleteStorage(o) \/ DeleteServing(o)

LEMMA CeasesStep ==
  ASSUME IInv, NEW o \in Things, Ceases(o)
  PROVE  IInv'
<1>t. TypeOK /\ Sound(o) /\ limit[o] \in Nat \cup {None}
  BY Types DEF IInv
<1>1. PICK after \in {"stopped", "paused", "running", "gone"} :
        /\ state[o] \notin {"none", "gone"}
        /\ state' = [state EXCEPT ![o] = after] /\ rate' = [rate EXCEPT ![o] = 0]
        /\ order' = [order EXCEPT ![o] = NoOrder]
        /\ UNCHANGED <<price, kind, gib, limit, settings, agreed, pc, on, request, shown>>
        /\ kind[o] = "serving" /\ after # "gone" => state[o] \in {"running", "paused"}
  BY DEF Ceases, PauseServing, ResumeServing, StopPod, StopTask, DeleteStorage, DeleteServing,
     Becomes, Unbilled, servings, calls
<1>2. TypeOK'
  BY <1>t, <1>1, NoneTypes DEF TypeOK
<1>3. Onward
  BY <1>t, <1>1, Types, SettingsType DEF Onward, TypeOK
<1>4. \A c \in Calls : Stands(c)
  BY <1>1 DEF Stands
<1>5. Sound(o)'
  BY <1>t, <1>1 DEF TypeOK, Sound, Ordered, Within, Covered, Serves
<1>6. \A d \in Things \ {o} : Sound(d)'
  BY <1>t, <1>1, ThingStands DEF IInv, TypeOK
<1>7. QED
  BY <1>2, <1>3, <1>4, <1>5, <1>6, CallsStand DEF IInv

-----------------------------------------------------------------------------
(* The theorems *)

\* What each effect of a call bills, against its question.
LEMMA EffectsStep ==
  ASSUME IInv, NEW c \in Calls, NEW o \in Things, Effects(c, o)
  PROVE  /\ IInv'
         /\ shown[c] # None =>
              /\ kind'[o] = "storage" => rate'[o] = shown[c]
              /\ PodUpdated(c, o) =>
                   IF state[o] = "running" THEN rate'[o] + gib'[o] = shown[c] + gib[o]
                   ELSE rate'[o] + gib'[o] <= shown[c] + gib[o]
              /\ PodDeleted(c, o) => rate'[o] + gib'[o] = shown[c]
              /\ kind'[o] = "serving" => Ceiling(settings'[o]) = shown[c]
<1>1. ASSUME PodCreated(c, o) \/ TaskSubmitted(c, o) \/ PodStarted(c, o)
      PROVE  /\ IInv' /\ kind'[o] \in {"pod", "task"}
             /\ request[c].tool \notin {"update_pod", "delete_pod"}
  <2>1. CASE PodCreated(c, o)
    BY <2>1, QueuesStep DEF PodCreated, Queues, Sent, IInv, TypeOK
  <2>2. CASE TaskSubmitted(c, o)
    BY <2>2, QueuesStep DEF TaskSubmitted, Queues, Sent, IInv, TypeOK
  <2>3. CASE PodStarted(c, o)
    BY <2>3, QueuesStep DEF PodStarted, Queues, Sent, IInv, TypeOK
  <2>4. QED
    BY <1>1, <2>1, <2>2, <2>3
<1>2. ASSUME StorageCreated(c, o) \/ StorageUpdated(c, o)
      PROVE  /\ IInv' /\ kind'[o] = "storage" /\ (shown[c] # None => rate'[o] = shown[c])
             /\ request[c].tool \notin {"update_pod", "delete_pod"}
  BY <1>2, VolumeStep DEF StorageCreated, StorageUpdated, Sent
<1>3. ASSUME ServingDeployed(c, o) \/ ScaleWrites(c, o)
      PROVE  /\ IInv' /\ kind'[o] = "serving"
             /\ (shown[c] # None => Ceiling(settings'[o]) = shown[c])
             /\ request[c].tool \notin {"update_pod", "delete_pod"}
  <2>1. CASE ServingDeployed(c, o)
    BY <2>1, DeployedStep DEF ServingDeployed, Sent, IInv, TypeOK
  <2>2. CASE ScaleWrites(c, o)
    BY <2>2, ScaleWritesStep DEF ScaleWrites
  <2>3. QED
    BY <1>3, <2>1, <2>2
<1>4. CASE PodCreated(c, o) \/ TaskSubmitted(c, o) \/ PodStarted(c, o)
  BY <1>1, <1>4 DEF PodUpdated, PodDeleted, Sent
<1>5. CASE StorageCreated(c, o) \/ StorageUpdated(c, o)
  BY <1>2, <1>5 DEF PodUpdated, PodDeleted, Sent
<1>6. CASE ServingDeployed(c, o) \/ ScaleWrites(c, o)
  BY <1>3, <1>6 DEF PodUpdated, PodDeleted, Sent
<1>7. CASE PodUpdated(c, o)
  <2>1. request[c].tool = "update_pod"
    BY <1>7 DEF PodUpdated, Sent
  <2>2. ~PodDeleted(c, o)
    BY <2>1 DEF PodDeleted, Sent
  <2>3. QED
    BY <1>7, <2>2, PodUpdatedStep
<1>8. CASE PodDeleted(c, o)
  <2>1. request[c].tool = "delete_pod"
    BY <1>8 DEF PodDeleted, Sent
  <2>2. ~PodUpdated(c, o)
    BY <2>1 DEF PodUpdated, Sent
  <2>3. QED
    BY <1>8, <2>2, PodDeletedStep
<1>9. QED
  BY <1>4, <1>5, <1>6, <1>7, <1>8 DEF Effects

LEMMA StutterStep == IInv /\ UNCHANGED vars => IInv'
<1> SUFFICES ASSUME IInv, UNCHANGED vars PROVE IInv'
  OBVIOUS
<1>1. UNCHANGED <<price, kind, state, rate, gib, order, limit, settings, agreed, pc, on,
                  request, shown>>
  BY DEF vars, things, servings, calls
<1>2. TypeOK'
  BY <1>1 DEF IInv, TypeOK
<1>3. Onward
  BY <1>1, Types, SettingsType DEF Onward, IInv
<1>4. \A c \in Calls : Stands(c)
  BY <1>1 DEF Stands
<1>5. \A o \in Things : Sound(o)'
  BY <1>1, ThingStands DEF IInv
<1>6. QED
  BY <1>2, <1>3, <1>4, <1>5, CallsStand DEF IInv

LEMMA NextIInv == IInv /\ [Next]_vars => IInv'
<1> SUFFICES ASSUME IInv, [Next]_vars PROVE IInv'
  OBVIOUS
<1>1. ASSUME NEW c \in Calls, Questions(c) PROVE IInv'
  BY <1>1, NewStep, AboutStep, ScaleServingStep, ScaleUnaskedStep DEF Questions
<1>2. ASSUME NEW c \in Calls, Confirm(c) \/ GiveUp(c) PROVE IInv'
  BY <1>2, ConfirmStep, GiveUpStep
<1>3. ASSUME NEW c \in Calls, NEW o \in Things, Effects(c, o) PROVE IInv'
  BY <1>3, EffectsStep
<1>4. ASSUME NEW o \in Things, Placed(o) \/ NotPlaced(o) PROVE IInv'
  BY <1>4, PlacedStep, NotPlacedStep
<1>5. ASSUME NEW o \in Things, \E n \in 0 .. REPLICAS : ReplicasRun(o, n) PROVE IInv'
  BY <1>5, ReplicasRunStep
<1>6. ASSUME NEW o \in Things, \E s \in Choices : OtherChanges(o, s) PROVE IInv'
  BY <1>6, OtherChangesStep
<1>7. ASSUME NEW o \in Things, Ceases(o) PROVE IInv'
  BY <1>7, CeasesStep
<1>8. ASSUME NEW p \in Caps, PriceMoves(p) PROVE IInv'
  BY <1>8, PriceMovesStep
<1>9. CASE UNCHANGED vars
  BY <1>9, StutterStep
<1>10. QED
  BY <1>1, <1>2, <1>3, <1>4, <1>5, <1>6, <1>7, <1>8, <1>9 DEF Next, Ceases

\* The inductive invariant: while what a question rests on stands, it is what its call
\* would bill, whatever other calls have done (tools/write_pods.py, write_storages.py and
\* write_serverless.py keep nothing between calls).
THEOREM Invariance == Spec => []IInv
<1>1. QED
  BY InitIInv, NextIInv, PTL DEF Spec

\* The types, and nothing that does not run has a compute rate.
THEOREM TypeCorrect == Spec => []TypeOK
<1>1. IInv => TypeOK
  BY DEF IInv
<1>2. QED
  BY Invariance, <1>1, PTL

\* Nothing costs more per hour than the most the user set or agreed to at any one time,
\* unless a scaling was overtaken by another change (max_price_per_hour,
\* price_cap_per_hour and the worst case of deploy_serving and scale_serving).
THEOREM CostsAreLimited == Spec => []NeverAboveLimit
<1>1. IInv => NeverAboveLimit
  BY DEF IInv, Sound, Within, NeverAboveLimit
<1>2. QED
  BY Invariance, <1>1, PTL

\* No setting of a serving passes what the user set or agreed to (scale_serving).
THEOREM CostsAreAgreed == Spec => []NeverAboveAgreed
<1>1. IInv => NeverAboveAgreed
  BY DEF IInv, Sound, Covered, NeverAboveAgreed
<1>2. QED
  BY Invariance, <1>1, PTL

\* A call makes the user pay what its question said as long as what the question rests on
\* stands, whatever other calls take effect in between.
THEOREM BilledAsQuoted == Spec => PaidAsShown
<1>1. IInv /\ [Next]_vars =>
        [/\ \A o \in Things :
              Placed(o) /\ order[o].shown # None => rate'[o] + gib'[o] = order[o].shown
         /\ \A c \in Calls, o \in Things : shown[c] # None /\ pc'[c] = "idle" /\ Effects(c, o) =>
              /\ kind'[o] = "storage" => rate'[o] = shown[c]
              /\ PodUpdated(c, o) =>
                   IF state[o] = "running" THEN rate'[o] + gib'[o] = shown[c] + gib[o]
                   ELSE rate'[o] + gib'[o] <= shown[c] + gib[o]
              /\ PodDeleted(c, o) => rate'[o] + gib'[o] = shown[c]
              /\ kind'[o] = "serving" => Ceiling(settings'[o]) = shown[c]]_vars
  BY EffectsStep, PlacedStep
<1>2. QED
  BY Invariance, <1>1, PTL DEF Spec, PaidAsShown
=============================================================================
