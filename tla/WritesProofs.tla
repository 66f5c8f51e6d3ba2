---------------------------- MODULE WritesProofs ----------------------------
(***************************************************************************)
(* Proofs about Writes, for any calls, intents, ids and number of          *)
(* attempts: nothing is sent under an id the agent does not have, nothing  *)
(* takes effect twice, and what the agent is told of it is true.  Together *)
(* with who may still have a request on its way, this gives the refinement *)
(* of OnceOnly.  With two attempts, every call is answered.                *)
(***************************************************************************)
EXTENDS Writes, TLAPS

Entered(c) == pc[c] # "idle"

\* An id stands for one intent, whoever uses it: the agent, a call or a request.
IdsApart ==
  /\ \A i \in Intents : known[i] # None => known[i] \in issued
  /\ \A c \in Calls : Entered(c) => op[c] \in issued /\ intent[c] \in Intents
  /\ \A i, j \in Intents : known[i] # None /\ known[i] = known[j] => i = j
  /\ \A c, d \in Calls : Entered(c) /\ Entered(d) /\ op[c] = op[d] => intent[c] = intent[d]
  /\ \A c \in Calls, i \in Intents : Entered(c) /\ op[c] = known[i] => intent[c] = i

\* What may be sent, is on its way, or is executed goes under an id that is known.
Sendable(c) == Entered(c) /\ known[intent[c]] = op[c]

CallsKnown ==
  \A c \in Calls : pc[c] = "sent" \/ (pc[c] = "tool" /\ supplied[c]) => Sendable(c)
NetKnown == \A m \in net : Sendable(m[1]) /\ m[3] = op[m[1]]
RunsFor(id) == runner[id] \in Requests /\ Sendable(runner[id][1]) /\ op[runner[id][1]] = id
PendingKnown == \A id \in Ids : record[id] = "pending" => RunsFor(id)
RecordKnown == \A id \in Ids : record[id] # "none" => \E i \in Intents : known[i] = id
SentKnown == CallsKnown /\ NetKnown /\ PendingKnown /\ RecordKnown

\* An intent has been carried out only if the record of its id says so, or may.
EffectRecorded ==
  /\ \A i \in Intents :
       \/ effects[i] = 0
       \/ effects[i] = 1 /\ known[i] # None /\ record[known[i]] \in {"done", "unknown"}
  /\ \A i \in Intents : known[i] # None /\ record[known[i]] = "done" => effects[i] = 1

IInv == TypeOK /\ IdsApart /\ SentKnown /\ EffectRecorded

-----------------------------------------------------------------------------
(* Types *)

LEMMA InitIInv == Init => IInv
<1> USE IdsAssumption, AttemptsAssumption
<1>1. Init => TypeOK
  BY DEF Init, TypeOK, Requests
<1>2. Init => IdsApart /\ SentKnown /\ EffectRecorded
  BY DEF Init, IdsApart, SentKnown, CallsKnown, NetKnown, PendingKnown, RecordKnown,
         EffectRecorded, Entered
<1>3. QED
  BY <1>1, <1>2 DEF IInv

LEMMA FinishTypes ==
  ASSUME TypeOK, NEW c \in Calls, NEW a, Finish(c, a),
         a \in {"preview", "operation_id_required", "refused", "doubt", "done", "replayed",
                "ran", "response_too_large", "unexpected", "gone"}
  PROVE  /\ pc' \in [Calls -> {"idle", "tool", "sent", "unkeyed", "answered"}]
         /\ reply' \in [Calls -> {"none", "done", "replayed", "refused", "doubt"}]
         /\ answer' \in [Calls -> {"none", "preview", "operation_id_required",
                           "invalid_operation_id", "refused", "doubt", "done", "replayed",
                           "ran", "response_too_large", "unexpected", "gone"}]
         /\ UNCHANGED <<intent, op, supplied, tries>>
BY DEF Finish, TypeOK

LEMMA TypeStep == TypeOK /\ IdsApart /\ [Next]_vars => TypeOK'
<1> SUFFICES ASSUME TypeOK, IdsApart, [Next]_vars PROVE TypeOK'
  OBVIOUS
<1> USE IdsAssumption, AttemptsAssumption
<1>1. ASSUME NEW c \in Calls, NEW i \in Intents, NEW id \in Ids,
             CallWithId(c, i, id) \/ CallWithoutId(c, i, id)
      PROVE  TypeOK'
  <2>1. /\ pc' = [pc EXCEPT ![c] = "tool"]
        /\ \E passed \in BOOLEAN : Enter(c, i, id, passed)
        /\ known' \in {known, [known EXCEPT ![i] = id]}
        /\ UNCHANGED <<tries, reply, answer, net, api>>
    BY <1>1 DEF CallWithId, CallWithoutId
  <2>2. supplied' \in [Calls -> BOOLEAN]
    BY <2>1 DEF Enter, TypeOK
  <2>3. QED
    BY <2>1, <2>2 DEF Enter, api, TypeOK
<1>2. ASSUME NEW c \in Calls, NEW i \in Intents, NEW id \in Ids,
             CallWithMalformedId(c, i, id)
      PROVE  TypeOK'
  <2>1. supplied' \in [Calls -> BOOLEAN]
    BY <1>2 DEF CallWithMalformedId, Enter, TypeOK
  <2>2. QED
    BY <1>2, <2>1 DEF CallWithMalformedId, Enter, api, TypeOK
<1>3. ASSUME NEW c \in Calls, NEW a, Finish(c, a), UNCHANGED <<issued, net, api>>,
             Tell(c) \/ known' = known,
             a \in {"preview", "operation_id_required", "refused", "doubt", "done",
                    "replayed", "ran", "response_too_large", "unexpected", "gone"}
      PROVE  TypeOK'
  <2>1. known' \in [Intents -> Ids \cup {None}]
    BY <1>3 DEF Tell, TypeOK
  <2>2. QED
    BY <1>3, <2>1, FinishTypes DEF api, TypeOK
<1>4. ASSUME NEW c \in Calls, ToolStep(c) \/ GiveUp(c) \/ Receive(c) \/ ReceiveUnreadable(c)
                               \/ UnrecordedEnds(c)
                              \/ Abandon(c), ~SendWrite(c), ~SendUnrecorded(c)
      PROVE  TypeOK'
  <2>1. reply[c] \in {"none", "done", "replayed", "refused", "doubt"}
    BY DEF TypeOK
  <2>2. QED
    BY <1>3, <1>4, <2>1 DEF ToolStep, Preview, FailBeforeWrite, RefuseWithoutId, GiveUp, Receive,
       ReceiveUnreadable, UnrecordedEnds, Abandon, agent
<1>5. ASSUME NEW c \in Calls, SendWrite(c) \/ Retry(c) PROVE TypeOK'
  <2>0. op[c] \in Ids
    BY <1>5 DEF SendWrite, Retry, NoAnswer, IdsApart, Entered, TypeOK
  <2>1. tries' \in [Calls -> 0 .. ATTEMPTS] /\ tries'[c] \in 1 .. ATTEMPTS
    BY <1>5 DEF SendWrite, Retry, TypeOK
  <2>2. net' = net \cup {<<c, tries'[c], op[c]>>}
    BY <1>5 DEF SendWrite, Retry, TypeOK
  <2>3. net' \subseteq Requests
    BY <1>5, <2>0, <2>1, <2>2 DEF Requests, TypeOK
  <2>4. QED
    BY <1>5, <2>1, <2>3 DEF SendWrite, Retry, agent, api, TypeOK
<1>5a. ASSUME NEW c \in Calls, SendUnrecorded(c) PROVE TypeOK'
  BY <1>5a DEF SendUnrecorded, agent, api, TypeOK
<1>6. ASSUME NEW m \in net, ApiLoses(m) \/ ApiAccepts(m) \/ ApiRepeats(m) PROVE TypeOK'
  <2>1. m \in Requests
    BY DEF TypeOK
  <2>2. reply' \in [Calls -> {"none", "done", "replayed", "refused", "doubt"}]
    BY <1>6 DEF ApiLoses, ApiAccepts, ApiRepeats, Reply, call, TypeOK
  <2>3. QED
    BY <1>6, <2>1, <2>2 DEF ApiLoses, ApiAccepts, ApiRepeats, call, agent, api, TypeOK
<1>7. ASSUME NEW id \in Ids, ApiDoes(id) \/ ApiRefuses(id) \/ ApiCrashes(id) PROVE TypeOK'
  <2>1. reply' \in [Calls -> {"none", "done", "replayed", "refused", "doubt"}]
    BY <1>7 DEF ApiDoes, ApiRefuses, ApiCrashes, Reply, call, TypeOK
  <2>2. effects' \in [Intents -> Nat]
    BY <1>7 DEF ApiDoes, ApiRefuses, ApiCrashes, TypeOK
  <2>3. record' \in [Ids -> {"none", "pending", "done", "unknown"}]
    BY <1>7 DEF ApiDoes, ApiRefuses, ApiCrashes, TypeOK
  <2>4. QED
    BY <1>7, <2>1, <2>2, <2>3 DEF ApiDoes, ApiRefuses, ApiCrashes, call, agent, TypeOK
<1>8. CASE UNCHANGED vars
  BY <1>8 DEF vars, call, agent, api, TypeOK
<1>9. QED
  BY <1>1, <1>2, <1>4, <1>5, <1>5a, <1>6, <1>7, <1>8
     DEF Next, AgentCalls, ToolStep, SdkStep, ApiStep

-----------------------------------------------------------------------------
(* Ids *)

\* A call that enters the wrapper brings an id that is new or its intent's own.
Enters(c, i, id) ==
  /\ ~Entered(c) /\ id \in Ids
  /\ op' = [op EXCEPT ![c] = id] /\ intent' = [intent EXCEPT ![c] = i]
  /\ issued' = issued \cup {id}
  /\ id \notin issued \/ id = known[i]
  /\ \/ known' = known
     \/ known' = [known EXCEPT ![i] = id] /\ known[i] \in {None, id}
  /\ \A d \in Calls : Entered(d)' <=> Entered(d) \/ d = c

\* An answer gives the agent the id of its call.
Learns(c) ==
  /\ Entered(c) /\ known[intent[c]] = None
  /\ known' = [known EXCEPT ![intent[c]] = op[c]]
  /\ UNCHANGED <<op, intent, issued>>
  /\ \A d \in Calls : Entered(d)' <=> Entered(d)

KeepsIds ==
  /\ UNCHANGED <<op, intent, issued, known>>
  /\ \A d \in Calls : Entered(d)' <=> Entered(d)

LEMMA ShapeOfStep ==
  ASSUME TypeOK, IdsApart, [Next]_vars
  PROVE  \/ \E c \in Calls, i \in Intents, id \in Ids : Enters(c, i, id)
         \/ \E c \in Calls : Learns(c)
         \/ KeepsIds
<1>1. ASSUME NEW c \in Calls, NEW i \in Intents, NEW id \in Ids,
             CallWithId(c, i, id) \/ CallWithoutId(c, i, id) \/ CallWithMalformedId(c, i, id)
      PROVE  Enters(c, i, id)
  BY <1>1 DEF CallWithId, CallWithoutId, CallWithMalformedId, MayPass, Enter, Enters, Entered,
     TypeOK
<1>2. ASSUME NEW c \in Calls, NEW a, Finish(c, a), pc[c] # "idle", issued' = issued,
             Tell(c) \/ known' = known
      PROVE  Learns(c) \/ KeepsIds
  BY <1>2 DEF Finish, Tell, Learns, KeepsIds, Entered, TypeOK
<1>3. ASSUME NEW c \in Calls, ToolStep(c) \/ GiveUp(c) \/ Receive(c) \/ ReceiveUnreadable(c)
                               \/ UnrecordedEnds(c)
                              \/ Abandon(c), ~SendWrite(c), ~SendUnrecorded(c)
      PROVE  Learns(c) \/ KeepsIds
  BY <1>2, <1>3 DEF ToolStep, Preview, FailBeforeWrite, RefuseWithoutId, GiveUp, NoAnswer,
     Receive, ReceiveUnreadable, UnrecordedEnds, Abandon, agent
<1>4. ASSUME NEW c \in Calls, SendWrite(c) \/ Retry(c) \/ SendUnrecorded(c) PROVE KeepsIds
  BY <1>4 DEF SendWrite, SendUnrecorded, Retry, NoAnswer, KeepsIds, Entered, agent, TypeOK
<1>5. ASSUME ApiStep \/ UNCHANGED vars PROVE KeepsIds
  BY <1>5 DEF ApiStep, ApiLoses, ApiAccepts, ApiRepeats, ApiDoes, ApiRefuses, ApiCrashes, vars,
     call, agent, KeepsIds, Entered
<1>6. QED
  BY <1>1, <1>3, <1>4, <1>5 DEF Next, AgentCalls, ToolStep, SdkStep

LEMMA IdsStep ==
  ASSUME TypeOK, IdsApart, [Next]_vars
  PROVE  IdsApart'
<1> USE IdsAssumption
<1>1. ASSUME NEW c \in Calls, NEW i \in Intents, NEW id \in Ids, Enters(c, i, id)
      PROVE  IdsApart'
  <2>1. \A j \in Intents : known'[j] = known[j] \/ (j = i /\ known'[j] = id)
    BY <1>1 DEF Enters, TypeOK
  <2>2. \A j \in Intents : known'[j] = id /\ known'[j] # None => j = i
    BY <1>1, <2>1 DEF Enters, IdsApart, TypeOK
  <2>3. \A d \in Calls : op'[d] = (IF d = c THEN id ELSE op[d])
                         /\ intent'[d] = (IF d = c THEN i ELSE intent[d])
    BY <1>1 DEF Enters, TypeOK
  <2>4. \A d \in Calls : Entered(d) /\ op[d] = id => intent[d] = i
    BY <1>1 DEF Enters, IdsApart, TypeOK
  <2>5. /\ \A j \in Intents : known'[j] # None => known'[j] \in issued'
        /\ \A d \in Calls : Entered(d)' => op'[d] \in issued' /\ intent'[d] \in Intents
    BY <1>1, <2>1, <2>3 DEF Enters, IdsApart
  <2>6. \A j, k \in Intents : known'[j] # None /\ known'[j] = known'[k] => j = k
    BY <2>1, <2>2 DEF IdsApart
  <2>7. \A d, e \in Calls : Entered(d)' /\ Entered(e)' /\ op'[d] = op'[e]
                            => intent'[d] = intent'[e]
    BY <1>1, <2>3, <2>4 DEF Enters, IdsApart
  <2>8. \A d \in Calls, j \in Intents : Entered(d)' /\ op'[d] = known'[j] => intent'[d] = j
    <3> SUFFICES ASSUME NEW d \in Calls, NEW j \in Intents, Entered(d)', op'[d] = known'[j]
                 PROVE  intent'[d] = j
      OBVIOUS
    <3>1. CASE d = c
      BY <1>1, <2>2, <2>3, <3>1 DEF Enters
    <3>2. CASE d # c
      BY <1>1, <2>1, <2>3, <2>4, <3>2 DEF Enters, IdsApart
    <3>3. QED
      BY <3>1, <3>2
  <2>9. QED
    BY <2>5, <2>6, <2>7, <2>8 DEF IdsApart
<1>2. ASSUME NEW c \in Calls, Learns(c) PROVE IdsApart'
  <2>1. \A j \in Intents : known'[j] = IF j = intent[c] THEN op[c] ELSE known[j]
    BY <1>2 DEF Learns, TypeOK
  <2>2. \A d \in Calls : Entered(d) /\ op[d] = op[c] => intent[d] = intent[c]
    BY <1>2 DEF Learns, IdsApart
  <2>3. op[c] \in issued /\ op[c] # None /\ \A j \in Intents : known[j] = op[c] => j = intent[c]
    BY <1>2 DEF Learns, IdsApart, TypeOK
  <2>4. QED
    BY <1>2, <2>1, <2>2, <2>3 DEF Learns, IdsApart
<1>3. ASSUME KeepsIds PROVE IdsApart'
  BY <1>3 DEF KeepsIds, IdsApart
<1>4. QED
  BY <1>1, <1>2, <1>3, ShapeOfStep

-----------------------------------------------------------------------------
(* Requests and their records *)

\* An id the agent has, and the id and the intent of a call, stay what they are.
LEMMA IdsStay ==
  ASSUME TypeOK, IdsApart, [Next]_vars
  PROVE  /\ \A i \in Intents : known[i] # None => known'[i] = known[i]
         /\ \A c \in Calls : Sendable(c) => Sendable(c)' /\ op'[c] = op[c] /\ intent'[c] = intent[c]
<1> USE IdsAssumption
<1>1. ASSUME NEW c \in Calls, NEW i \in Intents, NEW id \in Ids, Enters(c, i, id)
      PROVE  /\ \A j \in Intents : known[j] # None => known'[j] = known[j]
             /\ \A d \in Calls : Entered(d) => Entered(d)' /\ op'[d] = op[d] /\ intent'[d] = intent[d]
  BY <1>1 DEF Enters, TypeOK
<1>2. ASSUME NEW c \in Calls, Learns(c) \/ KeepsIds
      PROVE  /\ \A j \in Intents : known[j] # None => known'[j] = known[j]
             /\ \A d \in Calls : Entered(d) => Entered(d)' /\ op'[d] = op[d] /\ intent'[d] = intent[d]
  BY <1>2 DEF Learns, KeepsIds, TypeOK
<1>3. /\ \A j \in Intents : known[j] # None => known'[j] = known[j]
      /\ \A d \in Calls : Entered(d) => Entered(d)' /\ op'[d] = op[d] /\ intent'[d] = intent[d]
  <2>1. CASE KeepsIds
    BY <2>1 DEF KeepsIds
  <2>2. QED
    BY <1>1, <1>2, <2>1, ShapeOfStep
<1>4. \A c \in Calls : Entered(c) => op[c] # None /\ intent[c] \in Intents
  BY DEF IdsApart, TypeOK
<1>5. QED
  BY <1>3, <1>4 DEF Sendable

LEMMA SentStep ==
  ASSUME TypeOK, IdsApart, SentKnown, [Next]_vars
  PROVE  SentKnown'
<1> USE IdsAssumption DEF SentKnown
<1>1. \A c \in Calls : Sendable(c) => Sendable(c)' /\ op'[c] = op[c]
  BY IdsStay
<1>2. \A c \in Calls : Sendable(c) =>
        op[c] \in Ids /\ known[intent[c]] = op[c] /\ intent[c] \in Intents
  BY DEF Sendable, IdsApart, TypeOK
<1>3. ASSUME \A id \in Ids : record'[id] # "none" => \/ record[id] # "none"
                                                  \/ \E m \in net : m[3] = id
      PROVE  RecordKnown'
  <2> SUFFICES ASSUME NEW id \in Ids, record'[id] # "none"
               PROVE  \E i \in Intents : known'[i] = id
    BY DEF RecordKnown
  <2>1. \E i \in Intents : known[i] = id
    <3>1. CASE record[id] # "none"
      BY <3>1 DEF RecordKnown
    <3>2. CASE \E m \in net : m[3] = id
      <4>1. PICK m \in net : m[3] = id
        BY <3>2
      <4>2. m[1] \in Calls /\ Sendable(m[1]) /\ op[m[1]] = id
        BY <4>1 DEF NetKnown, Requests, TypeOK
      <4>3. QED
        BY <1>2, <4>2
    <3>3. QED
      BY <1>3, <3>1, <3>2
  <2>2. QED
    BY <2>1, IdsStay
<1>4. ASSUME NEW id \in Ids, RunsFor(id), runner'[id] = runner[id]
      PROVE  RunsFor(id)'
  <2>1. PICK d \in Calls : d = runner[id][1]
    BY <1>4 DEF RunsFor, Requests
  <2>2. Sendable(d) /\ op[d] = id
    BY <1>4, <2>1 DEF RunsFor
  <2>3. Sendable(d)' /\ op'[d] = id
    BY <1>1, <2>2
  <2>4. runner'[id] \in Requests' /\ runner'[id][1] = d
    BY <1>4, <2>1 DEF RunsFor, Requests
  <2>5. QED
    BY <2>3, <2>4 DEF RunsFor, Sendable, Entered
<1>5. ASSUME UNCHANGED <<record, runner>> PROVE PendingKnown' /\ RecordKnown'
  <2>1. PendingKnown'
    BY <1>4, <1>5 DEF PendingKnown
  <2>2. QED
    BY <1>3, <1>5, <2>1
<1>6. ASSUME net' \subseteq net PROVE NetKnown'
  <2>1. \A m \in net' : m[1] \in Calls /\ Sendable(m[1]) /\ m[3] = op[m[1]]
    BY <1>6 DEF NetKnown, Requests, TypeOK
  <2>2. QED
    BY <1>1, <2>1 DEF NetKnown
<1>7. ASSUME NEW c \in Calls, Sendable(c) \/ pc'[c] = "answered", supplied' = supplied,
             \A d \in Calls \ {c} : pc'[d] = pc[d]
      PROVE  CallsKnown'
  BY <1>1, <1>7 DEF CallsKnown
<1>8. ASSUME UNCHANGED <<pc, supplied>> PROVE CallsKnown'
  BY <1>1, <1>8 DEF CallsKnown
<1>9. ASSUME NEW c \in Calls, AgentCalls(c) PROVE SentKnown'
  <2>1. UNCHANGED <<net, record, runner>>
    BY <1>9 DEF AgentCalls, CallWithId, CallWithoutId, CallWithMalformedId, api
  <2>2. \A d \in Calls \ {c} : pc'[d] = pc[d] /\ supplied'[d] = supplied[d]
    BY <1>9 DEF AgentCalls, CallWithId, CallWithoutId, CallWithMalformedId, Enter, TypeOK
  <2>3. \/ pc'[c] = "tool" /\ Sendable(c)'
        \/ pc'[c] = "tool" /\ supplied'[c] = FALSE
        \/ pc'[c] = "answered"
    <3>1. ASSUME NEW i \in Intents, NEW id \in Ids, CallWithId(c, i, id)
          PROVE  pc'[c] = "tool" /\ Sendable(c)'
      BY <3>1 DEF CallWithId, Enter, Sendable, Entered, TypeOK
    <3>2. ASSUME NEW i \in Intents, NEW id \in Ids, CallWithoutId(c, i, id)
          PROVE  pc'[c] = "tool" /\ supplied'[c] = FALSE
      BY <3>2 DEF CallWithoutId, Enter, TypeOK
    <3>3. ASSUME NEW i \in Intents, NEW id \in Ids, CallWithMalformedId(c, i, id)
          PROVE  pc'[c] = "answered"
      BY <3>3 DEF CallWithMalformedId, TypeOK
    <3>4. QED
      BY <1>9, <3>1, <3>2, <3>3 DEF AgentCalls
  <2>4. CallsKnown'
    BY <1>1, <2>2, <2>3 DEF CallsKnown
  <2>5. QED
    BY <1>5, <1>6, <2>1, <2>4
<1>10. ASSUME NEW c \in Calls, NEW a, Finish(c, a), UNCHANGED <<net, record, runner>>
       PROVE  SentKnown'
  <2>1. pc'[c] = "answered" /\ supplied' = supplied /\ \A d \in Calls \ {c} : pc'[d] = pc[d]
    BY <1>10 DEF Finish, TypeOK
  <2>2. QED
    BY <1>5, <1>6, <1>7, <1>10, <2>1
<1>11. ASSUME NEW c \in Calls, ToolStep(c) \/ GiveUp(c) \/ Receive(c) \/ ReceiveUnreadable(c)
                               \/ UnrecordedEnds(c)
                               \/ Abandon(c), ~SendWrite(c), ~SendUnrecorded(c)
       PROVE  SentKnown'
  BY <1>10, <1>11 DEF ToolStep, Preview, FailBeforeWrite, RefuseWithoutId, GiveUp, Receive,
     ReceiveUnreadable, UnrecordedEnds, Abandon, api
<1>12. ASSUME NEW c \in Calls, SendWrite(c) \/ Retry(c) PROVE SentKnown'
  <2>1. UNCHANGED <<supplied, op, record, runner>> /\ (pc' = pc \/ pc' = [pc EXCEPT ![c] = "sent"])
    BY <1>12 DEF SendWrite, Retry, api
  <2>2. Sendable(c)
    BY <1>12 DEF SendWrite, Retry, NoAnswer, CallsKnown
  <2>3. \E n : net' = net \cup {<<c, n, op[c]>>}
    BY <1>12 DEF SendWrite, Retry
  <2>4. NetKnown'
    <3>1. \A m \in net' : m[1] \in Calls /\ Sendable(m[1]) /\ m[3] = op[m[1]]
      BY <2>2, <2>3 DEF NetKnown, Requests, TypeOK
    <3>2. QED
      BY <1>1, <3>1 DEF NetKnown
  <2>5. \A d \in Calls \ {c} : pc'[d] = pc[d]
    BY <2>1 DEF TypeOK
  <2>6. QED
    BY <1>5, <1>7, <2>1, <2>2, <2>4, <2>5
<1>12a. ASSUME NEW c \in Calls, SendUnrecorded(c) PROVE SentKnown'
  <2>1. UNCHANGED <<supplied, net, record, runner>> /\ pc' = [pc EXCEPT ![c] = "unkeyed"]
    BY <1>12a DEF SendUnrecorded, api
  <2>2. CallsKnown'
    BY <1>1, <2>1 DEF CallsKnown, TypeOK
  <2>3. QED
    BY <1>5, <1>6, <2>1, <2>2
<1>13. ASSUME NEW m \in net, ApiLoses(m) \/ ApiRepeats(m) PROVE SentKnown'
  <2>1. UNCHANGED <<pc, supplied, record, runner>> /\ net' \subseteq net
    BY <1>13 DEF ApiLoses, ApiRepeats, call, api
  <2>2. QED
    BY <1>5, <1>6, <1>8, <2>1
<1>14. ASSUME NEW m \in net, ApiAccepts(m) PROVE SentKnown'
  <2>1. UNCHANGED <<pc, supplied>> /\ net' \subseteq net
        /\ record' = [record EXCEPT ![m[3]] = "pending"] /\ runner' = [runner EXCEPT ![m[3]] = m]
    BY <1>14 DEF ApiAccepts, call
  <2>2. m \in Requests /\ m[3] \in Ids /\ m[1] \in Calls /\ Sendable(m[1]) /\ m[3] = op[m[1]]
    BY DEF NetKnown, Requests, TypeOK
  <2>3. RunsFor(m[3])'
    <3>1. runner'[m[3]] = m
      BY <2>1, <2>2 DEF TypeOK
    <3>2. Sendable(m[1])' /\ op'[m[1]] = m[3]
      BY <1>1, <2>2
    <3>3. QED
      BY <2>2, <3>1, <3>2 DEF RunsFor, Sendable, Entered, Requests
  <2>4. \A id \in Ids : id # m[3] => record'[id] = record[id] /\ runner'[id] = runner[id]
    BY <2>1 DEF TypeOK
  <2>5. PendingKnown'
    BY <1>4, <2>3, <2>4 DEF PendingKnown
  <2>6. \A id \in Ids : record'[id] # "none" => record[id] # "none" \/ \E n \in net : n[3] = id
    BY <2>4
  <2>7. QED
    BY <1>3, <1>6, <1>8, <2>1, <2>5, <2>6
<1>15. ASSUME NEW id \in Ids, ApiDoes(id) \/ ApiRefuses(id) \/ ApiCrashes(id) PROVE SentKnown'
  <2>1. UNCHANGED <<pc, supplied, net, runner>> /\ record[id] = "pending"
        /\ \E r \in {"done", "none", "unknown"} : record' = [record EXCEPT ![id] = r]
    BY <1>15 DEF ApiDoes, ApiRefuses, ApiCrashes, call
  <2>2. \A n \in Ids : /\ record'[n] = "pending" => record[n] = "pending"
                      /\ record'[n] # "none" => record[n] # "none"
    BY <2>1 DEF TypeOK
  <2>3. PendingKnown'
    BY <1>4, <2>1, <2>2 DEF PendingKnown
  <2>4. QED
    BY <1>3, <1>6, <1>8, <2>1, <2>2, <2>3
<1>16. CASE UNCHANGED vars
  BY <1>5, <1>6, <1>8, <1>16 DEF vars, call, api
<1>17. QED
  BY <1>9, <1>11, <1>12, <1>12a, <1>13, <1>14, <1>15, <1>16 DEF Next, ToolStep, SdkStep, ApiStep

-----------------------------------------------------------------------------
(* Effects *)

\* What is being executed is for the one intent whose id it has, not yet done.
LEMMA PendingIntent ==
  ASSUME TypeOK, IdsApart, SentKnown, EffectRecorded, NEW id \in Ids, record[id] = "pending"
  PROVE  /\ intent[runner[id][1]] \in Intents
         /\ known[intent[runner[id][1]]] = id
         /\ effects[intent[runner[id][1]]] = 0
         /\ \A i \in Intents : known[i] = id => i = intent[runner[id][1]]
<1>1. RunsFor(id)
  BY DEF SentKnown, PendingKnown
<1>2. PICK c \in Calls : c = runner[id][1]
  BY <1>1 DEF RunsFor, Requests
<1>3. Sendable(c) /\ op[c] = id
  BY <1>1, <1>2 DEF RunsFor
<1>4. intent[c] \in Intents /\ known[intent[c]] = id
  BY <1>3 DEF Sendable, IdsApart
<1>5. \A i \in Intents : known[i] = id => i = intent[c]
  BY <1>3 DEF Sendable, IdsApart
<1>6. effects[intent[c]] = 0
  BY <1>4 DEF EffectRecorded
<1>7. QED
  BY <1>2, <1>4, <1>5, <1>6

LEMMA EffectStep ==
  ASSUME TypeOK, IdsApart, SentKnown, EffectRecorded, [Next]_vars
  PROVE  EffectRecorded'
<1> USE IdsAssumption
<1>1. ASSUME UNCHANGED <<record, effects>> PROVE EffectRecorded'
  <2> SUFFICES ASSUME NEW i \in Intents
               PROVE  /\ \/ effects[i] = 0
                         \/ /\ effects[i] = 1 /\ known'[i] # None
                            /\ record[known'[i]] \in {"done", "unknown"}
                      /\ known'[i] # None /\ record[known'[i]] = "done" => effects[i] = 1
    BY <1>1 DEF EffectRecorded
  <2>1. CASE known[i] # None
    BY <2>1, IdsStay DEF EffectRecorded
  <2>2. CASE known[i] = None
    <3>1. effects[i] = 0
      BY <2>2 DEF EffectRecorded
    <3>2. ASSUME known'[i] # None, record[known'[i]] = "done" PROVE FALSE
      <4>1. known'[i] \in Ids
        BY <3>2, IdsStep, TypeStep DEF TypeOK
      <4>2. PICK j \in Intents : known[j] = known'[i]
        BY <3>2, <4>1 DEF SentKnown, RecordKnown
      <4>3. known'[j] = known'[i] /\ j # i
        BY <2>2, <3>2, <4>2, IdsStay
      <4>4. QED
        BY <3>2, <4>3, IdsStep DEF IdsApart
    <3>3. QED
      BY <3>1, <3>2
  <2>3. QED
    BY <2>1, <2>2
<1>2. ASSUME NEW m \in net, ApiAccepts(m) PROVE EffectRecorded'
  <2>1. m[3] \in Ids
    BY DEF Requests, TypeOK
  <2>2. record[m[3]] = "none" /\ record' = [record EXCEPT ![m[3]] = "pending"]
        /\ UNCHANGED <<known, effects>>
    BY <1>2 DEF ApiAccepts, agent
  <2>3. QED
    BY <2>1, <2>2 DEF EffectRecorded, TypeOK
<1>3. ASSUME NEW id \in Ids, ApiDoes(id) \/ ApiRefuses(id) \/ ApiCrashes(id)
      PROVE  EffectRecorded'
  <2> DEFINE i == intent[runner[id][1]]
  <2>1. record[id] = "pending" /\ known' = known
    BY <1>3 DEF ApiDoes, ApiRefuses, ApiCrashes, agent
  <2>2. i \in Intents /\ known[i] = id /\ effects[i] = 0 /\ \A j \in Intents : known[j] = id => j = i
    BY <2>1, PendingIntent
  <2>3. \/ effects' = [effects EXCEPT ![i] = @ + 1] /\ record' = [record EXCEPT ![id] = "done"]
        \/ effects' = effects /\ record' = [record EXCEPT ![id] = "none"]
        \/ /\ effects' \in {effects, [effects EXCEPT ![i] = @ + 1]}
           /\ record' = [record EXCEPT ![id] = "unknown"]
    BY <1>3 DEF ApiDoes, ApiRefuses, ApiCrashes
  <2> HIDE DEF i
  <2>4. \A j \in Intents \ {i} : effects'[j] = effects[j] /\ (known[j] # None => record'[known[j]] = record[known[j]])
    BY <2>2, <2>3 DEF TypeOK
  <2>5. \/ effects'[i] = 1 /\ record'[id] \in {"done", "unknown"}
        \/ effects'[i] = 0 /\ record'[id] \in {"none", "unknown"}
    BY <2>2, <2>3 DEF TypeOK
  <2>6. QED
    BY <2>1, <2>2, <2>4, <2>5 DEF EffectRecorded
<1>4. ASSUME ~(\E m \in net : ApiAccepts(m)),
             ~(\E id \in Ids : ApiDoes(id) \/ ApiRefuses(id) \/ ApiCrashes(id))
      PROVE  UNCHANGED <<record, effects>>
  BY <1>4 DEF Next, AgentCalls, CallWithId, CallWithoutId, CallWithMalformedId, ToolStep, Preview,
     FailBeforeWrite, RefuseWithoutId, SendWrite, SendUnrecorded, SdkStep, Retry, GiveUp, Receive,
     ReceiveUnreadable, UnrecordedEnds, Abandon, ApiStep, ApiLoses, ApiRepeats, vars, api
<1>5. QED
  BY <1>1, <1>2, <1>3, <1>4

-----------------------------------------------------------------------------
(* Answers *)

\* A call is told, or is about to be told, that its write was done.
Told(c) == \/ reply[c] \in {"done", "replayed"}
           \/ answer[c] \in {"done", "replayed"}
SaysDone(c) == reply[c] = "done" \/ answer[c] = "done"

ToldTrue == \A c \in Calls : Told(c) => Entered(c) /\ effects[intent[c]] = 1
OneDone ==
  \A c, d \in Calls : SaysDone(c) /\ SaysDone(d) /\ intent[c] = intent[d] => c = d

AInv == IInv /\ ToldTrue /\ OneDone

\* A call that has entered keeps its intent, and what is done stays done.
LEMMA EntryStays ==
  ASSUME IInv, [Next]_vars
  PROVE  /\ \A c \in Calls : Entered(c) => Entered(c)' /\ intent'[c] = intent[c]
         /\ \A i \in Intents : effects[i] = 1 => effects'[i] = 1
<1> USE DEF IInv
<1>1. ASSUME NEW c \in Calls, NEW i \in Intents, NEW id \in Ids, Enters(c, i, id)
      PROVE  \A d \in Calls : Entered(d) => Entered(d)' /\ intent'[d] = intent[d]
  BY <1>1 DEF Enters, TypeOK
<1>2. \A c \in Calls : Entered(c) => Entered(c)' /\ intent'[c] = intent[c]
  BY <1>1, ShapeOfStep DEF Learns, KeepsIds
<1>3. ASSUME NEW id \in Ids, ApiDoes(id) \/ ApiRefuses(id) \/ ApiCrashes(id)
      PROVE  \A i \in Intents : effects[i] = 1 => effects'[i] = 1
  <2>1. record[id] = "pending"
    BY <1>3 DEF ApiDoes, ApiRefuses, ApiCrashes
  <2>2. effects[intent[runner[id][1]]] = 0
    BY <2>1, PendingIntent
  <2>3. \A i \in Intents : i # intent[runner[id][1]] => effects'[i] = effects[i]
    BY <1>3 DEF ApiDoes, ApiRefuses, ApiCrashes, TypeOK
  <2>4. QED
    BY <2>2, <2>3
<1>4. ASSUME ~(\E id \in Ids : ApiDoes(id) \/ ApiRefuses(id) \/ ApiCrashes(id))
      PROVE  effects' = effects
  BY <1>4 DEF Next, AgentCalls, CallWithId, CallWithoutId, CallWithMalformedId, ToolStep, Preview,
     FailBeforeWrite, RefuseWithoutId, SendWrite, SendUnrecorded, SdkStep, Retry, GiveUp, Receive,
     ReceiveUnreadable, UnrecordedEnds, Abandon, ApiStep, ApiLoses, ApiAccepts, ApiRepeats, vars, api
<1>5. QED
  BY <1>2, <1>3, <1>4

\* Only the API's own answer is the source of such an answer: when it does what a
\* request asked for, or repeats the answer it has saved.
LEMMA ToldBy ==
  ASSUME TypeOK, [Next]_vars
  PROVE  \/ \A d \in Calls : (Told(d)' => Told(d)) /\ (SaysDone(d)' => SaysDone(d))
         \/ \E m \in net :
              /\ ApiRepeats(m) /\ record[m[3]] = "done"
              /\ \A d \in Calls : /\ Told(d)' => Told(d) \/ d = m[1]
                                  /\ SaysDone(d)' => SaysDone(d)
         \/ \E id \in Ids :
              /\ ApiDoes(id)
              /\ \A d \in Calls : /\ Told(d)' => Told(d) \/ d = runner[id][1]
                                  /\ SaysDone(d)' => SaysDone(d) \/ d = runner[id][1]
<1> DEFINE Nothing == \A d \in Calls : (Told(d)' => Told(d)) /\ (SaysDone(d)' => SaysDone(d))
<1>1. ASSUME UNCHANGED <<reply, answer>> PROVE Nothing
  BY <1>1 DEF Told, SaysDone
<1>2. ASSUME NEW c \in Calls, NEW a, Finish(c, a),
             \/ a \in {"preview", "operation_id_required", "refused", "doubt", "ran",
                       "response_too_large", "unexpected", "gone"}
             \/ a = reply[c]
      PROVE  Nothing
  BY <1>2 DEF Finish, Told, SaysDone, TypeOK
<1>3. ASSUME NEW c \in Calls, AgentCalls(c) PROVE Nothing
  BY <1>3 DEF AgentCalls, CallWithId, CallWithoutId, CallWithMalformedId, Told, SaysDone, TypeOK
<1>4. ASSUME NEW c \in Calls, ToolStep(c) \/ SdkStep(c) \/ Abandon(c) PROVE Nothing
  <2>1. CASE SendWrite(c) \/ Retry(c) \/ SendUnrecorded(c)
    BY <1>1, <2>1 DEF SendWrite, SendUnrecorded, Retry
  <2>2. CASE ~(SendWrite(c) \/ Retry(c) \/ SendUnrecorded(c))
    BY <1>2, <1>4, <2>2 DEF ToolStep, Preview, FailBeforeWrite, RefuseWithoutId, SdkStep, GiveUp,
       Receive, ReceiveUnreadable, UnrecordedEnds, Abandon
  <2>3. QED
    BY <2>1, <2>2
<1>5. ASSUME NEW m \in net, ApiRepeats(m)
      PROVE  \/ Nothing
             \/ /\ record[m[3]] = "done"
                /\ \A d \in Calls : /\ Told(d)' => Told(d) \/ d = m[1]
                                    /\ SaysDone(d)' => SaysDone(d)
  BY <1>5 DEF ApiRepeats, Reply, Told, SaysDone, TypeOK
<1>6. ASSUME NEW id \in Ids, ApiDoes(id)
      PROVE  \A d \in Calls : /\ Told(d)' => Told(d) \/ d = runner[id][1]
                              /\ SaysDone(d)' => SaysDone(d) \/ d = runner[id][1]
  BY <1>6 DEF ApiDoes, Reply, Told, SaysDone, TypeOK
<1>7. ASSUME NEW id \in Ids, ApiRefuses(id) \/ ApiCrashes(id) PROVE Nothing
  BY <1>7 DEF ApiRefuses, ApiCrashes, Reply, call, Told, SaysDone, TypeOK
<1>8. ASSUME NEW m \in net, ApiLoses(m) \/ ApiAccepts(m) PROVE Nothing
  BY <1>1, <1>8 DEF ApiLoses, ApiAccepts, call
<1>9. ASSUME UNCHANGED vars PROVE Nothing
  BY <1>1, <1>9 DEF vars, call
<1> HIDE DEF Nothing
<1>10. Nothing \/ (\E m \in net : ApiRepeats(m)) \/ (\E id \in Ids : ApiDoes(id))
  BY <1>3, <1>4, <1>7, <1>8, <1>9 DEF Next, ApiStep
<1>11. CASE Nothing
  BY <1>11 DEF Nothing
<1>12. QED
  BY <1>5, <1>6, <1>10, <1>11

LEMMA AnswerStep ==
  ASSUME AInv, IInv', [Next]_vars
  PROVE  ToldTrue' /\ OneDone'
<1> USE DEF AInv
<1>0. TypeOK /\ IdsApart /\ SentKnown /\ EffectRecorded /\ EffectRecorded'
  BY DEF IInv
<1>1. \A d \in Calls : Told(d) => /\ Entered(d)' /\ intent'[d] = intent[d]
                                  /\ effects'[intent'[d]] = 1
  BY <1>0, EntryStays DEF ToldTrue, IdsApart
<1>2. \A d \in Calls : SaysDone(d) => Told(d)
  BY DEF SaysDone, Told
<1>3. ASSUME \A d \in Calls : SaysDone(d)' => SaysDone(d) PROVE OneDone'
  BY <1>1, <1>2, <1>3 DEF OneDone
<1>4. CASE \A d \in Calls : (Told(d)' => Told(d)) /\ (SaysDone(d)' => SaysDone(d))
  BY <1>1, <1>3, <1>4 DEF ToldTrue
<1>5. ASSUME NEW m \in net, ApiRepeats(m), record[m[3]] = "done",
             \A d \in Calls : (Told(d)' => Told(d) \/ d = m[1]) /\ (SaysDone(d)' => SaysDone(d))
      PROVE  ToldTrue' /\ OneDone'
  <2>1. PICK c \in Calls : c = m[1]
    BY <1>0 DEF Requests, TypeOK
  <2>2. Entered(c) /\ known[intent[c]] = m[3] /\ intent[c] \in Intents
    BY <1>0, <2>1 DEF SentKnown, NetKnown, Sendable, IdsApart
  <2>3. effects[intent[c]] = 1
    <3>1. m[3] # None
      BY <1>0, IdsAssumption DEF Requests, TypeOK
    <3>2. QED
      BY <1>0, <1>5, <2>2, <3>1 DEF EffectRecorded
  <2>4. Entered(c)' /\ intent'[c] = intent[c] /\ effects'[intent'[c]] = 1
    BY <2>2, <2>3, EntryStays
  <2>5. ToldTrue'
    BY <1>1, <1>5, <2>1, <2>4 DEF ToldTrue
  <2>6. QED
    BY <1>3, <1>5, <2>5
<1>6. ASSUME NEW id \in Ids, ApiDoes(id),
             \A d \in Calls : /\ Told(d)' => Told(d) \/ d = runner[id][1]
                              /\ SaysDone(d)' => SaysDone(d) \/ d = runner[id][1]
      PROVE  ToldTrue' /\ OneDone'
  <2>0. record[id] = "pending" /\ effects' = [effects EXCEPT ![intent[runner[id][1]]] = @ + 1]
        /\ UNCHANGED <<pc, intent>>
    BY <1>6 DEF ApiDoes
  <2>1. PICK c \in Calls : c = runner[id][1] /\ Entered(c)
    BY <1>0, <2>0 DEF SentKnown, PendingKnown, RunsFor, Requests, Sendable
  <2>2. intent[c] \in Intents /\ effects[intent[c]] = 0
    BY <1>0, <2>0, <2>1, PendingIntent
  <2>3. effects'[intent'[c]] = 1 /\ Entered(c)'
    BY <1>0, <2>0, <2>1, <2>2 DEF TypeOK, Entered
  <2>4. ToldTrue'
    BY <1>1, <1>6, <2>1, <2>3 DEF ToldTrue
  <2>5. \A d \in Calls : SaysDone(d) => intent[d] # intent[c]
    BY <1>2, <2>2 DEF ToldTrue
  <2>6. \A d \in Calls : SaysDone(d)' => SaysDone(d) \/ d = c
    BY <1>6, <2>1
  <2>7. OneDone'
    BY <2>0, <2>5, <2>6 DEF OneDone
  <2>8. QED
    BY <2>4, <2>7
<1>7. QED
  BY <1>0, <1>4, <1>5, <1>6, ToldBy

-----------------------------------------------------------------------------
(* Theorems *)

THEOREM Invariance == Spec => []IInv
<1>1. IInv /\ [Next]_vars => IInv'
  BY TypeStep, IdsStep, SentStep, EffectStep DEF IInv
<1>2. QED
  BY <1>1, InitIInv, PTL DEF Spec

\* Every variable keeps its type.
THEOREM TypeCorrect == Spec => []TypeOK
<1>1. IInv => TypeOK
  BY DEF IInv
<1>2. QED
  BY <1>1, Invariance, PTL

\* Whatever is lost, late, repeated or cut off by a crash, nothing that the user
\* asked for once is done twice.
THEOREM NothingTwice == Spec => []AtMostOnce
<1>1. IInv => AtMostOnce
  BY DEF IInv, EffectRecorded, AtMostOnce
<1>2. QED
  BY <1>1, Invariance, PTL

\* The agent has the id of everything that was sent.
THEOREM SentUnderKnownId == Spec => []KnownBeforeSent
<1>1. ASSUME IInv PROVE KnownBeforeSent
  <2> SUFFICES ASSUME NEW id \in Ids, record[id] # "none" \/ \E m \in net : m[3] = id
               PROVE  \E i \in Intents : known[i] = id
    BY DEF KnownBeforeSent
  <2>1. CASE record[id] # "none"
    BY <1>1, <2>1 DEF IInv, SentKnown, RecordKnown
  <2>2. CASE \E m \in net : m[3] = id
    <3>1. PICK m \in net : m[3] = id
      BY <2>2
    <3>2. m[1] \in Calls /\ Sendable(m[1]) /\ op[m[1]] = id
      BY <1>1, <3>1 DEF IInv, SentKnown, NetKnown, Requests, TypeOK
    <3>3. QED
      BY <1>1, <3>2 DEF Sendable, IInv, IdsApart
  <2>3. QED
    BY <2>1, <2>2
<1>2. QED
  BY <1>1, Invariance, PTL

\* What is told of a write, and what is about to be told, is true.
LEMMA AnswersTrue == Spec => []AInv
<1>1. Init => AInv
  <2>1. Init => ToldTrue /\ OneDone
    BY DEF Init, ToldTrue, OneDone, Told, SaysDone
  <2>2. QED
    BY <2>1, InitIInv DEF AInv
<1>2. AInv /\ [Next]_vars => AInv'
  <2>1. IInv /\ [Next]_vars => IInv'
    BY TypeStep, IdsStep, SentStep, EffectStep DEF IInv
  <2>2. QED
    BY <2>1, AnswerStep DEF AInv
<1>3. QED
  BY <1>1, <1>2, PTL DEF Spec

\* An answer that says a write was done is true: retries that time out, answers
\* that come late and records of earlier attempts included.
THEOREM AnswersAreTrue == Spec => []DoneIsTrue
<1>1. AInv => DoneIsTrue
  BY DEF AInv, ToldTrue, Told, DoneIsTrue
<1>2. QED
  BY <1>1, AnswersTrue, PTL

-----------------------------------------------------------------------------
(* The refinement of OnceOnly *)

\* What a call may have sent is not taken back: its answer, if it has one, does not
\* say that nothing was sent.
Sent(c) == pc[c] \in {"sent", "answered"} /\ Meaning(c) # "not sent"
Senders ==
  /\ \A m \in net : Sent(m[1])
  /\ \A id \in Ids : record[id] = "pending" => Sent(runner[id][1])

AnsweredOnce ==
  \A c \in Calls : /\ answer[c] = "none" <=> pc[c] # "answered"
                   /\ pc[c] = "idle" => intent[c] = None

RInv == AInv /\ Senders /\ AnsweredOnce

NotSent == {"preview", "operation_id_required", "invalid_operation_id"}

\* How a call comes to its answer, whichever tool, request or reply it is.
Stays == UNCHANGED <<pc, answer>>
Goes(c) == /\ pc[c] \in {"idle", "tool"}
           /\ \E to \in {"tool", "sent", "unkeyed"} : pc' = [pc EXCEPT ![c] = to]
           /\ answer' = answer
Ends(c) == /\ pc[c] \in {"idle", "tool", "sent", "unkeyed"}
           /\ pc' = [pc EXCEPT ![c] = "answered"]
           /\ \E a : /\ answer' = [answer EXCEPT ![c] = a]
                    /\ a # "none" /\ (pc[c] = "sent" => a \notin NotSent)

LEMMA ShapeOfCall ==
  ASSUME TypeOK, [Next]_vars
  PROVE  /\ Stays \/ \E c \in Calls : Goes(c) \/ Ends(c)
         /\ \A d \in Calls : pc'[d] = "idle" => intent'[d] = intent[d] /\ pc[d] = "idle"
<1> DEFINE Kept == \A d \in Calls : pc'[d] = "idle" => intent'[d] = intent[d] /\ pc[d] = "idle"
<1>1. ASSUME NEW c \in Calls, AgentCalls(c) PROVE (Goes(c) \/ Ends(c)) /\ Kept
  <2>1. ASSUME NEW i \in Intents, NEW id \in Ids, CallWithId(c, i, id) \/ CallWithoutId(c, i, id)
        PROVE  Goes(c) /\ Kept
    BY <2>1 DEF CallWithId, CallWithoutId, Enter, Goes, TypeOK
  <2>2. ASSUME NEW i \in Intents, NEW id \in Ids, CallWithMalformedId(c, i, id)
        PROVE  Ends(c) /\ Kept
    BY <2>2 DEF CallWithMalformedId, Enter, Ends, TypeOK
  <2>3. QED
    BY <1>1, <2>1, <2>2 DEF AgentCalls
<1>2. ASSUME NEW c \in Calls, NEW a, Finish(c, a), pc[c] \in {"tool", "sent", "unkeyed"},
             a # "none", pc[c] = "sent" => a \notin NotSent
      PROVE  Ends(c) /\ Kept
  BY <1>2 DEF Finish, Ends, TypeOK
<1>3. ASSUME NEW c \in Calls, ToolStep(c) \/ SdkStep(c) \/ Abandon(c)
      PROVE  (Stays \/ Goes(c) \/ Ends(c)) /\ Kept
  <2>1. CASE SendWrite(c) \/ SendUnrecorded(c)
    BY <2>1 DEF SendWrite, SendUnrecorded, Goes, TypeOK
  <2>2. CASE Retry(c)
    BY <2>2 DEF Retry, Stays
  <2>3. CASE Preview(c) \/ FailBeforeWrite(c) \/ RefuseWithoutId(c) \/ UnrecordedEnds(c)
    BY <1>2, <2>3 DEF Preview, FailBeforeWrite, RefuseWithoutId, UnrecordedEnds
  <2>4. CASE GiveUp(c) \/ Receive(c) \/ ReceiveUnreadable(c) \/ Abandon(c)
    <3>1. \E a : /\ Finish(c, a) /\ pc[c] \in {"tool", "sent", "unkeyed"}
                /\ a \in {"doubt", "done", "replayed", "refused", "response_too_large",
                          "unexpected", "gone"}
      BY <2>4 DEF GiveUp, NoAnswer, Receive, ReceiveUnreadable, Abandon, TypeOK
    <3>2. QED
      BY <1>2, <3>1 DEF NotSent
  <2>5. QED
    BY <1>3, <2>1, <2>2, <2>3, <2>4 DEF ToolStep, SdkStep
<1>4. ASSUME ApiStep \/ UNCHANGED vars PROVE Stays /\ Kept
  BY <1>4 DEF ApiStep, ApiLoses, ApiAccepts, ApiRepeats, ApiDoes, ApiRefuses, ApiCrashes, vars,
     call, Stays
<1>5. QED
  BY <1>1, <1>3, <1>4 DEF Next

LEMMA SentStays ==
  ASSUME TypeOK, AnsweredOnce, [Next]_vars
  PROVE  AnsweredOnce' /\ \A d \in Calls : Sent(d) => Sent(d)'
<1>1. CASE Stays
  BY <1>1, ShapeOfCall DEF Stays, AnsweredOnce, Sent, Meaning
<1>2. ASSUME NEW c \in Calls, Goes(c)
      PROVE  AnsweredOnce' /\ \A d \in Calls : Sent(d) => Sent(d)'
  BY <1>2, ShapeOfCall DEF Goes, AnsweredOnce, Sent, Meaning, TypeOK
<1>3. ASSUME NEW c \in Calls, Ends(c)
      PROVE  AnsweredOnce' /\ \A d \in Calls : Sent(d) => Sent(d)'
  <2>1. AnsweredOnce'
    BY <1>3, ShapeOfCall DEF Ends, AnsweredOnce, TypeOK
  <2>2. \A d \in Calls \ {c} : pc'[d] = pc[d] /\ answer'[d] = answer[d]
    BY <1>3 DEF Ends, TypeOK
  <2>3. Sent(c) => Sent(c)'
    BY <1>3 DEF Ends, Sent, Meaning, NotSent, TypeOK
  <2>4. QED
    BY <2>1, <2>2, <2>3 DEF Sent, Meaning
<1>4. QED
  BY <1>1, <1>2, <1>3, ShapeOfCall

LEMMA SendersStep ==
  ASSUME TypeOK, SentKnown, AnsweredOnce, Senders, [Next]_vars
  PROVE  Senders'
<1>1. \A d \in Calls : Sent(d) => Sent(d)'
  BY SentStays
<1>2. \A m \in net : m[1] \in Calls
  BY DEF Requests, TypeOK
<1>3. ASSUME NEW id \in Ids, record[id] = "pending" PROVE runner[id][1] \in Calls
  BY <1>3 DEF SentKnown, PendingKnown, RunsFor, Requests
<1>4. ASSUME net' \subseteq net,
             \A id \in Ids : record'[id] = "pending" => record[id] = "pending" /\ runner'[id] = runner[id]
      PROVE  Senders'
  BY <1>1, <1>2, <1>3, <1>4 DEF Senders, Sent, Meaning
<1>5. ASSUME NEW c \in Calls, SendWrite(c) \/ Retry(c) PROVE Senders'
  <2>1. /\ \E n : net' = net \cup {<<c, n, op[c]>>}
        /\ UNCHANGED <<record, runner, answer>> /\ pc'[c] = "sent" /\ pc[c] \in {"tool", "sent"}
    BY <1>5 DEF SendWrite, Retry, NoAnswer, api, TypeOK
  <2>2. Sent(c)'
    BY <2>1 DEF Sent, Meaning, AnsweredOnce
  <2>3. \A m \in net' : m \in net \/ m[1] = c
    BY <2>1
  <2>4. \A m \in net' : Sent(m[1])'
    BY <1>1, <1>2, <2>2, <2>3 DEF Senders
  <2>5. QED
    BY <1>1, <1>3, <2>1, <2>4 DEF Senders, Sent, Meaning
<1>6. ASSUME NEW m \in net, ApiAccepts(m) PROVE Senders'
  <2>1. m[3] \in Ids /\ net' \subseteq net /\ record' = [record EXCEPT ![m[3]] = "pending"]
        /\ runner' = [runner EXCEPT ![m[3]] = m] /\ UNCHANGED <<pc, answer>>
    BY <1>6 DEF ApiAccepts, call, Requests, TypeOK
  <2>2. \A id \in Ids : record'[id] = "pending" =>
          \/ record[id] = "pending" /\ runner'[id] = runner[id]
          \/ runner'[id] = m
    BY <2>1 DEF TypeOK
  <2>3. QED
    BY <2>1, <2>2 DEF Senders, Sent, Meaning
<1>7. ASSUME ~(\E c \in Calls : SendWrite(c) \/ Retry(c)), ~(\E m \in net : ApiAccepts(m))
      PROVE  Senders'
  <2>1. net' \subseteq net /\ runner' = runner
    BY <1>7 DEF Next, AgentCalls, CallWithId, CallWithoutId, CallWithMalformedId, ToolStep, Preview,
       FailBeforeWrite, RefuseWithoutId, SendUnrecorded, SdkStep, GiveUp, Receive,
       ReceiveUnreadable, UnrecordedEnds, Abandon, ApiStep, ApiLoses, ApiRepeats, ApiDoes,
       ApiRefuses, ApiCrashes, vars, api
  <2>2. \/ record' = record
        \/ \E id \in Ids, r \in {"done", "none", "unknown"} : record' = [record EXCEPT ![id] = r]
    BY <1>7 DEF Next, AgentCalls, CallWithId, CallWithoutId, CallWithMalformedId, ToolStep, Preview,
       FailBeforeWrite, RefuseWithoutId, SendUnrecorded, SdkStep, GiveUp, Receive,
       ReceiveUnreadable, UnrecordedEnds, Abandon, ApiStep, ApiLoses, ApiRepeats, ApiDoes,
       ApiRefuses, ApiCrashes, vars, api
  <2>3. \A id \in Ids : record'[id] = "pending" => record[id] = "pending"
    BY <2>2 DEF TypeOK
  <2>4. QED
    BY <1>4, <2>1, <2>3
<1>8. QED
  BY <1>5, <1>6, <1>7

LEMMA Refining == Spec => []RInv
<1>1. Init => RInv
  <2>1. Init => Senders /\ AnsweredOnce
    BY DEF Init, Senders, AnsweredOnce
  <2>2. Init => ToldTrue /\ OneDone
    BY DEF Init, ToldTrue, OneDone, Told, SaysDone
  <2>3. QED
    BY <2>1, <2>2, InitIInv DEF RInv, AInv
<1>2. RInv /\ [Next]_vars => RInv'
  <2>1. IInv /\ [Next]_vars => IInv'
    BY TypeStep, IdsStep, SentStep, EffectStep DEF IInv
  <2>2. AInv /\ [Next]_vars => AInv'
    BY <2>1, AnswerStep DEF AInv
  <2>3. RInv /\ [Next]_vars => Senders' /\ AnsweredOnce'
    BY SendersStep, SentStays DEF RInv, AInv, IInv
  <2>4. QED
    BY <2>2, <2>3 DEF RInv
<1>3. QED
  BY <1>1, <1>2, PTL DEF Spec

\* What the abstract variables are.
told == [c \in Calls |-> Meaning(c)]
seen == <<intent, told, known, effects>>

LEMMA MeaningIsOne ==
  ASSUME NEW c \in Calls
  PROVE  /\ told[c] = Meaning(c)
         /\ Meaning(c) \in {"nothing", "not sent", "did it", "was done", "open"}
         /\ Meaning(c) = "nothing" <=> answer[c] = "none"
         /\ Meaning(c) = "did it" <=> answer[c] = "done"
         /\ Meaning(c) = "was done" <=> answer[c] = "replayed"
BY DEF told, Meaning

LEMMA ToldMoves ==
  ASSUME NEW c \in Calls, \A d \in Calls \ {c} : answer'[d] = answer[d]
  PROVE  told' = [told EXCEPT ![c] = Meaning(c)']
BY DEF told, Meaning

\* An id that an intent gets is no other intent's.
LEMMA LearnsOwnId ==
  ASSUME TypeOK, IdsApart, NEW c \in Calls, Entered(c), Tell(c) \/ known' = known
  PROVE  Promise!MayLearn(intent[c])
<1>1. CASE known' = known
  BY <1>1 DEF Promise!MayLearn
<1>2. CASE known' # known
  <2>1. known[intent[c]] = None /\ known' = [known EXCEPT ![intent[c]] = op[c]]
    BY <1>2 DEF Tell
  <2>2. op[c] \in Ids
    BY IdsAssumption DEF IdsApart, TypeOK
  <2>3. \A j \in Intents : known[j] # op[c]
    BY <2>1, <2>2, IdsAssumption DEF IdsApart
  <2>4. QED
    BY <2>1, <2>2, <2>3 DEF Promise!MayLearn
<1>3. QED
  BY <1>1, <1>2

LEMMA AskRefines ==
  ASSUME RInv, NEW c \in Calls, AgentCalls(c)
  PROVE  \E i \in Intents : Promise!Ask(c, i)
<1>0. TypeOK /\ IdsApart
  BY DEF RInv, AInv, IInv
<1>1. PICK i \in Intents, id \in Ids :
        CallWithId(c, i, id) \/ CallWithoutId(c, i, id) \/ CallWithMalformedId(c, i, id)
  BY DEF AgentCalls
<1>2. /\ pc[c] = "idle" /\ intent' = [intent EXCEPT ![c] = i] /\ effects' = effects
      /\ answer' = answer \/ answer' = [answer EXCEPT ![c] = "invalid_operation_id"]
  BY <1>1 DEF CallWithId, CallWithoutId, CallWithMalformedId, Enter, api
<1>3. intent[c] = None
  BY <1>2 DEF RInv, AnsweredOnce
<1>4. told' \in {told, [told EXCEPT ![c] = "not sent"]}
  <2>1. CASE answer' = answer
    BY <2>1 DEF told, Meaning
  <2>2. CASE answer' = [answer EXCEPT ![c] = "invalid_operation_id"]
    <3>1. told' = [told EXCEPT ![c] = Meaning(c)']
      BY <1>0, <2>2, ToldMoves DEF TypeOK
    <3>2. Meaning(c)' = "not sent"
      BY <1>0, <2>2 DEF Meaning, TypeOK
    <3>3. QED
      BY <3>1, <3>2
  <2>3. QED
    BY <1>2, <2>1, <2>2
<1>5. Promise!MayLearn(i)
  <2>1. CASE known' = known
    BY <2>1 DEF Promise!MayLearn
  <2>2. CASE known' # known
    <3>1. known' = [known EXCEPT ![i] = id] /\ MayPass(i, id)
      BY <1>1, <2>2 DEF CallWithId, CallWithoutId, CallWithMalformedId
    <3>2. known[i] = None /\ id \notin issued
      BY <1>0, <2>2, <3>1 DEF MayPass, TypeOK
    <3>3. \A j \in Intents : known[j] # id
      BY <1>0, <3>2, IdsAssumption DEF IdsApart
    <3>4. QED
      BY <3>1, <3>2, <3>3 DEF Promise!MayLearn
  <2>3. QED
    BY <2>1, <2>2
<1>6. QED
  BY <1>2, <1>3, <1>4, <1>5 DEF Promise!Ask, told

LEMMA AnswerRefines ==
  ASSUME RInv, RInv', NEW c \in Calls, NEW a, Finish(c, a), a # "none",
         pc[c] \in {"tool", "sent", "unkeyed"}, effects' = effects,
         Tell(c) \/ known' = known
  PROVE  \E b \in {"not sent", "did it", "was done", "open"} : Promise!Answer(c, b)
<1> DEFINE b == Meaning(c)'
<1>0. TypeOK /\ IdsApart /\ Entered(c) /\ intent[c] \in Intents
  BY DEF RInv, AInv, IInv, Entered, IdsApart
<1>1. /\ intent' = intent /\ answer'[c] = a
      /\ \A d \in Calls \ {c} : answer'[d] = answer[d]
  BY <1>0 DEF Finish, TypeOK
<1>2. told' = [told EXCEPT ![c] = b]
  BY <1>1, ToldMoves
<1>3. told[c] = "nothing"
  BY MeaningIsOne DEF RInv, AnsweredOnce
<1>4. b \in {"not sent", "did it", "was done", "open"}
  BY <1>1 DEF Meaning
<1>5. b \in {"did it", "was done"} => effects[intent[c]] = 1
  <2>1. ASSUME b \in {"did it", "was done"} PROVE Told(c)'
    BY <2>1 DEF Meaning, Told
  <2>2. QED
    BY <1>1, <2>1 DEF RInv, AInv, ToldTrue
<1>6. ASSUME b = "did it", NEW d \in Calls, intent[d] = intent[c] PROVE told[d] # "did it"
  <2>1. SaysDone(c)'
    BY <1>6 DEF Meaning, SaysDone
  <2>2. ASSUME told[d] = "did it", d # c PROVE SaysDone(d)'
    BY <1>1, <2>2, MeaningIsOne DEF SaysDone
  <2>3. QED
    BY <1>1, <1>3, <1>6, <2>1, <2>2 DEF RInv, AInv, OneDone
<1>7. Promise!MayLearn(intent[c])
  BY <1>0, LearnsOwnId
<1>8. intent[c] # None
  BY <1>0, IdsAssumption
<1> HIDE DEF b
<1>9. Promise!Answer(c, b)
  BY <1>1, <1>2, <1>3, <1>5, <1>6, <1>7, <1>8 DEF Promise!Answer, told
<1>10. QED
  BY <1>4, <1>9

LEMMA EffectRefines ==
  ASSUME RInv, NEW id \in Ids, ApiDoes(id) \/ ApiCrashes(id), effects' # effects
  PROVE  \E i \in Intents : Promise!CarryOut(i)
<1>1. record[id] = "pending"
  BY DEF ApiDoes, ApiCrashes
<1>2. PICK c \in Calls : c = runner[id][1]
  BY <1>1 DEF RInv, AInv, IInv, SentKnown, PendingKnown, RunsFor, Requests
<1>3. intent[c] \in Intents /\ known[intent[c]] = id /\ effects[intent[c]] = 0
  BY <1>1, <1>2, PendingIntent DEF RInv, AInv, IInv
<1>4. effects' = [effects EXCEPT ![intent[c]] = @ + 1] /\ UNCHANGED <<intent, answer, known>>
  BY <1>2 DEF ApiDoes, ApiCrashes, call, agent
<1>5. effects' = [effects EXCEPT ![intent[c]] = 1]
  BY <1>3, <1>4 DEF RInv, AInv, IInv, TypeOK
<1>6. told[c] # "not sent"
  BY <1>1, <1>2, MeaningIsOne DEF RInv, Senders, Sent
<1>7. told' = told
  BY <1>4 DEF told, Meaning
<1>8. Promise!CarryOut(intent[c])
  BY <1>3, <1>4, <1>5, <1>6, <1>7, IdsAssumption DEF Promise!CarryOut, told
<1>9. QED
  BY <1>3, <1>8

LEMMA StepRefines == RInv /\ RInv' /\ [Next]_vars => [Promise!Next]_seen
<1> SUFFICES ASSUME RInv, RInv', [Next]_vars PROVE Promise!Next \/ seen' = seen
  OBVIOUS
<1>0. TypeOK
  BY DEF RInv, AInv, IInv
<1>1. ASSUME UNCHANGED <<intent, answer, known, effects>> PROVE seen' = seen
  BY <1>1 DEF seen, told, Meaning
<1>2. ASSUME NEW c \in Calls, AgentCalls(c) PROVE Promise!Next
  BY <1>2, AskRefines DEF Promise!Next
<1>3. ASSUME NEW c \in Calls, ToolStep(c) \/ SdkStep(c) \/ Abandon(c)
      PROVE  Promise!Next \/ seen' = seen
  <2>1. CASE SendWrite(c) \/ SendUnrecorded(c) \/ Retry(c)
    BY <1>1, <2>1 DEF SendWrite, SendUnrecorded, Retry, agent, api
  <2>2. CASE ~(SendWrite(c) \/ SendUnrecorded(c) \/ Retry(c))
    <3>1. \E a : /\ Finish(c, a) /\ a # "none" /\ effects' = effects
                 /\ pc[c] \in {"tool", "sent", "unkeyed"} /\ (Tell(c) \/ known' = known)
      BY <1>3, <2>2 DEF ToolStep, Preview, FailBeforeWrite, RefuseWithoutId, SdkStep, GiveUp,
         NoAnswer, Receive, ReceiveUnreadable, UnrecordedEnds, Abandon, agent, api
    <3>2. QED
      BY <3>1, AnswerRefines DEF Promise!Next
  <2>3. QED
    BY <2>1, <2>2
<1>4. ASSUME NEW m \in net, ApiLoses(m) \/ ApiAccepts(m) \/ ApiRepeats(m) PROVE seen' = seen
  BY <1>1, <1>4 DEF ApiLoses, ApiAccepts, ApiRepeats, call, agent, api
<1>5. ASSUME NEW id \in Ids, ApiDoes(id) \/ ApiRefuses(id) \/ ApiCrashes(id)
      PROVE  Promise!Next \/ seen' = seen
  <2>1. CASE effects' = effects
    BY <1>1, <1>5, <2>1 DEF ApiDoes, ApiRefuses, ApiCrashes, call, agent
  <2>2. CASE effects' # effects
    BY <1>5, <2>2, EffectRefines DEF ApiRefuses, Promise!Next
  <2>3. QED
    BY <2>1, <2>2
<1>6. CASE UNCHANGED vars
  BY <1>1, <1>6 DEF vars, call, agent, api
<1>7. QED
  BY <1>2, <1>3, <1>4, <1>5, <1>6 DEF Next, ApiStep

\* Whatever happens to calls, requests and records on the way, what the agent and the
\* user see of it is what OnceOnly allows.
THEOREM WritesKeepPromise == Spec => KeepsPromise
<1>1. Init => Promise!Init
  BY DEF Init, Promise!Init, Meaning
<1>2. RInv /\ RInv' /\ [Next]_vars => [Promise!Next]_<<intent, [c \in Calls |-> Meaning(c)], known, effects>>
  BY StepRefines DEF seen, told
<1>3. QED
  BY <1>1, <1>2, Refining, PTL DEF Spec, KeepsPromise, Promise!Spec

-----------------------------------------------------------------------------
(* Every call ends *)

\* Weak fairness of ToolStep(c) and of SdkStep(c), with their guards spelled out: a
\* tool can always go on, and the SDK's timeout ends every wait.
ToolRuns(c) == []<>~(pc[c] = "tool") \/ []<><<ToolStep(c)>>_vars
SdkRuns(c) == []<>~(pc[c] \in {"sent", "unkeyed"}) \/ []<><<SdkStep(c)>>_vars

\* How far a call is from its answer.
AtTool(c) == pc[c] = "tool"
AtFirst(c) == (pc[c] = "sent" /\ tries[c] = 1) \/ pc[c] = "unkeyed"
AtSecond(c) == pc[c] = "sent" /\ tries[c] = 2
Answered(c) == pc[c] = "answered"

SentHasTries == \A c \in Calls : pc[c] = "sent" => tries[c] # 0

LEMMA TriesStep ==
  ASSUME TypeOK, SentHasTries, [Next]_vars
  PROVE  SentHasTries'
<1>1. ASSUME NEW c \in Calls, AgentCalls(c) PROVE SentHasTries'
  BY <1>1 DEF AgentCalls, CallWithId, CallWithoutId, CallWithMalformedId, SentHasTries, TypeOK
<1>2. ASSUME NEW c \in Calls, SendWrite(c) \/ Retry(c) \/ SendUnrecorded(c) PROVE SentHasTries'
  <2>1. \A d \in Calls \ {c} : pc'[d] = pc[d] /\ tries'[d] = tries[d]
    BY <1>2 DEF SendWrite, Retry, SendUnrecorded, TypeOK
  <2>2. tries[c] \in Nat /\ (tries'[c] = 1 \/ tries'[c] = tries[c] + 1)
    BY <1>2 DEF SendWrite, Retry, SendUnrecorded, TypeOK
  <2>3. QED
    BY <2>1, <2>2 DEF SentHasTries
<1>3. ASSUME NEW c \in Calls, NEW a, Finish(c, a) PROVE SentHasTries'
  BY <1>3 DEF Finish, SentHasTries, TypeOK
<1>4. ASSUME NEW c \in Calls, ToolStep(c) \/ SdkStep(c) \/ Abandon(c) PROVE SentHasTries'
  BY <1>2, <1>3, <1>4 DEF ToolStep, Preview, FailBeforeWrite, RefuseWithoutId, SdkStep, GiveUp,
     Receive, ReceiveUnreadable, UnrecordedEnds, Abandon
<1>5. CASE ApiStep \/ UNCHANGED vars
  BY <1>5 DEF ApiStep, ApiLoses, ApiAccepts, ApiRepeats, ApiDoes, ApiRefuses, ApiCrashes, vars,
     call, SentHasTries
<1>6. QED
  BY <1>1, <1>4, <1>5 DEF Next

LEMMA SentTries == Spec => [](TypeOK /\ SentHasTries)
<1>1. Init => SentHasTries
  BY DEF Init, SentHasTries
<1>2. TypeOK /\ SentHasTries /\ [Next]_vars => SentHasTries'
  BY TriesStep
<1>3. QED
  BY <1>1, <1>2, TypeCorrect, PTL DEF Spec

\* A step of a call brings it nearer to its answer.
LEMMA CallDescends ==
  ASSUME TypeOK, NEW c \in Calls, ATTEMPTS = 2
  PROVE  /\ AtTool(c) /\ ToolStep(c) => AtFirst(c)' \/ Answered(c)'
         /\ AtFirst(c) /\ SdkStep(c) => AtSecond(c)' \/ Answered(c)'
         /\ AtSecond(c) /\ SdkStep(c) => Answered(c)'
         /\ ToolStep(c) => AtTool(c)
         /\ SdkStep(c) => pc[c] \in {"sent", "unkeyed"}
<1>1. ASSUME NEW a, Finish(c, a) PROVE Answered(c)'
  BY <1>1 DEF Finish, Answered, TypeOK
<1>2. ASSUME ToolStep(c) PROVE AtTool(c) /\ (AtFirst(c)' \/ Answered(c)')
  <2>1. AtTool(c)
    BY <1>2 DEF ToolStep, Preview, FailBeforeWrite, RefuseWithoutId, SendWrite, SendUnrecorded, AtTool
  <2>2. ASSUME SendWrite(c) \/ SendUnrecorded(c) PROVE AtFirst(c)'
    BY <2>2 DEF SendWrite, SendUnrecorded, AtFirst, TypeOK
  <2>3. QED
    BY <1>1, <1>2, <2>1, <2>2 DEF ToolStep, Preview, FailBeforeWrite, RefuseWithoutId
<1>3. ASSUME SdkStep(c)
      PROVE  /\ pc[c] \in {"sent", "unkeyed"}
             /\ \/ Answered(c)'
                \/ pc[c] = "sent" /\ pc'[c] = "sent" /\ tries[c] < 2 /\ tries'[c] = tries[c] + 1
  <2>1. pc[c] \in {"sent", "unkeyed"}
    BY <1>3 DEF SdkStep, Retry, GiveUp, NoAnswer, Receive, ReceiveUnreadable, UnrecordedEnds
  <2>2. CASE Retry(c)
    BY <2>2 DEF Retry, NoAnswer, TypeOK
  <2>3. QED
    BY <1>1, <1>3, <2>1, <2>2 DEF SdkStep, GiveUp, Receive, ReceiveUnreadable, UnrecordedEnds
<1>4. QED
  BY <1>2, <1>3 DEF AtFirst, AtSecond

\* And nobody's step leads away from it.
LEMMA CallNeverAscends ==
  ASSUME TypeOK, NEW c \in Calls, ATTEMPTS = 2, [Next]_vars
  PROVE  /\ AtTool(c) => AtTool(c)' \/ AtFirst(c)' \/ Answered(c)'
         /\ AtFirst(c) => AtFirst(c)' \/ AtSecond(c)' \/ Answered(c)'
         /\ AtSecond(c) => AtSecond(c)' \/ Answered(c)'
<1>1. ASSUME UNCHANGED <<pc, tries>>
      PROVE  /\ AtTool(c) => AtTool(c)'
             /\ AtFirst(c) => AtFirst(c)'
             /\ AtSecond(c) => AtSecond(c)'
  BY <1>1 DEF AtTool, AtFirst, AtSecond
<1>2. CASE ApiStep \/ UNCHANGED vars
  BY <1>1, <1>2 DEF ApiStep, ApiLoses, ApiAccepts, ApiRepeats, ApiDoes, ApiRefuses, ApiCrashes,
     vars, call
<1>3. ASSUME NEW d \in Calls \ {c}, AgentCalls(d) \/ ToolStep(d) \/ SdkStep(d) \/ Abandon(d)
      PROVE  pc'[c] = pc[c] /\ tries'[c] = tries[c]
  BY <1>3 DEF AgentCalls, CallWithId, CallWithoutId, CallWithMalformedId, ToolStep, Preview,
     FailBeforeWrite, RefuseWithoutId, SendWrite, SendUnrecorded, SdkStep, Retry, GiveUp, Receive,
     ReceiveUnreadable, UnrecordedEnds, Abandon, Finish, TypeOK
<1>4. CASE AgentCalls(c)
  BY <1>4 DEF AgentCalls, CallWithId, CallWithoutId, CallWithMalformedId, Enter, AtTool, AtFirst,
     AtSecond
<1>5. CASE Abandon(c)
  BY <1>5 DEF Abandon, Finish, Answered, TypeOK
<1>6. CASE ToolStep(c) \/ SdkStep(c)
  BY <1>6, CallDescends DEF AtTool, AtFirst, AtSecond
<1>7. QED
  BY <1>2, <1>3, <1>4, <1>5, <1>6 DEF Next, AtTool, AtFirst, AtSecond

\* With the one retry that client.py asks the SDK for (max_retries=1), every call of a
\* write tool is answered, whatever the API and the other calls do.
THEOREM RunningCallsEnd ==
  ASSUME ATTEMPTS = 2
  PROVE  Spec /\ (\A c \in Calls : ToolRuns(c) /\ SdkRuns(c)) => CallsEnd
<1>1. ASSUME NEW c \in Calls
      PROVE  Spec /\ ToolRuns(c) /\ SdkRuns(c) =>
               (pc[c] \in {"tool", "sent", "unkeyed"} ~> pc[c] = "answered")
  <2>1. TypeOK /\ SentHasTries /\ pc[c] \in {"tool", "sent", "unkeyed"}
          => AtTool(c) \/ AtFirst(c) \/ AtSecond(c)
    BY DEF TypeOK, SentHasTries, AtTool, AtFirst, AtSecond
  <2>2. /\ TypeOK /\ AtTool(c) /\ [Next]_vars => AtTool(c)' \/ AtFirst(c)' \/ Answered(c)'
        /\ TypeOK /\ AtFirst(c) /\ [Next]_vars => AtFirst(c)' \/ AtSecond(c)' \/ Answered(c)'
        /\ TypeOK /\ AtSecond(c) /\ [Next]_vars => AtSecond(c)' \/ Answered(c)'
    BY CallNeverAscends
  <2>3. /\ TypeOK /\ AtTool(c) /\ <<ToolStep(c)>>_vars => AtFirst(c)' \/ Answered(c)'
        /\ TypeOK /\ AtFirst(c) /\ <<SdkStep(c)>>_vars => AtSecond(c)' \/ Answered(c)'
        /\ TypeOK /\ AtSecond(c) /\ <<SdkStep(c)>>_vars => Answered(c)'
    BY CallDescends
  <2>4. /\ AtTool(c) => pc[c] = "tool"
        /\ AtFirst(c) \/ AtSecond(c) => pc[c] \in {"sent", "unkeyed"}
        /\ Answered(c) <=> pc[c] = "answered"
    BY DEF AtTool, AtFirst, AtSecond, Answered
  <2>5. QED
    BY <2>1, <2>2, <2>3, <2>4, SentTries, PTL DEF Spec, ToolRuns, SdkRuns
<1>2. QED
  BY <1>1 DEF CallsEnd
=============================================================================
