------------------------------- MODULE Writes -------------------------------
(***************************************************************************)
(* Writes to the Meshive API under an operation id: the wrapper of every   *)
(* write tool and `call` (tools/_common.py), the one automatic retry of    *)
(* the SDK client (client.py), and the operation record the API keeps.     *)
(*                                                                         *)
(* An action the user asked for is an intent.  The agent may call for it   *)
(* any number of times, also concurrently; once it has an operation id for *)
(* it, it keeps that one, as every description and answer tells it to.     *)
(* Arguments, prices and resources are left out: what matters here is who  *)
(* knows which id, what was sent under it, and how often it took effect.   *)
(***************************************************************************)
EXTENDS Integers, FiniteSets

CONSTANTS Calls, Intents, Ids,
          Unrecorded,    \* intents whose SDK method is in _UNRECORDED
          Malformed,     \* ids that do not match [A-Za-z0-9._:-]{8,128}
          None,
          ATTEMPTS       \* requests the SDK sends for a call: 1 + max_retries

ASSUME IdsAssumption == Malformed \subseteq Ids /\ None \notin Ids \cup Intents
ASSUME AttemptsAssumption == ATTEMPTS \in Nat \ {0}

VARIABLES
  pc,        \* where each tool call is
  intent,    \* what it is for
  op,        \* the wrapper's `op`
  supplied,  \* operation["supplied"]
  tries,     \* requests sent for the call
  reply,     \* the API's answer to the last of them, until it is read
  answer,    \* what the agent is told
  known,     \* the id the agent has for each intent
  issued,    \* ids in use
  net,       \* requests on their way: <<call, number, Idempotency-Key>>
  record,    \* the API's record of each id
  runner,    \* the request the API executes for each id
  effects    \* how often each intent was carried out

call == <<pc, intent, op, supplied, tries, reply, answer>>
agent == <<known, issued>>
api == <<record, runner, effects>>
vars == <<call, agent, net, api>>

Requests == Calls \X (1 .. ATTEMPTS) \X Ids

TypeOK ==
  /\ pc \in [Calls -> {"idle", "tool", "sent", "unkeyed", "answered"}]
  /\ intent \in [Calls -> Intents \cup {None}]
  /\ op \in [Calls -> Ids \cup {None}]
  /\ supplied \in [Calls -> BOOLEAN]
  /\ tries \in [Calls -> 0 .. ATTEMPTS]
  /\ reply \in [Calls -> {"none", "done", "replayed", "refused", "doubt"}]
  /\ answer \in [Calls -> {"none", "preview", "operation_id_required",
                           "invalid_operation_id", "refused", "doubt", "done", "replayed",
                           "ran", "response_too_large", "unexpected", "gone"}]
  /\ known \in [Intents -> Ids \cup {None}]
  /\ issued \subseteq Ids
  /\ net \subseteq Requests
  /\ record \in [Ids -> {"none", "pending", "done", "unknown"}]
  /\ runner \in [Ids -> Requests \cup {None}]
  /\ effects \in [Intents -> Nat]

Init ==
  /\ pc = [c \in Calls |-> "idle"]
  /\ intent = [c \in Calls |-> None]
  /\ op = [c \in Calls |-> None]
  /\ supplied = [c \in Calls |-> FALSE]
  /\ tries = [c \in Calls |-> 0]
  /\ reply = [c \in Calls |-> "none"]
  /\ answer = [c \in Calls |-> "none"]
  /\ known = [i \in Intents |-> None]
  /\ issued = {}
  /\ net = {}
  /\ record = [id \in Ids |-> "none"]
  /\ runner = [id \in Ids |-> None]
  /\ effects = [i \in Intents |-> 0]

-----------------------------------------------------------------------------
(* The wrapper *)

\* The agent passes the id it has, or else none or one it has just made up.
MayPass(i, id) == IF known[i] # None THEN id = known[i] ELSE id \in Ids \ issued

Enter(c, i, id, passed) ==
  /\ pc[c] = "idle"
  /\ intent' = [intent EXCEPT ![c] = i]
  /\ op' = [op EXCEPT ![c] = id]
  /\ supplied' = [supplied EXCEPT ![c] = passed]
  /\ issued' = issued \cup {id}

CallWithId(c, i, id) ==
  /\ MayPass(i, id) /\ id \notin Malformed
  /\ Enter(c, i, id, TRUE)
  /\ pc' = [pc EXCEPT ![c] = "tool"]
  /\ known' = [known EXCEPT ![i] = id]
  /\ UNCHANGED <<tries, reply, answer, net, api>>

\* The wrapper makes up an id that only its answer can tell the agent.
CallWithoutId(c, i, id) ==
  /\ known[i] = None
  /\ id \in Ids \ (issued \cup Malformed)
  /\ Enter(c, i, id, FALSE)
  /\ pc' = [pc EXCEPT ![c] = "tool"]
  /\ UNCHANGED <<tries, reply, answer, known, net, api>>

\* Refused before the tool runs; the agent drops the id, as next_step says.
CallWithMalformedId(c, i, id) ==
  /\ MayPass(i, id) /\ id \in Malformed
  /\ Enter(c, i, id, TRUE)
  /\ pc' = [pc EXCEPT ![c] = "answered"]
  /\ answer' = [answer EXCEPT ![c] = "invalid_operation_id"]
  /\ UNCHANGED <<tries, reply, known, net, api>>

Finish(c, a) ==
  /\ pc' = [pc EXCEPT ![c] = "answered"]
  /\ reply' = [reply EXCEPT ![c] = "none"]
  /\ answer' = [answer EXCEPT ![c] = a]
  /\ UNCHANGED <<intent, op, supplied, tries>>

\* The answer names `op`.  An agent without an id for this intent takes it from
\* there, if the answer reaches it.
Tell(c) ==
  LET i == intent[c] IN
  known' \in {known, IF known[i] = None THEN [known EXCEPT ![i] = op[c]] ELSE known}

\* confirm=false, or a question which workspace is meant: nothing is sent.  An answer over
\* 1 MiB is replaced by one that says so and no more (_bounded_result), here and below.
Preview(c) ==
  /\ pc[c] = "tool"
  /\ \E a \in {"preview", "response_too_large"} : Finish(c, a)
  /\ Tell(c)
  /\ UNCHANGED <<issued, net, api>>

\* A read before the write fails, or the tool refuses the arguments.
FailBeforeWrite(c) ==
  /\ pc[c] = "tool"
  /\ \E a \in {"refused", "doubt", "response_too_large"} : Finish(c, a)
  /\ Tell(c)
  /\ UNCHANGED <<issued, net, api>>

\* `call`: "No write was sent. A stable operation_id is required."
RefuseWithoutId(c) ==
  /\ pc[c] = "tool" /\ intent[c] \notin Unrecorded /\ ~supplied[c]
  /\ Finish(c, "operation_id_required")
  /\ Tell(c)
  /\ UNCHANGED <<issued, net, api>>

\* Mutant: the id the wrapper made up is sent too.
SendWriteUnderAnyId(c) ==
  /\ pc[c] = "tool" /\ intent[c] \notin Unrecorded
  /\ pc' = [pc EXCEPT ![c] = "sent"]
  /\ tries' = [tries EXCEPT ![c] = 1]
  /\ net' = net \cup {<<c, 1, op[c]>>}
  /\ UNCHANGED <<intent, op, supplied, reply, answer, agent, api>>

SendWrite(c) ==
  /\ pc[c] = "tool" /\ intent[c] \notin Unrecorded /\ supplied[c]
  /\ pc' = [pc EXCEPT ![c] = "sent"]
  /\ tries' = [tries EXCEPT ![c] = 1]
  /\ net' = net \cup {<<c, 1, op[c]>>}
  /\ UNCHANGED <<intent, op, supplied, reply, answer, agent, api>>

\* A write of _UNRECORDED needs no id and carries none: the API keeps no record.
SendUnrecorded(c) ==
  /\ pc[c] = "tool" /\ intent[c] \in Unrecorded
  /\ pc' = [pc EXCEPT ![c] = "unkeyed"]
  /\ tries' = [tries EXCEPT ![c] = 1]
  /\ UNCHANGED <<intent, op, supplied, reply, answer, agent, net, api>>

-----------------------------------------------------------------------------
(* The SDK: one automatic retry with the same Idempotency-Key *)

\* The last request has not been answered.
NoAnswer(c) == pc[c] = "sent" /\ reply[c] = "none"

\* Mutant: the retry is made under an id of its own.
RetryUnderNewId(c) ==
  /\ NoAnswer(c) /\ tries[c] < ATTEMPTS
  /\ tries' = [tries EXCEPT ![c] = @ + 1]
  /\ \E id \in Ids \ (issued \cup Malformed) :
       /\ net' = net \cup {<<c, tries[c] + 1, id>>}
       /\ issued' = issued \cup {id}
  /\ UNCHANGED <<pc, intent, op, supplied, reply, answer, known, api>>

\* Mutant: attempts are not counted.
RetryForever(c) ==
  /\ NoAnswer(c)
  /\ net' = net \cup {<<c, tries[c], op[c]>>}
  /\ UNCHANGED <<call, agent, api>>

\* Mutant: max_retries counts one request too few.
RetryOnceMore(c) ==
  /\ NoAnswer(c) /\ tries[c] <= ATTEMPTS
  /\ tries' = [tries EXCEPT ![c] = @ + 1]
  /\ net' = net \cup {<<c, tries[c] + 1, op[c]>>}
  /\ UNCHANGED <<pc, intent, op, supplied, reply, answer, agent, api>>

\* "Only a timeout is resent, with the same key."
Retry(c) ==
  /\ NoAnswer(c) /\ tries[c] < ATTEMPTS
  /\ tries' = [tries EXCEPT ![c] = @ + 1]
  /\ net' = net \cup {<<c, tries[c] + 1, op[c]>>}
  /\ UNCHANGED <<pc, intent, op, supplied, reply, answer, agent, api>>

\* temporarily_unavailable, with the advice to check and to reuse the id: the last request
\* has timed out, or any of them was cut off ("a cut-off write may have landed").
GiveUp(c) ==
  /\ NoAnswer(c)
  /\ Finish(c, "doubt")
  /\ UNCHANGED <<agent, net, api>>

\* Mutant: the SDK's `replayed` is not passed on.
ReceiveNotReplayed(c) ==
  /\ pc[c] = "sent" /\ reply[c] # "none"
  /\ Finish(c, IF reply[c] = "replayed" THEN "done" ELSE reply[c])
  /\ UNCHANGED <<agent, net, api>>

\* Mutant: a 409 for a repeated write is taken for its success.
ReceiveConflictAsDone(c) ==
  /\ pc[c] = "sent" /\ reply[c] # "none"
  /\ Finish(c, IF reply[c] = "doubt" THEN "replayed" ELSE reply[c])
  /\ UNCHANGED <<agent, net, api>>

Receive(c) ==
  /\ pc[c] = "sent" /\ reply[c] # "none"
  /\ Finish(c, reply[c])
  /\ UNCHANGED <<agent, net, api>>

\* Whatever came of the write: its answer is over 1 MiB, or one that `translate` has no
\* code for.
ReceiveUnreadable(c) ==
  /\ pc[c] = "sent" /\ reply[c] # "none"
  /\ \E a \in {"response_too_large", "unexpected"} : Finish(c, a)
  /\ UNCHANGED <<agent, net, api>>

\* What an unrecorded write does is not counted: it is done as often as it is sent.
UnrecordedEnds(c) ==
  /\ pc[c] = "unkeyed"
  /\ \E a \in {"ran", "refused", "doubt", "response_too_large", "unexpected"} : Finish(c, a)
  /\ Tell(c)
  /\ UNCHANGED <<issued, net, api>>

\* The agent's side gives up, or the server is restarted: no answer arrives.
Abandon(c) ==
  /\ pc[c] \in {"tool", "sent", "unkeyed"}
  /\ Finish(c, "gone")
  /\ UNCHANGED <<agent, net, api>>

-----------------------------------------------------------------------------
(* The API, as _common.py, errors.py and operation_status describe it *)

\* An answer reaches the SDK only while it still waits for that request.
Reply(m, r) ==
  LET c == m[1] IN
  reply' \in {reply,
              IF pc[c] = "sent" /\ tries[c] = m[2] THEN [reply EXCEPT ![c] = r] ELSE reply}

ApiLoses(m) ==
  /\ m \in net
  /\ net' = net \ {m}
  /\ UNCHANGED <<call, agent, api>>

ApiAccepts(m) ==
  LET id == m[3] IN
  /\ m \in net /\ record[id] = "none"
  /\ net' = net \ {m}
  /\ record' = [record EXCEPT ![id] = "pending"]
  /\ runner' = [runner EXCEPT ![id] = m]
  /\ UNCHANGED <<call, agent, effects>>

\* "The request will not execute again": the saved answer, or a 409.
ApiRepeats(m) ==
  LET id == m[3] IN
  /\ m \in net /\ record[id] # "none"
  /\ net' = net \ {m}
  /\ Reply(m, IF record[id] = "done" THEN "replayed" ELSE "doubt")
  /\ UNCHANGED <<pc, intent, op, supplied, tries, answer, agent, api>>

ApiDoes(id) ==
  /\ record[id] = "pending"
  /\ record' = [record EXCEPT ![id] = "done"]
  /\ effects' = [effects EXCEPT ![intent[runner[id][1]]] = @ + 1]
  /\ Reply(runner[id], "done")
  /\ UNCHANGED <<pc, intent, op, supplied, tries, answer, agent, net, runner>>

\* A refusal changes nothing and is not kept: the same id may ask again.
ApiRefuses(id) ==
  /\ record[id] = "pending"
  /\ record' = [record EXCEPT ![id] = "none"]
  /\ Reply(runner[id], "refused")
  /\ UNCHANGED <<pc, intent, op, supplied, tries, answer, agent, net, runner, effects>>

\* A worker dies while it executes, before or after the effect.
ApiCrashes(id) ==
  /\ record[id] = "pending"
  /\ record' = [record EXCEPT ![id] = "unknown"]
  /\ effects' \in {effects, [effects EXCEPT ![intent[runner[id][1]]] = @ + 1]}
  /\ UNCHANGED <<call, agent, net, runner>>

-----------------------------------------------------------------------------
AgentCalls(c) ==
  \E i \in Intents, id \in Ids :
    CallWithId(c, i, id) \/ CallWithoutId(c, i, id) \/ CallWithMalformedId(c, i, id)

ToolStep(c) ==
  \/ Preview(c) \/ FailBeforeWrite(c) \/ RefuseWithoutId(c) \/ SendWrite(c)
  \/ SendUnrecorded(c)

SdkStep(c) ==
  \/ Retry(c) \/ GiveUp(c) \/ Receive(c) \/ ReceiveUnreadable(c) \/ UnrecordedEnds(c)

ApiStep ==
  \/ \E m \in net : ApiLoses(m) \/ ApiAccepts(m) \/ ApiRepeats(m)
  \/ \E id \in Ids : ApiDoes(id) \/ ApiRefuses(id) \/ ApiCrashes(id)

Next ==
  \/ \E c \in Calls : AgentCalls(c) \/ ToolStep(c) \/ SdkStep(c) \/ Abandon(c)
  \/ ApiStep

Spec == Init /\ [][Next]_vars

\* A tool goes on and the SDK's timeout ends every wait; the API may be silent.
FairSpec == Spec /\ \A c \in Calls : WF_vars(ToolStep(c)) /\ WF_vars(SdkStep(c))

-----------------------------------------------------------------------------
(* Properties *)

\* However calls, retries, losses and crashes interleave, an intent is carried
\* out at most once ("a new ID means a new operation", _RECORDED_NOTE).
AtMostOnce == \A i \in Intents : effects[i] <= 1

\* Nothing is sent under an id the agent does not have: whatever may take effect
\* later, the agent can look it up and repeat it safely (`call`: "A stable
\* operation_id is required").
KnownBeforeSent ==
  \A id \in Ids :
    record[id] # "none" \/ (\E m \in net : m[3] = id)
      => \E i \in Intents : known[i] = id

\* What an answer says was done was done, however late the answer arrives.
DoneIsTrue ==
  \A c \in Calls :
    answer[c] \in {"done", "replayed"} => effects[intent[c]] = 1

\* What an answer says of the action asked for.
Meaning(c) ==
  CASE answer[c] = "none" -> "nothing"
    [] answer[c] \in {"preview", "operation_id_required", "invalid_operation_id"} -> "not sent"
    [] answer[c] = "done" -> "did it"
    [] answer[c] = "replayed" -> "was done"
    [] OTHER -> "open"

Promise == INSTANCE OnceOnly WITH
  asked <- intent, told <- [c \in Calls |-> Meaning(c)], held <- known, done <- effects

\* Seen by the agent and the user, every step of the wrapper, the SDK and the API is one
\* that OnceOnly allows: one call at most is told that it did it, the others that the
\* server had already done it (_REPLAYED_STEP), and a preview or a call without an id
\* ("No write was sent.") never takes effect.
KeepsPromise == Promise!Spec

\* Every call of a write tool is answered, even if the API never is.
CallsEnd == \A c \in Calls : pc[c] \in {"tool", "sent", "unkeyed"} ~> pc[c] = "answered"

\* Answers to which the wrapper adds that any retry "MUST reuse this operation_id"
\* (every code outside _OWN_RETRY_ADVICE_CODES; of a refusal, it depends).
SaysReuse(c) ==
  /\ answer[c] \in {"operation_id_required", "invalid_operation_id", "doubt"}
  /\ intent[c] \notin Unrecorded

\* NEXT_STEP_UNAVAILABLE: "For a write, check operation_status first; reuse the original
\* operation_id", whichever write it was.
SaysLookUp(c) == answer[c] = "doubt" /\ tries[c] > 0

\* Advice fits the operation it is given for.  An id to reuse is one that is accepted (the
\* comment at _OWN_RETRY_ADVICE_CODES), and an operation to look up has a record
\* (meshive_tool: the retry advice of an unrecorded write says "that a repeated call runs
\* again instead of pointing at operation_status").
AdviceCanBeFollowed ==
  \A c \in Calls :
    /\ SaysReuse(c) => op[c] \notin Malformed
    /\ SaysLookUp(c) => intent[c] \notin Unrecorded
=============================================================================
