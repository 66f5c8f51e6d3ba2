------------------------------ MODULE OnceOnly ------------------------------
(***************************************************************************)
(* What the write tools promise of an action the user asks for, without    *)
(* requests, retries, records and crashes: it is carried out at most once, *)
(* under one operation id that the agent has by then; what calls for it    *)
(* are told is so, and once every call for it was told that nothing was    *)
(* sent, nothing comes of it.  Writes shows that the wrapper, the SDK and  *)
(* the API implement this.                                                 *)
(***************************************************************************)
EXTENDS Naturals

CONSTANTS Calls, Intents, Ids, None

VARIABLES
  asked,  \* what each call is for
  told,   \* what it has been told
  held,   \* the operation id the agent has for each intent
  done    \* how often each intent has been carried out

Init ==
  /\ asked = [c \in Calls |-> None]
  /\ told = [c \in Calls |-> "nothing"]
  /\ held = [i \in Intents |-> None]
  /\ done = [i \in Intents |-> 0]

\* An id belongs to one intent, and an intent keeps its id.
MayLearn(i) ==
  \/ held' = held
  \/ /\ held[i] = None
     /\ \E id \in Ids : held' = [held EXCEPT ![i] = id] /\ \A j \in Intents : held[j] # id

\* A call, which may be turned away at once.
Ask(c, i) ==
  /\ asked[c] = None
  /\ asked' = [asked EXCEPT ![c] = i]
  /\ told' \in {told, [told EXCEPT ![c] = "not sent"]}
  /\ MayLearn(i)
  /\ UNCHANGED done

CarryOut(i) ==
  /\ done[i] = 0 /\ held[i] # None
  /\ \E c \in Calls : asked[c] = i /\ told[c] # "not sent"
  /\ done' = [done EXCEPT ![i] = 1]
  /\ UNCHANGED <<asked, told, held>>

\* "open": it may or may not have been, or may yet be, carried out.
Answer(c, a) ==
  /\ asked[c] # None /\ told[c] = "nothing"
  /\ a \in {"did it", "was done"} => done[asked[c]] = 1
  /\ a = "did it" => \A d \in Calls : asked[d] = asked[c] => told[d] # "did it"
  /\ told' = [told EXCEPT ![c] = a]
  /\ MayLearn(asked[c])
  /\ UNCHANGED <<asked, done>>

Next ==
  \/ \E c \in Calls, i \in Intents : Ask(c, i)
  \/ \E i \in Intents : CarryOut(i)
  \/ \E c \in Calls, a \in {"not sent", "did it", "was done", "open"} : Answer(c, a)

Spec == Init /\ [][Next]_<<asked, told, held, done>>

=============================================================================
