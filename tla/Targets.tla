------------------------------ MODULE Targets ------------------------------
(***************************************************************************)
(* Which workspace or pod a call is about: `resolve`, `resolve_target` and *)
(* `resolve_pod` (workspace.py), and the tools that show a preview, wait   *)
(* for the user and are called again with confirm=true                     *)
(* (tools/workspaces.py, delete_pod).                                      *)
(*                                                                         *)
(* The server keeps nothing between the two calls: each one resolves what  *)
(* it is given, in one request, and acts in another.  Meanwhile things     *)
(* come, go and change their names, which others may take.                 *)
(***************************************************************************)
EXTENDS FiniteSets

CONSTANTS Things,     \* ids, of workspaces or pods
          Labels,
          Requests,   \* what the user asks for: a preview, a confirmed call, its retries
          Resolvers,  \* those of the tools in use
          None

ASSUME NamesAssumption ==
  /\ None \notin Things \cup Labels /\ Things \cap Labels = {}
  /\ Resolvers \subseteq {"resolve", "resolve_target", "resolve_pod"}

VARIABLES
  label,     \* the label of each thing that exists
  gone,      \* things that existed
  pc, resolver, confirm,
  ref,       \* the argument: an id, a label, or None (left out, or blank)
  target,    \* what the call made of it
  shown,     \* things the request's preview showed the user
  changed,   \* things it changed
  recorded   \* the thing the API's record of its operation_id is about

vars == <<label, gone, pc, resolver, confirm, ref, target, shown, changed, recorded>>
calls == <<pc, resolver, confirm, ref, target, shown, changed, recorded>>

Exists(t) == label[t] # None

TypeOK ==
  /\ label \in [Things -> Labels \cup {None}]
  /\ gone \subseteq Things
  /\ pc \in [Requests -> {"idle", "look", "show", "shown", "send", "unknown", "done", "refused"}]
  /\ resolver \in [Requests -> Resolvers]
  /\ confirm \in [Requests -> BOOLEAN]
  /\ ref \in [Requests -> Things \cup Labels \cup {None}]
  /\ target \in [Requests -> Things \cup {None}]
  /\ shown \in [Requests -> SUBSET Things] /\ changed \in [Requests -> SUBSET Things]
  /\ recorded \in [Requests -> Things \cup {None}]
  /\ \A q \in Requests : pc[q] \in {"show", "shown", "send"} => target[q] # None

Init ==
  /\ label \in [Things -> Labels \cup {None}]
  /\ gone = {}
  /\ pc = [q \in Requests |-> "idle"]
  /\ resolver \in [Requests -> Resolvers]
  /\ confirm = [q \in Requests |-> FALSE]
  /\ ref = [q \in Requests |-> None] /\ target = [q \in Requests |-> None]
  /\ shown = [q \in Requests |-> {}] /\ changed = [q \in Requests |-> {}]
  /\ recorded = [q \in Requests |-> None]

-----------------------------------------------------------------------------
(* Resolving *)

\* The things the argument can stand for, in the list as it is now.  resolve_target
\* and resolve_pod never pick one when there is no argument.
Candidates(q) ==
  CASE ref[q] \in Things -> {ref[q]}
    [] ref[q] \in Labels -> {t \in Things : label[t] = ref[q]}
    [] ref[q] = None -> IF resolver[q] = "resolve" THEN {t \in Things : Exists(t)} ELSE {}

\* Mutant: a confirmed call may go by the label as well.
MayBeAnyLabel(q) == TRUE
\* resolve_target refuses a label with confirm=true, before it reads anything.
MayGoBy(q) == ~(resolver[q] = "resolve_target" /\ confirm[q] /\ ref[q] \in Labels)

\* One candidate, no more and no less; the others are errors or a question to the user.
Found(q, t) == MayGoBy(q) /\ t # None /\ Candidates(q) = {t}

-----------------------------------------------------------------------------
(* A request *)

\* confirm=false, with whatever the user or the agent calls it.
Begin(q, r) ==
  /\ pc[q] = "idle"
  /\ ref' = [ref EXCEPT ![q] = r]
  /\ pc' = [pc EXCEPT ![q] = "look"]
  /\ UNCHANGED <<label, gone, resolver, confirm, target, shown, changed, recorded>>

Resolve(q, t) ==
  /\ pc[q] = "look" /\ Found(q, t)
  /\ target' = [target EXCEPT ![q] = t]
  /\ pc' = [pc EXCEPT ![q] = IF confirm[q] THEN "send" ELSE "show"]
  /\ UNCHANGED <<label, gone, resolver, confirm, ref, shown, changed, recorded>>

\* Mutant: the tool goes on without `if needs_input(ws): return ws`.
UnresolvedGoesOn(q) ==
  /\ pc[q] = "look" /\ ~\E t \in Things : Found(q, t)
  /\ pc' = [pc EXCEPT ![q] = IF confirm[q] THEN "send" ELSE "show"]
  /\ UNCHANGED <<label, gone, resolver, confirm, ref, target, shown, changed, recorded>>

\* An error that lists the candidates, or the question which one it is to be.
Unresolved(q) ==
  /\ pc[q] = "look" /\ ~\E t \in Things : Found(q, t)
  /\ pc' = [pc EXCEPT ![q] = "refused"]
  /\ UNCHANGED <<label, gone, resolver, confirm, ref, target, shown, changed, recorded>>

\* The read the preview is made of.
Preview(q) ==
  /\ pc[q] = "show" /\ Exists(target[q])
  /\ shown' = [shown EXCEPT ![q] = @ \cup {target[q]}]
  /\ pc' = [pc EXCEPT ![q] = "shown"]
  /\ UNCHANGED <<label, gone, resolver, confirm, ref, target, changed, recorded>>

\* The user agreed: the agent calls again with the same arguments, or, as
\* _CONFIRM_BY_ID says, with the id from the preview.
Confirm(q, r) ==
  /\ pc[q] = "shown" /\ r \in {ref[q], target[q]}
  /\ ref' = [ref EXCEPT ![q] = r]
  /\ confirm' = [confirm EXCEPT ![q] = TRUE]
  /\ pc' = [pc EXCEPT ![q] = "look"]
  /\ UNCHANGED <<label, gone, resolver, target, shown, changed, recorded>>

\* The write: it renames the thing (or keeps its label) or deletes it, or finds the
\* API's answer to an earlier call.  The answer may be lost.
Write(q) ==
  LET t == target[q] IN
  /\ pc[q] = "send"
  /\ \/ /\ recorded[q] = None /\ Exists(t)
        /\ \E l \in Labels \cup {None} :
             /\ label' = [label EXCEPT ![t] = l]
             /\ gone' = IF l = None THEN gone \cup {t} ELSE gone
        /\ changed' = [changed EXCEPT ![q] = @ \cup {t}]
        /\ recorded' = [recorded EXCEPT ![q] = t]
     \/ recorded[q] = t /\ UNCHANGED <<label, gone, changed, recorded>>
  /\ \E end \in {"done", "unknown"} : pc' = [pc EXCEPT ![q] = end]
  /\ UNCHANGED <<resolver, confirm, ref, target, shown>>

\* "Any retry MUST reuse this operation_id and the same arguments"
Retry(q) ==
  /\ pc[q] = "unknown"
  /\ pc' = [pc EXCEPT ![q] = "look"]
  /\ UNCHANGED <<label, gone, resolver, confirm, ref, target, shown, changed, recorded>>

\* The API has no such thing, or a record of this operation_id for another one.
NotFound(q) ==
  /\ \/ pc[q] = "show" /\ ~Exists(target[q])
     \/ pc[q] = "send" /\ recorded[q] = None /\ ~Exists(target[q])
     \/ pc[q] = "send" /\ recorded[q] \notin {None, target[q]}
  /\ pc' = [pc EXCEPT ![q] = "refused"]
  /\ UNCHANGED <<label, gone, resolver, confirm, ref, target, shown, changed, recorded>>

-----------------------------------------------------------------------------
(* The user and other members meanwhile (external) *)

Create(t, l) ==
  /\ ~Exists(t) /\ t \notin gone
  /\ label' = [label EXCEPT ![t] = l]
  /\ UNCHANGED <<gone, calls>>

Rename(t, l) ==
  /\ Exists(t)
  /\ label' = [label EXCEPT ![t] = l]
  /\ UNCHANGED <<gone, calls>>

Delete(t) ==
  /\ Exists(t)
  /\ label' = [label EXCEPT ![t] = None]
  /\ gone' = gone \cup {t}
  /\ UNCHANGED calls

-----------------------------------------------------------------------------
Next ==
  \/ \E q \in Requests :
       \/ \E r \in Things \cup Labels \cup {None} : Begin(q, r) \/ Confirm(q, r)
       \/ \E t \in Things : Resolve(q, t)
       \/ Unresolved(q) \/ Preview(q) \/ Write(q) \/ Retry(q) \/ NotFound(q)
  \/ \E t \in Things :
       \/ \E l \in Labels : Create(t, l) \/ Rename(t, l)
       \/ Delete(t)

Spec == Init /\ [][Next]_vars

-----------------------------------------------------------------------------
(* Properties *)

\* Requests whose confirmed call names the thing itself: the tools that insist on
\* it, and an agent that does so on its own.
ByTarget(q) == resolver[q] = "resolve_target" \/ ref[q] \in Things

\* Whatever is renamed, deleted or created between the preview and the confirmed
\* call, or between the two requests of one call, such a request changes only what
\* its preview showed.
ChangesWhatWasShown == \A q \in Requests : ByTarget(q) => changed[q] \subseteq shown[q]

\* And once the API has done it, a retry always gets that answer, though the label
\* may be gone by then, and the thing itself.
RetryFindsRecord ==
  \A q \in Requests : ByTarget(q) /\ recorded[q] # None => pc[q] # "refused"

\* The docstring of delete_pod: "With confirm=false (default) it only returns what
\* would be deleted; call again with confirm=true after the user agreed."
DeletesWhatWasShown == \A q \in Requests : changed[q] \subseteq shown[q]
=============================================================================
