---------------------------- MODULE TargetsProofs ----------------------------
(***************************************************************************)
(* A request that is confirmed by the id of the thing changes only what    *)
(* its preview showed, and finds its answer when it retries, for any       *)
(* number of things, names and requests.                                   *)
(*                                                                         *)
(* Neither is inductive.  A request changes its `target`, so the target of *)
(* a confirmed request must be known to be the shown one (Kept), which     *)
(* holds because `ref` still is that id when the call resolves it.         *)
(* A retry finds the record because the record is about that same thing    *)
(* (Recorded).                                                             *)
(***************************************************************************)
EXTENDS Targets, TLAPS

\* A request that has not seen its preview has not confirmed or changed anything.
Early == \A q \in Requests :
  /\ pc[q] \in {"idle", "show", "shown"} => ~confirm[q]
  /\ pc[q] \in {"send", "unknown", "done"} => confirm[q]
  /\ ~confirm[q] => changed[q] = {} /\ recorded[q] = None
  /\ pc[q] = "shown" => target[q] \in shown[q]
  /\ pc[q] \in {"show", "shown"} /\ ref[q] \in Things => target[q] = ref[q]

\* A request confirmed by an id keeps the one that was shown; one with a label
\* under resolve_target goes no further.
Kept == \A q \in Requests : confirm[q] =>
  /\ ref[q] \in Things => ref[q] \in shown[q] /\ target[q] = ref[q]
  /\ ref[q] \notin Things /\ resolver[q] = "resolve_target" =>
       pc[q] \in {"look", "refused"} /\ changed[q] = {} /\ recorded[q] = None

\* What was changed, and what the record is about, is the id the request goes by.
Recorded == \A q \in Requests : confirm[q] /\ ref[q] \in Things =>
  /\ changed[q] \subseteq {ref[q]}
  /\ recorded[q] \in {None, ref[q]}
  /\ pc[q] \in {"unknown", "done"} => recorded[q] = ref[q]

\* An id is resolved without a read, so a done request is never refused.
IInv == TypeOK /\ Early /\ Kept /\ Recorded /\ RetryFindsRecord

-----------------------------------------------------------------------------
LEMMA InitIInv == Init => IInv
<1> SUFFICES ASSUME Init PROVE IInv
  OBVIOUS
<1>1. TypeOK
  BY DEF Init, TypeOK
<1>2. Early
  BY DEF Init, Early
<1>3. Kept /\ Recorded /\ RetryFindsRecord
  BY DEF Init, Kept, Recorded, RetryFindsRecord
<1>4. QED
  BY <1>1, <1>2, <1>3 DEF IInv

LEMMA BeginStep ==
  ASSUME IInv, NEW q \in Requests, NEW r \in Things \cup Labels \cup {None}, Begin(q, r)
  PROVE  IInv'
<1>1. TypeOK'
  BY DEF IInv, TypeOK, Begin
<1>2. Early'
  BY DEF IInv, TypeOK, Early, Begin
<1>3. Kept' /\ Recorded'
  BY DEF IInv, TypeOK, Early, Kept, Recorded, Begin
<1>4. RetryFindsRecord'
  BY DEF IInv, TypeOK, Early, RetryFindsRecord, ByTarget, Begin
<1>5. QED
  BY <1>1, <1>2, <1>3, <1>4 DEF IInv

LEMMA ResolveStep ==
  ASSUME IInv, NEW q \in Requests, NEW t \in Things, Resolve(q, t)
  PROVE  IInv'
<1>1. ref[q] \in Things => t = ref[q]
  <2> SUFFICES ASSUME ref[q] \in Things PROVE t = ref[q]
    OBVIOUS
  <2>1. ref[q] \notin Labels /\ ref[q] # None
    BY NamesAssumption
  <2>2. Candidates(q) = {ref[q]}
    BY <2>1 DEF Candidates
  <2>3. QED
    BY <2>2 DEF Resolve, Found
<1>2. ~(resolver[q] = "resolve_target" /\ confirm[q] /\ ref[q] \notin Things)
  <2> SUFFICES ASSUME resolver[q] = "resolve_target", confirm[q], ref[q] \notin Things
               PROVE  FALSE
    OBVIOUS
  <2>1. ref[q] \notin Labels
    BY DEF Resolve, Found, MayGoBy
  <2>2. ref[q] = None /\ None \notin Things /\ None \notin Labels
    BY <2>1, NamesAssumption DEF IInv, TypeOK
  <2>3. Candidates(q) = {}
    BY <2>2 DEF Candidates
  <2>4. QED
    BY <2>3 DEF Resolve, Found
<1>3. TypeOK'
  BY NamesAssumption DEF IInv, TypeOK, Resolve
<1>4. Early'
  BY <1>1 DEF IInv, TypeOK, Early, Resolve
<1>5. Kept'
  BY <1>1, <1>2 DEF IInv, TypeOK, Kept, Resolve
<1>6. Recorded'
  BY DEF IInv, TypeOK, Recorded, Resolve
<1>7. RetryFindsRecord'
  BY DEF IInv, TypeOK, RetryFindsRecord, ByTarget, Resolve
<1>8. QED
  BY <1>3, <1>4, <1>5, <1>6, <1>7 DEF IInv

LEMMA UnresolvedStep ==
  ASSUME IInv, NEW q \in Requests, Unresolved(q)
  PROVE  IInv'
<1>1. ref[q] \notin Things
  BY NamesAssumption DEF Unresolved, Found, MayGoBy, Candidates
<1>2. TypeOK' /\ Early'
  BY DEF IInv, TypeOK, Early, Unresolved
<1>3. Kept' /\ Recorded'
  BY DEF IInv, TypeOK, Kept, Recorded, Unresolved
<1>4. RetryFindsRecord'
  BY <1>1 DEF IInv, TypeOK, Early, Kept, RetryFindsRecord, ByTarget, Unresolved
<1>5. QED
  BY <1>2, <1>3, <1>4 DEF IInv

LEMMA PreviewStep ==
  ASSUME IInv, NEW q \in Requests, Preview(q)
  PROVE  IInv'
<1>1. TypeOK'
  BY DEF IInv, TypeOK, Preview
<1>2. Early'
  BY DEF IInv, TypeOK, Early, Preview
<1>3. Kept' /\ Recorded'
  BY DEF IInv, TypeOK, Early, Kept, Recorded, Preview
<1>4. RetryFindsRecord'
  BY DEF IInv, TypeOK, RetryFindsRecord, ByTarget, Preview
<1>5. QED
  BY <1>1, <1>2, <1>3, <1>4 DEF IInv

LEMMA ConfirmStep ==
  ASSUME IInv, NEW q \in Requests, NEW r \in Things \cup Labels \cup {None}, Confirm(q, r)
  PROVE  IInv'
<1>1. /\ ~confirm[q] /\ target[q] \in shown[q]
      /\ changed[q] = {} /\ recorded[q] = None
  BY DEF IInv, Early, Confirm
<1>2. TypeOK'
  BY DEF IInv, TypeOK, Confirm
<1>3. Early'
  BY DEF IInv, TypeOK, Early, Confirm
<1>4. r \in Things => r = target[q]
  BY DEF IInv, Early, Confirm
<1>5. Kept' /\ Recorded'
  BY <1>1, <1>4 DEF IInv, TypeOK, Kept, Recorded, Confirm
<1>6. RetryFindsRecord'
  BY DEF IInv, TypeOK, RetryFindsRecord, ByTarget, Confirm
<1>7. QED
  BY <1>2, <1>3, <1>5, <1>6 DEF IInv

LEMMA WriteStep ==
  ASSUME IInv, NEW q \in Requests, Write(q)
  PROVE  IInv'
<1>1. confirm[q] /\ target[q] \in Things
  BY DEF IInv, TypeOK, Early, Write
<1>2. resolver[q] = "resolve_target" => ref[q] \in Things
  BY <1>1 DEF IInv, Kept, Write
<1>3. ref[q] \in Things => target[q] = ref[q] /\ ref[q] \in shown[q]
  BY <1>1 DEF IInv, Kept
<1>4. PICK end \in {"done", "unknown"} : pc' = [pc EXCEPT ![q] = end]
  BY DEF Write
<1>5. UNCHANGED <<resolver, confirm, ref, target, shown>>
  BY DEF Write
<1>6. /\ recorded' = [recorded EXCEPT ![q] = target[q]]
      /\ \/ changed' = [changed EXCEPT ![q] = @ \cup {target[q]}]
         \/ changed' = changed
  BY DEF IInv, TypeOK, Write
<1>7. label' \in [Things -> Labels \cup {None}] /\ gone' \subseteq Things
  BY <1>1 DEF IInv, TypeOK, Write
<1>8. TypeOK'
  BY <1>1, <1>4, <1>5, <1>6, <1>7 DEF IInv, TypeOK
<1>9. Early'
  BY <1>1, <1>4, <1>5, <1>6 DEF IInv, TypeOK, Early
<1>10. Kept'
  BY <1>1, <1>2, <1>3, <1>4, <1>5, <1>6 DEF IInv, TypeOK, Kept
<1>11. Recorded'
  BY <1>1, <1>3, <1>4, <1>5, <1>6 DEF IInv, TypeOK, Recorded
<1>12. RetryFindsRecord'
  BY <1>4, <1>5, <1>6 DEF IInv, TypeOK, RetryFindsRecord, ByTarget
<1>13. QED
  BY <1>8, <1>9, <1>10, <1>11, <1>12 DEF IInv

LEMMA RetryStep ==
  ASSUME IInv, NEW q \in Requests, Retry(q)
  PROVE  IInv'
<1>1. TypeOK' /\ Early'
  BY DEF IInv, TypeOK, Early, Retry
<1>2. Kept' /\ Recorded'
  BY DEF IInv, TypeOK, Kept, Recorded, Retry
<1>3. RetryFindsRecord'
  BY DEF IInv, TypeOK, RetryFindsRecord, ByTarget, Retry
<1>4. QED
  BY <1>1, <1>2, <1>3 DEF IInv

LEMMA NotFoundStep ==
  ASSUME IInv, NEW q \in Requests, NotFound(q)
  PROVE  IInv'
<1>1. ByTarget(q) => recorded[q] = None
  <2>1. CASE pc[q] = "show"
    BY <2>1 DEF IInv, Early
  <2>2. CASE pc[q] = "send" /\ recorded[q] = None
    BY <2>2
  <2>3. CASE pc[q] = "send" /\ recorded[q] \notin {None, target[q]}
    BY <2>3 DEF IInv, Early, Kept, Recorded, ByTarget
  <2>4. QED
    BY <2>1, <2>2, <2>3 DEF NotFound
<1>2. TypeOK' /\ Early'
  BY DEF IInv, TypeOK, Early, NotFound
<1>3. Kept' /\ Recorded'
  BY DEF IInv, TypeOK, Kept, Recorded, NotFound
<1>4. RetryFindsRecord'
  BY <1>1 DEF IInv, TypeOK, RetryFindsRecord, ByTarget, NotFound
<1>5. QED
  BY <1>2, <1>3, <1>4 DEF IInv

\* What others do changes labels only.
LEMMA OthersStep ==
  ASSUME IInv, NEW t \in Things, NEW l \in Labels, Create(t, l) \/ Rename(t, l)
  PROVE  IInv'
<1>1. UNCHANGED calls /\ label' \in [Things -> Labels \cup {None}] /\ gone' \subseteq Things
  BY DEF IInv, TypeOK, Create, Rename
<1>2. QED
  BY <1>1 DEF IInv, TypeOK, Early, Kept, Recorded, RetryFindsRecord, ByTarget, calls

LEMMA DeleteStep ==
  ASSUME IInv, NEW t \in Things, Delete(t)
  PROVE  IInv'
<1>1. UNCHANGED calls /\ label' \in [Things -> Labels \cup {None}] /\ gone' \subseteq Things
  BY DEF IInv, TypeOK, Delete
<1>2. QED
  BY <1>1 DEF IInv, TypeOK, Early, Kept, Recorded, RetryFindsRecord, ByTarget, calls

-----------------------------------------------------------------------------
THEOREM Invariance == Spec => []IInv
<1>1. IInv /\ [Next]_vars => IInv'
  <2> SUFFICES ASSUME IInv, [Next]_vars PROVE IInv'
    OBVIOUS
  <2>1. CASE UNCHANGED vars
    BY <2>1 DEF vars, IInv, TypeOK, Early, Kept, Recorded, RetryFindsRecord, ByTarget
  <2>2. QED
    BY <2>1, BeginStep, ResolveStep, UnresolvedStep, PreviewStep, ConfirmStep, WriteStep,
       RetryStep, NotFoundStep, OthersStep, DeleteStep DEF Next
<1>2. QED
  BY <1>1, InitIInv, PTL DEF Spec

\* Every variable keeps its type, and no tool goes on without a target.
THEOREM TypeCorrect == Spec => []TypeOK
<1>1. IInv => TypeOK
  BY DEF IInv
<1>2. QED
  BY <1>1, Invariance, PTL

\* A request whose confirmed call goes by the id changes only what was shown.
THEOREM ConfirmedAsShown == Spec => []ChangesWhatWasShown
<1>1. ASSUME IInv, NEW q \in Requests, ByTarget(q) PROVE changed[q] \subseteq shown[q]
  <2>1. CASE ~confirm[q]
    BY <1>1, <2>1 DEF IInv, Early
  <2>2. CASE confirm[q] /\ ref[q] \in Things
    BY <1>1, <2>2 DEF IInv, Kept, Recorded
  <2>3. CASE confirm[q] /\ ref[q] \notin Things
    BY <1>1, <2>3 DEF IInv, Kept, ByTarget
  <2>4. QED
    BY <2>1, <2>2, <2>3
<1>2. IInv => ChangesWhatWasShown
  BY <1>1 DEF ChangesWhatWasShown
<1>3. QED
  BY <1>2, Invariance, PTL

\* And once it is done, no retry of such a request is refused.
THEOREM RetriesAreAnswered == Spec => []RetryFindsRecord
<1>1. IInv => RetryFindsRecord
  BY DEF IInv
<1>2. QED
  BY <1>1, Invariance, PTL
=============================================================================
