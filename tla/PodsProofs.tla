----------------------------- MODULE PodsProofs -----------------------------
(***************************************************************************)
(* The properties of Pods for any number of calls and folders and without  *)
(* a bound on the revisions that are reached.  Two things hold of a call   *)
(* on its way: if it carries allow_data_loss for a move, the user agreed   *)
(* to that move (Backed); and as long as the revision it was made from is  *)
(* the current one, it was made from the current set, and it watches       *)
(* nothing more unless it is confirmed (Based).                            *)
(***************************************************************************)
EXTENDS Pods, TLAPS

Backed ==
  \A c \in Calls : pc[c] # "idle" /\ allow[c] /\ how[c] \in Moves => how[c] \in agreed

\* A reading of the current revision is a reading of the current set.
Current(reading) ==
  reading.revision <= version /\ (reading.revision = version => reading.on = watched)

Based ==
  \A c \in Calls : pc[c] # "idle" /\ how[c] = "folders" =>
    /\ Current(base[c])
    /\ pc[c] = "send" /\ ~confirm[c] /\ base[c].revision = version
         => wanted[c] \subseteq watched

IInv == TypeOK /\ Backed /\ Current(seen) /\ Based

\* A call that ends leaves the others as they were.
LEMMA EndCallStep ==
  ASSUME TypeOK, NEW c \in Calls, EndCall(c)
  PROVE  /\ pc' \in [Calls -> {"idle", "look", "send"}]
         /\ how' \in [Calls -> Starts \cup Edits \cup {"folders"}]
         /\ allow' \in [Calls -> BOOLEAN] /\ confirm' \in [Calls -> BOOLEAN]
         /\ base' \in [Calls -> Readings] /\ wanted' \in [Calls -> SUBSET Folders]
         /\ pc'[c] = "idle"
         /\ \A d \in Calls \ {c} :
              /\ pc'[d] = pc[d] /\ how'[d] = how[d] /\ allow'[d] = allow[d]
              /\ confirm'[d] = confirm[d] /\ base'[d] = base[d] /\ wanted'[d] = wanted[d]
<1>1. NoReading \in Readings
  BY DEF NoReading, Readings
<1>2. QED
  BY <1>1 DEF TypeOK, EndCall

\* The end of a call that changes neither the folders nor takes a consent back.
LEMMA EndKeepsIInv ==
  ASSUME IInv, NEW c \in Calls, EndCall(c), unpreserved' \in BOOLEAN, reported' = reported,
         agreed' \subseteq Moves, agreed \subseteq agreed', UNCHANGED <<folders, seen>>
  PROVE  IInv'
<1>1. TypeOK'
  BY EndCallStep DEF IInv, TypeOK, folders
<1>2. Backed'
  BY EndCallStep DEF IInv, Backed
<1>3. Current(seen)'
  BY DEF IInv, Current, folders
<1>4. Based'
  BY EndCallStep DEF IInv, Based, Current, folders
<1>5. QED
  BY <1>1, <1>2, <1>3, <1>4 DEF IInv

-----------------------------------------------------------------------------
LEMMA InitIInv == Init => IInv
<1> SUFFICES ASSUME Init PROVE IInv
  OBVIOUS
<1>1. TypeOK
  BY DEF Init, TypeOK, Readings, NoReading
<1>2. Backed /\ Current(seen) /\ Based
  BY DEF Init, Backed, Current, Based
<1>3. QED
  BY <1>1, <1>2 DEF IInv

LEMMA StartOrEditStep ==
  ASSUME IInv, NEW c \in Calls, NEW h \in Starts \cup Edits, NEW a \in BOOLEAN,
         NEW ok \in BOOLEAN, StartOrEdit(c, h, a, ok)
  PROVE  IInv'
<1>1. h # "folders"
  BY DEF Starts, Edits, Placements, Moving
<1>2. TypeOK'
  BY DEF IInv, TypeOK, StartOrEdit, pod, folders
<1>3. Backed'
  BY DEF IInv, TypeOK, Backed, StartOrEdit
<1>4. Current(seen)' /\ Based'
  BY <1>1 DEF IInv, TypeOK, Based, Current, StartOrEdit, folders
<1>5. QED
  BY <1>2, <1>3, <1>4 DEF IInv

LEMMA SetFoldersStep ==
  ASSUME IInv, NEW c \in Calls, NEW set \in SUBSET Folders, NEW ok \in BOOLEAN,
         SetFolders(c, set, ok)
  PROVE  IInv'
<1>1. "folders" \notin Moves
  BY DEF Moves, Moving
<1>2. TypeOK'
  BY DEF IInv, TypeOK, SetFolders, pod, folders
<1>3. Backed'
  BY <1>1 DEF IInv, TypeOK, Backed, SetFolders
<1>4. Current(seen)' /\ Based'
  BY DEF IInv, TypeOK, Based, Current, SetFolders, folders
<1>5. QED
  BY <1>2, <1>3, <1>4 DEF IInv

LEMMA ReadFoldersStep == IInv /\ ReadFolders => IInv'
<1> SUFFICES ASSUME IInv, ReadFolders PROVE IInv'
  OBVIOUS
<1>1. TypeOK'
  BY DEF IInv, TypeOK, ReadFolders, pod, folders, call, Readings
<1>2. Backed'
  BY DEF IInv, Backed, ReadFolders, call
<1>3. Current(seen)' /\ Based'
  BY DEF IInv, TypeOK, Based, Current, ReadFolders, folders, call
<1>4. QED
  BY <1>1, <1>2, <1>3 DEF IInv

LEMMA ShowPodStep ==
  ASSUME IInv, NEW c \in Calls, ShowPod(c)
  PROVE  IInv'
<1>1. agreed \subseteq agreed' /\ agreed' \subseteq Moves
  BY DEF IInv, TypeOK, ShowPod, Loss
<1>2. QED
  BY <1>1, EndKeepsIInv DEF IInv, TypeOK, ShowPod, pod, folders

\* A call that goes on to its write keeps what it carries.
LEMMA GoOnStep ==
  ASSUME IInv, NEW c \in Calls, GoOn(c)
  PROVE  IInv'
<1>1. TypeOK'
  BY DEF IInv, TypeOK, GoOn, Go, pod, folders
<1>2. Backed'
  BY DEF IInv, TypeOK, Backed, GoOn, Go
<1>3. Current(seen)' /\ Based'
  BY DEF IInv, TypeOK, Based, Current, GoOn, Go, folders
<1>4. QED
  BY <1>1, <1>2, <1>3 DEF IInv

LEMMA LookFoldersStep ==
  ASSUME IInv, NEW c \in Calls, LookFolders(c)
  PROVE  IInv'
<1>1. CASE Grows(c) # {}
  BY <1>1, EndKeepsIInv DEF IInv, TypeOK, LookFolders, pod, folders
<1>2. CASE Grows(c) = {}
  <2>1. wanted[c] \subseteq watched /\ Go(c, "send") /\ UNCHANGED <<pod, agreed, folders, seen>>
    BY <1>2 DEF LookFolders, Grows
  <2>2. TypeOK'
    BY <2>1 DEF IInv, TypeOK, Go, pod, folders
  <2>3. Backed'
    BY <2>1 DEF IInv, TypeOK, Backed, LookFolders, Go
  <2>4. Current(seen)' /\ Based'
    BY <2>1 DEF IInv, TypeOK, Based, Current, LookFolders, Go, folders
  <2>5. QED
    BY <2>2, <2>3, <2>4 DEF IInv
<1>3. QED
  BY <1>1, <1>2

LEMMA AcceptedStep ==
  ASSUME IInv, NEW c \in Calls, NEW p \in Placements \cup Edits, NEW moves \in BOOLEAN,
         Accepted(c, p, moves)
  PROVE  IInv'
BY EndKeepsIInv DEF IInv, TypeOK, Accepted, folders

LEMMA RefusedForLossStep ==
  ASSUME IInv, NEW c \in Calls, NEW p \in Placements \cup Edits, RefusedForLoss(c, p)
  PROVE  IInv'
<1>1. agreed \subseteq agreed' /\ agreed' \subseteq Moves
  BY DEF IInv, TypeOK, RefusedForLoss, AsksConsent
<1>2. QED
  BY <1>1, EndKeepsIInv DEF IInv, TypeOK, RefusedForLoss, pod, folders

\* What was read before a new revision is of an older one.
LEMMA SetAcceptedStep ==
  ASSUME IInv, NEW c \in Calls, SetAccepted(c)
  PROVE  IInv'
<1>1. TypeOK'
  BY EndCallStep DEF IInv, TypeOK, SetAccepted, pod
<1>2. Backed'
  BY EndCallStep DEF IInv, Backed, SetAccepted
<1>3. Current(seen)'
  BY DEF IInv, TypeOK, Current, SetAccepted, Readings
<1>4. Based'
  <2> SUFFICES ASSUME NEW d \in Calls, pc'[d] # "idle", how'[d] = "folders"
               PROVE  base'[d].revision <= version' /\ base'[d].revision # version'
    BY DEF Based, Current
  <2>1. d # c /\ pc[d] # "idle" /\ how[d] = "folders" /\ base'[d] = base[d]
    BY EndCallStep DEF IInv, SetAccepted
  <2>2. base[d].revision <= version /\ base[d].revision \in Nat
    BY <2>1 DEF IInv, TypeOK, Based, Current, Readings
  <2>3. QED
    BY <2>1, <2>2 DEF IInv, TypeOK, SetAccepted
<1>5. QED
  BY <1>1, <1>2, <1>3, <1>4 DEF IInv

LEMMA FailsStep ==
  ASSUME IInv, NEW c \in Calls, Fails(c)
  PROVE  IInv'
BY EndKeepsIInv DEF IInv, TypeOK, Fails, pod, folders

LEMMA FilesChangeStep == IInv /\ FilesChange => IInv'
<1> SUFFICES ASSUME IInv, FilesChange PROVE IInv'
  OBVIOUS
<1>1. TypeOK'
  BY DEF IInv, TypeOK, FilesChange, folders, call
<1>2. Backed' /\ Current(seen)' /\ Based'
  BY DEF IInv, Backed, Current, Based, FilesChange, folders, call
<1>3. QED
  BY <1>1, <1>2 DEF IInv

LEMMA OthersSetFoldersStep ==
  ASSUME IInv, NEW set \in SUBSET Folders, OthersSetFolders(set)
  PROVE  IInv'
<1>1. TypeOK'
  BY DEF IInv, TypeOK, OthersSetFolders, pod, call
<1>2. Backed'
  BY DEF IInv, Backed, OthersSetFolders, call
<1>3. Current(seen)' /\ Based'
  BY DEF IInv, TypeOK, Based, Current, OthersSetFolders, call, Readings
<1>4. QED
  BY <1>1, <1>2, <1>3 DEF IInv

LEMMA NextIInv == IInv /\ [Next]_vars => IInv'
<1> SUFFICES ASSUME IInv, [Next]_vars PROVE IInv'
  OBVIOUS
<1>1. ASSUME NEW c \in Calls, NEW h \in Starts \cup Edits, NEW a \in BOOLEAN, NEW ok \in BOOLEAN,
             StartOrEdit(c, h, a, ok)
      PROVE  IInv'
  BY <1>1, StartOrEditStep
<1>2. ASSUME NEW c \in Calls, NEW set \in SUBSET Folders, NEW ok \in BOOLEAN, SetFolders(c, set, ok)
      PROVE  IInv'
  BY <1>2, SetFoldersStep
<1>3. ASSUME NEW c \in Calls, MoveStep(c) PROVE IInv'
  BY <1>3, ShowPodStep, GoOnStep, RefusedForLossStep, AcceptedStep DEF MoveStep
<1>4. ASSUME NEW c \in Calls, LookFolders(c) \/ SetAccepted(c) \/ Fails(c) PROVE IInv'
  BY <1>4, LookFoldersStep, SetAcceptedStep, FailsStep
<1>5. CASE ReadFolders \/ FilesChange
  BY <1>5, ReadFoldersStep, FilesChangeStep
<1>6. ASSUME NEW set \in SUBSET Folders, OthersSetFolders(set) PROVE IInv'
  BY <1>6, OthersSetFoldersStep
<1>7. CASE UNCHANGED vars
  BY <1>7 DEF IInv, TypeOK, Backed, Current, Based, vars, pod, folders, call
<1>8. QED
  BY <1>1, <1>2, <1>3, <1>4, <1>5, <1>6, <1>7 DEF Next

-----------------------------------------------------------------------------
(* Theorems *)

\* The inductive invariant holds of every behaviour.
THEOREM Invariance == Spec => []IInv
BY InitIInv, NextIInv, PTL DEF Spec

\* Types.
THEOREM TypeCorrect == Spec => []TypeOK
<1>1. IInv => TypeOK
  BY DEF IInv
<1>2. QED
  BY <1>1, Invariance, PTL

\* No move deletes files to whose loss the user did not agree.
THEOREM LossIsAgreed == Spec => NothingLostUnasked
<1>1. IInv /\ [Next]_vars =>
        [\A c \in Calls : \A p \in Moves :
           Accepted(c, p, TRUE) /\ unpreserved => p \in agreed]_vars
  <2> SUFFICES ASSUME IInv, NEW c \in Calls, NEW p \in Moves, Accepted(c, p, TRUE), unpreserved
               PROVE  p \in agreed
    OBVIOUS
  <2>1. AllowSent(c) /\ pc[c] = "send" /\ p \in Used(c)
    BY DEF Accepted, AsksConsent
  <2>2. allow[c] /\ how[c] = p
    BY <2>1 DEF AllowSent, Used
  <2>3. QED
    BY <2>1, <2>2 DEF IInv, Backed
<1>2. QED
  BY <1>1, Invariance, PTL DEF Spec, NothingLostUnasked

\* An unconfirmed write watches no folder that was not watched.
THEOREM FoldersAreAgreed == Spec => NoFolderUnasked
<1>1. IInv /\ [Next]_vars =>
        [\A c \in Calls : SetAccepted(c) /\ ~confirm[c] => watched' \subseteq watched]_vars
  BY DEF IInv, Based, SetAccepted
<1>2. QED
  BY <1>1, Invariance, PTL DEF Spec, NoFolderUnasked

\* A write replaces only the set it was made from.
THEOREM WritesWhatWasRead == Spec => NothingOverwritten
<1>1. IInv /\ [Next]_vars => [\A c \in Calls : SetAccepted(c) => watched = base[c].on]_vars
  BY DEF IInv, Based, Current, SetAccepted
<1>2. QED
  BY <1>1, Invariance, PTL DEF Spec, NothingOverwritten
=============================================================================
