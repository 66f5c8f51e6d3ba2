-------------------------------- MODULE Pods --------------------------------
(***************************************************************************)
(* Changes to a pod for which `confirm` alone is not enough, or is not     *)
(* always asked (tools/write_pods.py): start_pod and update_pod, which may *)
(* move the pod to another machine and so delete the files in its          *)
(* workspace that are not preserved, and set_watched_folders, which needs  *)
(* a confirmation only if it watches more than before.                     *)
(*                                                                         *)
(* Each call reads the pod in one request and writes in a later one, and   *)
(* the pod changes meanwhile.  The API asks for the same consent itself    *)
(* and takes a set of folders only for the revision it was made from.      *)
(***************************************************************************)
EXTENDS Integers, FiniteSets

CONSTANTS Calls, Folders,
          VERSIONS   \* bound on the revisions of the watched folders

ASSUME VersionsAssumption == VERSIONS \in Nat

Moving == {"any_node", "wait_any_node"}       \* _MOVING_PLACEMENTS
Placements == {"same_node", "wait_same_node"} \cup Moving

\* start_pod with a placement, or with the server's pick; update_pod with and
\* without allow_node_migration.
Starts == Placements \cup {"server_pick"}
Edits == {"edit_may_move", "edit_here"}
Moves == Moving \cup {"edit_may_move"}

VARIABLES
  unpreserved,    \* whether moving the pod would delete files
  reported,       \* whether the API says so (has_unpreserved_workspace is not None)
  agreed,         \* moves whose loss the user agreed to
  watched,        \* folders that are watched
  version,        \* `revision` of that set
  seen,           \* the set and the revision the agent has read last
  pc,             \* "send": the write is on its way, whoever still waits for it
  how,            \* what a call does: one of Starts, Edits, or "folders"
  allow, confirm, \* allow_data_loss and confirm
  base,           \* the set and revision (expected_version) a call starts from
  wanted          \* the set it asks for

pod == <<unpreserved, reported>>
folders == <<watched, version>>
call == <<pc, how, allow, confirm, base, wanted>>
vars == <<pod, agreed, folders, seen, call>>

Readings == [on : SUBSET Folders, revision : Nat]
NoReading == [on |-> {}, revision |-> 0]

TypeOK ==
  /\ unpreserved \in BOOLEAN /\ reported \in BOOLEAN
  /\ agreed \subseteq Moves
  /\ watched \subseteq Folders /\ version \in Nat
  /\ seen \in Readings
  /\ pc \in [Calls -> {"idle", "look", "send"}]
  /\ how \in [Calls -> Starts \cup Edits \cup {"folders"}]
  /\ allow \in [Calls -> BOOLEAN] /\ confirm \in [Calls -> BOOLEAN]
  /\ base \in [Calls -> Readings] /\ wanted \in [Calls -> SUBSET Folders]

Init ==
  /\ unpreserved \in BOOLEAN /\ reported \in BOOLEAN
  /\ agreed = {}
  /\ watched \in SUBSET Folders /\ version = 0
  /\ seen = [on |-> watched, revision |-> version]
  /\ pc = [c \in Calls |-> "idle"]
  /\ how = [c \in Calls |-> "folders"]
  /\ allow = [c \in Calls |-> FALSE] /\ confirm = [c \in Calls |-> FALSE]
  /\ base = [c \in Calls |-> NoReading] /\ wanted = [c \in Calls |-> {}]

-----------------------------------------------------------------------------
(* The calls *)

Go(c, where) ==
  /\ pc' = [pc EXCEPT ![c] = where]
  /\ UNCHANGED <<how, allow, confirm, base, wanted>>

EndCall(c) ==
  /\ pc' = [pc EXCEPT ![c] = "idle"]
  /\ how' = [how EXCEPT ![c] = "folders"]
  /\ allow' = [allow EXCEPT ![c] = FALSE] /\ confirm' = [confirm EXCEPT ![c] = FALSE]
  /\ base' = [base EXCEPT ![c] = NoReading] /\ wanted' = [wanted EXCEPT ![c] = {}]

\* The agent passes allow_data_loss for a move only after the user agreed to the loss;
\* where no move is named it may pass it on nobody's word.
StartOrEdit(c, h, a, ok) ==
  /\ pc[c] = "idle" /\ h \in Starts \cup Edits
  /\ (a /\ h \in Moves) => h \in agreed
  /\ how' = [how EXCEPT ![c] = h]
  /\ allow' = [allow EXCEPT ![c] = a]
  /\ confirm' = [confirm EXCEPT ![c] = ok]
  /\ pc' = [pc EXCEPT ![c] = "look"]
  /\ UNCHANGED <<pod, agreed, folders, seen, base, wanted>>

\* "Read watched_folders first and send the WHOLE set back"
SetFolders(c, set, ok) ==
  /\ pc[c] = "idle"
  /\ how' = [how EXCEPT ![c] = "folders"]
  /\ confirm' = [confirm EXCEPT ![c] = ok]
  /\ base' = [base EXCEPT ![c] = seen]
  /\ wanted' = [wanted EXCEPT ![c] = set]
  /\ pc' = [pc EXCEPT ![c] = IF ok THEN "send" ELSE "look"]
  /\ UNCHANGED <<pod, agreed, folders, seen, allow>>

ReadFolders ==
  /\ seen' = [on |-> watched, revision |-> version]
  /\ UNCHANGED <<pod, agreed, folders, call>>

\* Mutant: the placement does not matter.
LossAnyhow(c) == reported => unpreserved

\* `loss`: has_unpreserved_workspace is not False, as get_pod answers now
Loss(c) == how[c] \in Moves /\ (reported => unpreserved)

NeedsConsent(c) == ~confirm[c] \/ (Loss(c) /\ ~allow[c])

\* The preview of a move warns of the loss; the user agrees to it, or does not.
ShowPod(c) ==
  /\ pc[c] = "look" /\ how[c] # "folders" /\ NeedsConsent(c)
  /\ agreed' \in {agreed, IF Loss(c) THEN agreed \cup {how[c]} ELSE agreed}
  /\ EndCall(c)
  /\ UNCHANGED <<pod, folders, seen>>

GoOn(c) ==
  /\ pc[c] = "look" /\ how[c] # "folders" /\ ~NeedsConsent(c)
  /\ Go(c, "send")
  /\ UNCHANGED <<pod, agreed, folders, seen>>

\* Mutant: `grows` compares how many folders are watched.
GrowsByNumber(c) ==
  IF Cardinality(wanted[c]) > Cardinality(watched) THEN wanted[c] \ watched ELSE {}

\* `grows`, from get_watched_folders as it answers now
Grows(c) == wanted[c] \ watched

\* Mutant: the write goes out for the revision the tool has read itself.
LookFoldersAtCurrent(c) ==
  /\ pc[c] = "look" /\ how[c] = "folders"
  /\ IF Grows(c) = {}
     THEN /\ pc' = [pc EXCEPT ![c] = "send"]
          /\ base' = [base EXCEPT ![c].revision = version]
          /\ UNCHANGED <<how, allow, confirm, wanted>>
     ELSE EndCall(c)
  /\ UNCHANGED <<pod, agreed, folders, seen>>

LookFolders(c) ==
  /\ pc[c] = "look" /\ how[c] = "folders"
  /\ IF Grows(c) = {} THEN Go(c, "send") ELSE EndCall(c)
  /\ UNCHANGED <<pod, agreed, folders, seen>>

\* Mutant: the flag goes out as it was passed.
AllowAsPassed(c) == allow[c]

\* "Consent is for a known move, so it goes only with an explicit placement", and
\* in update_pod only together with allow_node_migration.
AllowSent(c) == allow[c] /\ how[c] \notin {"server_pick", "edit_here"}

-----------------------------------------------------------------------------
(* What the API makes of the writes *)

Used(c) == IF how[c] = "server_pick" THEN Placements ELSE {how[c]}

AsksConsent(c, p) == p \in Moves /\ unpreserved /\ ~AllowSent(c)

\* `moves`: the pod lands on another machine, and the files are gone.
Accepted(c, p, moves) ==
  /\ pc[c] = "send" /\ how[c] # "folders"
  /\ p \in Used(c) /\ (moves => p \in Moves) /\ ~AsksConsent(c, p)
  /\ unpreserved' = (unpreserved /\ ~moves)
  /\ EndCall(c)
  /\ UNCHANGED <<reported, agreed, folders, seen>>

\* data_loss_consent_required names the move; the user agrees to it, or does not.
RefusedForLoss(c, p) ==
  /\ pc[c] = "send" /\ how[c] # "folders"
  /\ p \in Used(c) /\ AsksConsent(c, p)
  /\ agreed' \in {agreed, agreed \cup {p}}
  /\ EndCall(c)
  /\ UNCHANGED <<pod, folders, seen>>

SetAccepted(c) ==
  /\ pc[c] = "send" /\ how[c] = "folders" /\ version < VERSIONS
  /\ base[c].revision = version
  /\ watched' = wanted[c] /\ version' = version + 1
  /\ EndCall(c)
  /\ UNCHANGED <<pod, agreed, seen>>

\* A version conflict, node_migration_required or any other refusal; a request of
\* which nothing arrives.
Fails(c) ==
  /\ pc[c] # "idle"
  /\ EndCall(c)
  /\ UNCHANGED <<pod, agreed, folders, seen>>

-----------------------------------------------------------------------------
(* The pod meanwhile, and what others do to it (external) *)

FilesChange ==
  /\ unpreserved' = ~unpreserved
  /\ UNCHANGED <<reported, agreed, folders, seen, call>>

OthersSetFolders(set) ==
  /\ version < VERSIONS
  /\ watched' = set /\ version' = version + 1
  /\ UNCHANGED <<pod, agreed, seen, call>>

-----------------------------------------------------------------------------
MoveStep(c) ==
  \/ ShowPod(c) \/ GoOn(c)
  \/ \E p \in Placements \cup Edits :
       RefusedForLoss(c, p) \/ \E moves \in BOOLEAN : Accepted(c, p, moves)

Next ==
  \/ \E c \in Calls :
       \/ \E h \in Starts \cup Edits, a, ok \in BOOLEAN : StartOrEdit(c, h, a, ok)
       \/ \E set \in SUBSET Folders, ok \in BOOLEAN : SetFolders(c, set, ok)
       \/ MoveStep(c) \/ LookFolders(c) \/ SetAccepted(c) \/ Fails(c)
  \/ ReadFolders \/ FilesChange
  \/ \E set \in SUBSET Folders : OthersSetFolders(set)

Spec == Init /\ [][Next]_vars

-----------------------------------------------------------------------------
(* Properties *)

\* "set allow_data_loss=true only after separate explicit consent to that permanent
\* loss for this pod and placement": no file is deleted by a move to whose loss the
\* user did not agree, though the server picks the placement and files come up
\* between the tool's reading and its write.
NothingLostUnasked ==
  [][\A c \in Calls : \A p \in Moves :
       Accepted(c, p, TRUE) /\ unpreserved => p \in agreed]_vars

\* "Adding or turning on a folder ... with confirm=false (default) such a change only
\* returns a summary": an unconfirmed write watches nothing that was not watched at
\* the very moment it takes effect, whoever changed the folders since the reading.
NoFolderUnasked ==
  [][\A c \in Calls : SetAccepted(c) /\ ~confirm[c] => watched' \subseteq watched]_vars

\* "a version conflict means someone else changed it": a write replaces only the set
\* from which the agent made it.
NothingOverwritten ==
  [][\A c \in Calls : SetAccepted(c) => watched = base[c].on]_vars
=============================================================================
