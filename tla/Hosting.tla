------------------------------- MODULE Hosting -------------------------------
(***************************************************************************)
(* A machine the user hosts (tools/hosting.py): its maintenance windows,   *)
(* listing, removal and messages to the workspaces that use it.            *)
(*                                                                         *)
(* A call with confirm=false checks what it reads and asks the user; the   *)
(* confirmed call sends what it was given without looking again.           *)
(* Meanwhile time passes, windows start by themselves, workspaces come and *)
(* go, and the host works in the console.                                  *)
(***************************************************************************)
EXTENDS Integers

CONSTANTS Calls, Windows,
          Clients,  \* workspaces
          None,
          TIME,     \* bound on the clock and on the times of windows
          HOURS     \* the longest extension, _MAX_EXTEND_HOURS

ASSUME HostingAssumption ==
  /\ TIME \in Nat /\ HOURS \in Nat /\ None \notin Int
  /\ None \notin Clients \cup Windows /\ "all" \notin Clients

VARIABLES
  now,
  phase, start, end,  \* of a window, as the API has it
  listed, removing,   \* of the machine
  client,             \* a workspace's pods and volumes on the machine
  pc,                 \* of a call: "shown" waits for the user, "sent" for the API
  request,            \* what the tool was called with
  shown,              \* what the question said would happen
  steady              \* nobody else has changed the machine or its clients since

windows == <<phase, start, end>>
machine == <<windows, listed, removing>>
calls == <<pc, request, shown, steady>>
vars == <<now, machine, client, calls>>

Times == 0 .. TIME
Given == Times \cup {None}

\* Mutant: only the upper limit of an extension is checked.
AnyHours == -HOURS .. HOURS
\* "`hours` must be more than 0 and at most" _MAX_EXTEND_HOURS
Hours == 1 .. HOURS

\* _WINDOW_ARGS and the checks of each tool's arguments
Requests ==
  [tool : {"schedule"}, window : {None}, start : Times, end : Times, hours : {0}, to : {None}]
  \cup [tool : {"edit"}, window : Windows, start : Given, end : Given, hours : {0}, to : {None}]
  \cup [tool : {"extend"}, window : Windows, start : {None}, end : {None}, hours : Hours,
        to : {None}]
  \cup [tool : {"end", "cancel"}, window : Windows, start : {None}, end : {None}, hours : {0},
        to : {None}]
  \cup [tool : {"list", "unlist", "delete"}, window : {None}, start : {None}, end : {None},
        hours : {0}, to : {None}]
  \cup [tool : {"message"}, window : {None}, start : {None}, end : {None}, hours : {0},
        to : Clients \cup {"all"}]

NoRequest ==
  [tool |-> None, window |-> None, start |-> None, end |-> None, hours |-> 0, to |-> None]
NothingShown == [start |-> None, end |-> None, to |-> {}]

TypeOK ==
  /\ now \in Times
  /\ phase \in [Windows -> {"none", "scheduled", "started", "over", "cancelled", "dropped"}]
  /\ start \in [Windows -> Times] /\ end \in [Windows -> Times]
  /\ listed \in BOOLEAN /\ removing \in {"no", "grace", "now"}
  /\ client \in [Clients -> {"none", "active", "terminated"}]
  /\ pc \in [Calls -> {"idle", "shown", "sent"}]
  /\ request \in [Calls -> Requests \cup {NoRequest}]
  /\ shown \in [Calls -> [start : Int \cup {None}, end : Int \cup {None}, to : SUBSET Clients]]
  /\ steady \in [Calls -> BOOLEAN]
  \* A window has a length, and none starts before its time.
  /\ \A w \in Windows : phase[w] # "none" => start[w] < end[w]
  /\ \A w \in Windows : phase[w] = "started" => start[w] <= now

Init ==
  /\ now = 0
  /\ phase = [w \in Windows |-> "none"]
  /\ start = [w \in Windows |-> 0] /\ end = [w \in Windows |-> 0]
  /\ listed \in BOOLEAN /\ removing = "no"
  /\ client \in [Clients -> {"none", "active", "terminated"}]
  /\ pc = [c \in Calls |-> "idle"] /\ request = [c \in Calls |-> NoRequest]
  /\ shown = [c \in Calls |-> NothingShown] /\ steady = [c \in Calls |-> FALSE]

-----------------------------------------------------------------------------
(* What the tools read *)

\* `status` of a window
Status(w) ==
  CASE phase[w] = "scheduled" ->
         IF now < start[w] THEN "upcoming" ELSE IF now < end[w] THEN "overdue" ELSE "expired"
    [] phase[w] = "started" -> "in_progress"
    [] phase[w] = "over" -> "done"
    [] OTHER -> phase[w]

\* _WINDOW_STATUSES
WindowStatuses(action) ==
  CASE action = "edit" -> {"upcoming", "expired"}
    [] action = "cancel" -> {"upcoming", "overdue", "expired"}
    [] OTHER -> {"in_progress"}

\* _using_workspaces
UsingWorkspaces == {k \in Clients : client[k] = "active"}

\* The workspaces a call reaches by email.
Recipients(r) ==
  IF r.tool = "message" /\ r.to # "all" THEN {r.to}
  ELSE {k \in Clients : client[k] = "active"}

Or(given, present) == IF given = None THEN present ELSE given

\* Mutant: an extension is counted from the present.
WindowQuestionFromNow(r) ==
  [start |-> Or(r.start, start[r.window]),
   end   |-> IF r.tool = "extend" THEN now + r.hours ELSE Or(r.end, end[r.window]),
   to    |-> {}]
\* _window_question
WindowQuestion(r) ==
  [start |-> Or(r.start, start[r.window]),
   end   |-> IF r.tool = "extend" THEN end[r.window] + r.hours ELSE Or(r.end, end[r.window]),
   to    |-> {}]

\* Of a new window and of a removal the API says whom they reach (estimate_maintenance,
\* check_machine_delete).
ScheduleQuestion(r) == [start |-> r.start, end |-> r.end, to |-> Recipients(r)]
RemovalQuestion(r) == [start |-> None, end |-> None, to |-> Recipients(r)]

MessageQuestion(r) ==
  [start |-> None, end |-> None, to |-> IF r.to = "all" THEN UsingWorkspaces ELSE {r.to}]

\* The pods an unlisting's question counts are not kept.
Question(r) ==
  CASE r.tool = "schedule" -> ScheduleQuestion(r)
    [] r.tool = "delete" -> RemovalQuestion(r)
    [] r.tool = "message" -> MessageQuestion(r)
    [] r.window # None -> WindowQuestion(r)
    [] OTHER -> NothingShown

-----------------------------------------------------------------------------
(* The tools *)

\* What each tool checks before it asks.
WindowOffered(r) == r.window # None => Status(r.window) \in WindowStatuses(r.tool)
UnlistOffered(r) == r.tool = "unlist" => listed
RemovalOffered(r) == r.tool = "delete" => removing = "no"
MessageOffered(r) == r.to = "all" => UsingWorkspaces # {}

Preview(c, r) ==
  /\ pc[c] = "idle" /\ r.tool # "list"
  /\ WindowOffered(r) /\ UnlistOffered(r) /\ RemovalOffered(r) /\ MessageOffered(r)
  /\ pc' = [pc EXCEPT ![c] = "shown"]
  /\ request' = [request EXCEPT ![c] = r]
  /\ shown' = [shown EXCEPT ![c] = Question(r)]
  /\ steady' = [steady EXCEPT ![c] = TRUE]
  /\ UNCHANGED <<now, machine, client>>

\* listed=true needs no confirmation but is checked first: `listable`.
ListMachine(c, r) ==
  /\ pc[c] = "idle" /\ r.tool = "list" /\ ~listed /\ removing = "no"
  /\ pc' = [pc EXCEPT ![c] = "sent"]
  /\ request' = [request EXCEPT ![c] = r]
  /\ steady' = [steady EXCEPT ![c] = TRUE]
  /\ UNCHANGED <<now, machine, client, shown>>

\* Of the confirmed calls only listed=false reads again.
Confirm(c) ==
  /\ pc[c] = "shown" /\ UnlistOffered(request[c])
  /\ pc' = [pc EXCEPT ![c] = "sent"]
  /\ UNCHANGED <<now, machine, client, request, shown, steady>>

CallEnds(c) ==
  /\ pc' = [pc EXCEPT ![c] = "idle"] /\ request' = [request EXCEPT ![c] = NoRequest]
  /\ shown' = [shown EXCEPT ![c] = NothingShown]

\* The user says no, there is nothing to unlist, the API refuses or does not answer.
GiveUp(c) ==
  /\ pc[c] # "idle" /\ CallEnds(c)
  /\ UNCHANGED <<now, machine, client, steady>>

\* Mutant: an edit sends the window as the question showed it.
SentAsShown(c) ==
  IF request[c].tool = "edit"
  THEN [request[c] EXCEPT !.start = shown[c].start, !.end = shown[c].end]
  ELSE request[c]
\* An edit sends only what was given, an extension its hours.
Sent(c) == request[c]

-----------------------------------------------------------------------------
(* What the API makes of a request: `maintenance_state` unless it allows it *)

Schedules(r, w) ==
  /\ r.tool = "schedule" /\ phase[w] = "none" /\ removing = "no"
  /\ now <= r.start /\ r.start < r.end
  /\ phase' = [phase EXCEPT ![w] = "scheduled"]
  /\ start' = [start EXCEPT ![w] = r.start] /\ end' = [end EXCEPT ![w] = r.end]
  /\ UNCHANGED <<listed, removing>>

\* "edit or cancel a window that hasn't started, extend or end one in progress"
Changeable(w) == phase[w] = "scheduled"

Edits(r, w) ==
  /\ r.tool = "edit" /\ w = r.window /\ Changeable(w)
  /\ Or(r.start, start[w]) < Or(r.end, end[w])
  /\ start' = [start EXCEPT ![w] = Or(r.start, @)]
  /\ end' = [end EXCEPT ![w] = Or(r.end, @)]
  /\ UNCHANGED <<phase, listed, removing>>

Cancels(r, w) ==
  /\ r.tool = "cancel" /\ w = r.window /\ Changeable(w)
  /\ phase' = [phase EXCEPT ![w] = "cancelled"]
  /\ UNCHANGED <<start, end, listed, removing>>

Extends(r, w) ==
  /\ r.tool = "extend" /\ w = r.window /\ phase[w] = "started" /\ end[w] + r.hours <= TIME
  /\ end' = [end EXCEPT ![w] = @ + r.hours]
  /\ UNCHANGED <<phase, start, listed, removing>>

\* "The machine is back online but unlisted."
Ends(r, w) ==
  /\ r.tool = "end" /\ w = r.window /\ phase[w] = "started"
  /\ phase' = [phase EXCEPT ![w] = "over"]
  /\ listed' = FALSE
  /\ UNCHANGED <<start, end, removing>>

SetsListing(r) ==
  /\ r.tool \in {"list", "unlist"} /\ (r.tool = "list" => removing = "no")
  /\ listed' = (r.tool = "list")
  /\ UNCHANGED <<windows, removing>>

\* With nothing of other users on it, removal starts at once; otherwise after a grace
\* period, and they are emailed.
Removes(r) ==
  /\ r.tool = "delete" /\ removing = "no"
  /\ removing' = IF Recipients(r) = {} THEN "now" ELSE "grace"
  /\ phase' = [w \in Windows |-> IF phase[w] \in {"scheduled", "started"} THEN "dropped"
                                 ELSE phase[w]]
  /\ listed' = FALSE
  /\ UNCHANGED <<start, end>>

Delivers(r) ==
  /\ r.tool = "message" /\ Recipients(r) # {}
  /\ UNCHANGED machine

OnWindow(r, w) == Schedules(r, w) \/ Edits(r, w) \/ Cancels(r, w) \/ Extends(r, w) \/ Ends(r, w)

Does(r) == (\E w \in Windows : OnWindow(r, w)) \/ SetsListing(r) \/ Removes(r) \/ Delivers(r)

Applied(c) ==
  /\ pc[c] = "sent" /\ Does(Sent(c)) /\ CallEnds(c)
  /\ steady' = [d \in Calls |-> FALSE]
  /\ UNCHANGED <<now, client>>

-----------------------------------------------------------------------------
(* Everyone else (external) *)

\* The host in the console.
OtherDoes(r) ==
  /\ Does(r)
  /\ steady' = [d \in Calls |-> FALSE]
  /\ UNCHANGED <<now, client, pc, request, shown>>

ClientChanges(k, s) ==
  /\ client' = [client EXCEPT ![k] = s]
  /\ steady' = [d \in Calls |-> FALSE]
  /\ UNCHANGED <<now, machine, pc, request, shown>>

Tick == now < TIME /\ now' = now + 1 /\ UNCHANGED <<machine, client, calls>>

\* "It starts by itself within about a minute of its start time."
StartsByItself(w) ==
  /\ Status(w) = "overdue"
  /\ phase' = [phase EXCEPT ![w] = "started"]
  /\ UNCHANGED <<now, start, end, listed, removing, client, calls>>

FinishesByItself(w) ==
  /\ phase[w] = "started" /\ end[w] <= now
  /\ phase' = [phase EXCEPT ![w] = "over"]
  /\ listed' \in {listed, FALSE}
  /\ UNCHANGED <<now, start, end, removing, client, calls>>

Next ==
  \/ \E c \in Calls :
       \/ \E r \in Requests : Preview(c, r) \/ ListMachine(c, r)
       \/ Confirm(c) \/ GiveUp(c) \/ Applied(c)
  \/ \E r \in Requests : OtherDoes(r)
  \/ \E k \in Clients, s \in {"none", "active", "terminated"} : ClientChanges(k, s)
  \/ Tick \/ \E w \in Windows : StartsByItself(w) \/ FinishesByItself(w)

Spec == Init /\ [][Next]_vars

-----------------------------------------------------------------------------
(* Properties *)

\* As long as nobody else changes the machine or its clients, a confirmed call does what
\* its question said, though time passes and windows start by themselves: the times of
\* the window, who is emailed, and whether a removal has a grace period.
HappensAsShown ==
  [][\A c \in Calls : Applied(c) /\ steady[c] =>
       /\ \A w \in Windows :
            /\ Schedules(Sent(c), w) \/ Edits(Sent(c), w) =>
                 start'[w] = shown[c].start /\ end'[w] = shown[c].end
            /\ Extends(Sent(c), w) => end'[w] = shown[c].end
       /\ request[c].tool \in {"schedule", "delete", "message"} =>
            Recipients(Sent(c)) = shown[c].to
       /\ request[c].tool = "delete" => (removing' = "grace" <=> shown[c].to # {})]_vars

\* Whoever changed the window since the question: an edit leaves alone what the user did
\* not name, and an extension ends the window later than it would have, and not before the
\* time the question named.
NothingElseChanged ==
  [][\A c \in Calls, w \in Windows : Applied(c) =>
       /\ Edits(Sent(c), w) =>
            /\ request[c].start = None => start'[w] = start[w]
            /\ request[c].end = None => end'[w] = end[w]
       /\ Extends(Sent(c), w) => end'[w] > end[w] /\ end'[w] >= shown[c].end]_vars
=============================================================================
