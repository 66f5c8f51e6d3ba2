---------------------------- MODULE HostingProofs ----------------------------
(***************************************************************************)
(* The properties of Hosting for any calls, windows and workspaces and for *)
(* any bound on time.  What a question showed is what the call would       *)
(* do now, as long as nobody else has changed anything (AsShown); and a    *)
(* window that was in progress when its extension was asked for is still   *)
(* in progress, with an end no earlier than shown, or over (Extending).    *)
(***************************************************************************)
EXTENDS Hosting, TLAPS

Asked ==
  \A c \in Calls : pc[c] # "idle" => /\ request[c] \in Requests
                                     /\ pc[c] = "shown" => request[c].tool # "list"

AsShown ==
  \A c \in Calls : pc[c] # "idle" /\ steady[c] /\ request[c].tool # "list" =>
                     shown[c] = Question(request[c])

ExtendsTo(r, s) ==
  r.tool = "extend" =>
    /\ s.end \in Int
    /\ phase[r.window] \in {"started", "over", "dropped"}
    /\ phase[r.window] = "started" => s.end <= end[r.window] + r.hours

Extending == \A c \in Calls : pc[c] # "idle" => ExtendsTo(request[c], shown[c])

IInv == TypeOK /\ Asked /\ AsShown /\ Extending

-----------------------------------------------------------------------------
(* Requests *)

LEMMA RequestFields ==
  ASSUME NEW r \in Requests
  PROVE  /\ r.tool \in {"schedule", "edit", "extend", "end", "cancel", "list", "unlist",
                        "delete", "message"}
         /\ r.window \in Windows \cup {None} /\ r.start \in Given /\ r.end \in Given
         /\ r.hours \in 0 .. HOURS
         /\ r.tool = "schedule" => r.start \in Times /\ r.end \in Times
         /\ r.tool = "extend" => r.hours \in 1 .. HOURS
         /\ r.tool \in {"edit", "extend", "end", "cancel"} <=> r.window \in Windows
         /\ r.tool = "message" => r.to \in Clients \cup {"all"}
         /\ r.tool # "message" => r.to = None
BY HostingAssumption DEF Requests, Hours, Given

LEMMA QuestionOf ==
  ASSUME NEW r \in Requests
  PROVE  /\ r.tool = "schedule" => Question(r) = ScheduleQuestion(r)
         /\ r.tool = "delete" => Question(r) = RemovalQuestion(r)
         /\ r.tool = "message" => Question(r) = MessageQuestion(r)
         /\ r.tool \in {"edit", "extend", "end", "cancel"} => Question(r) = WindowQuestion(r)
         /\ r.tool \in {"list", "unlist"} => Question(r) = NothingShown
<1>1. /\ r.tool \in {"schedule", "edit", "extend", "end", "cancel", "list", "unlist",
                     "delete", "message"}
      /\ r.tool \in {"edit", "extend", "end", "cancel"} <=> r.window # None
  BY RequestFields, HostingAssumption
<1>2. QED
  BY <1>1 DEF Question

LEMMA QuestionType ==
  ASSUME TypeOK, NEW r \in Requests
  PROVE  Question(r) \in [start : Int \cup {None}, end : Int \cup {None}, to : SUBSET Clients]
<1> USE HostingAssumption
<1>0. Given \subseteq Int \cup {None} /\ r.start \in Given /\ r.end \in Given /\ r.hours \in Int
  BY RequestFields DEF Given, Times
<1> DEFINE Q == [start : Int \cup {None}, end : Int \cup {None}, to : SUBSET Clients]
<1>1. UsingWorkspaces \in SUBSET Clients /\ (r.tool # "message" => Recipients(r) \in SUBSET Clients)
  BY DEF UsingWorkspaces, Recipients
<1>2. CASE r.tool = "schedule"
  <2>1. Recipients(r) \in SUBSET Clients
    BY <1>1, <1>2
  <2>2. ScheduleQuestion(r) \in Q
    BY <1>0, <2>1 DEF ScheduleQuestion
  <2>3. QED
    BY <1>2, <2>2, QuestionOf
<1>3. CASE r.tool = "delete"
  BY <1>1, <1>3, QuestionOf DEF RemovalQuestion
<1>4. CASE r.tool = "message"
  <2>1. r.to # "all" => r.to \in Clients
    BY <1>4, RequestFields
  <2>2. MessageQuestion(r) \in Q
    BY <1>1, <2>1 DEF MessageQuestion
  <2>3. QED
    BY <1>4, <2>2, QuestionOf
<1>5. CASE r.tool \in {"edit", "extend", "end", "cancel"}
  <2>1. r.window \in Windows
    BY <1>5, RequestFields
  <2>2. start[r.window] \in Int /\ end[r.window] \in Int
    BY <2>1 DEF TypeOK, Times
  <2>3. Or(r.start, start[r.window]) \in Int \cup {None}
        /\ Or(r.end, end[r.window]) \in Int \cup {None}
    BY <1>0, <2>2 DEF Or
  <2>4. end[r.window] + r.hours \in Int
    BY <1>0, <2>2
  <2>5. WindowQuestion(r) \in Q
    BY <2>3, <2>4 DEF WindowQuestion
  <2>6. QED
    BY <1>5, <2>5, QuestionOf
<1>6. CASE r.tool \in {"list", "unlist"}
  BY <1>6, QuestionOf DEF NothingShown
<1>7. QED
  BY <1>2, <1>3, <1>4, <1>5, <1>6, RequestFields

-----------------------------------------------------------------------------
(* Windows *)

\* What a request does to the machine keeps its types, and a window that has started ends
\* no earlier for it.
MachineTypes ==
  /\ phase \in [Windows -> {"none", "scheduled", "started", "over", "cancelled", "dropped"}]
  /\ start \in [Windows -> Times] /\ end \in [Windows -> Times]
  /\ \A w \in Windows : phase[w] # "none" => start[w] < end[w]
  /\ \A w \in Windows : phase[w] = "started" => start[w] <= now

ListingTypes == listed \in BOOLEAN /\ removing \in {"no", "grace", "now"}

GoesOn(w) ==
  /\ phase'[w] = "started" /\ phase[w] = "started" => end[w] <= end'[w]
  /\ phase[w] \in {"started", "over", "dropped"} => phase'[w] \in {"started", "over", "dropped"}
  /\ phase[w] \in {"over", "dropped"} => phase'[w] # "started"

LEMMA DoesStep ==
  ASSUME TypeOK, NEW r \in Requests, Does(r), now' = now
  PROVE  MachineTypes' /\ \A w \in Windows : GoesOn(w)
<1> USE HostingAssumption
<1> DEFINE Numbers == \A v \in Windows : start[v] \in Int /\ end[v] \in Int
<1>0. Times \subseteq Int /\ MachineTypes /\ now \in Int /\ Numbers
  BY DEF MachineTypes, TypeOK, Times
<1>1. ASSUME NEW w \in Windows, OnWindow(r, w) PROVE MachineTypes' /\ \A v \in Windows : GoesOn(v)
  <2>1. CASE Schedules(r, w)
    <3>1. r.start \in Times /\ r.end \in Times
      BY <2>1, RequestFields DEF Schedules
    <3>2. QED
      BY <1>0, <2>1, <3>1 DEF Schedules, MachineTypes, GoesOn
  <2>2. CASE Edits(r, w)
    <3>1. Or(r.start, start[w]) \in Times /\ Or(r.end, end[w]) \in Times
      BY <1>0, RequestFields DEF MachineTypes, Or, Given
    <3>2. /\ start' = [start EXCEPT ![w] = Or(r.start, start[w])]
          /\ end' = [end EXCEPT ![w] = Or(r.end, end[w])]
          /\ Or(r.start, start[w]) < Or(r.end, end[w])
          /\ UNCHANGED <<phase, listed, removing>> /\ phase[w] = "scheduled"
      BY <1>0, <2>2 DEF Edits, Changeable, MachineTypes
    <3> DEFINE s == Or(r.start, start[w])
               e == Or(r.end, end[w])
    <3>3. s \in Times /\ e \in Times /\ start' = [start EXCEPT ![w] = s]
          /\ end' = [end EXCEPT ![w] = e] /\ s < e
      BY <3>1, <3>2
    <3> HIDE DEF s, e
    <3>4. QED
      BY <1>0, <3>2, <3>3 DEF MachineTypes, GoesOn
  <2>3. CASE Cancels(r, w)
    BY <1>0, <2>3 DEF Cancels, Changeable, MachineTypes, GoesOn
  <2>4. CASE Extends(r, w)
    <3>1. r.hours \in 1 .. HOURS
      BY <2>4, RequestFields DEF Extends
    <3>2. end[w] + r.hours \in Times /\ end[w] < end[w] + r.hours
      BY <1>0, <2>4, <3>1 DEF Extends, MachineTypes, Times
    <3> DEFINE e == end[w] + r.hours
    <3>3. /\ UNCHANGED <<phase, start>> /\ phase[w] = "started"
          /\ e \in Times /\ end[w] < e /\ end' = [end EXCEPT ![w] = e]
      BY <1>0, <2>4, <3>2 DEF Extends, MachineTypes
    <3> HIDE DEF e
    <3>4. start[w] < e
      BY <1>0, <3>3 DEF MachineTypes
    <3>5. QED
      BY <1>0, <3>3, <3>4 DEF MachineTypes, GoesOn
  <2>5. CASE Ends(r, w)
    BY <1>0, <2>5 DEF Ends, MachineTypes, GoesOn
  <2>6. QED
    BY <1>1, <2>1, <2>2, <2>3, <2>4, <2>5 DEF OnWindow
<1>2. CASE SetsListing(r)
  BY <1>0, <1>2 DEF SetsListing, windows, MachineTypes, GoesOn
<1>3. CASE Removes(r)
  BY <1>0, <1>3 DEF Removes, MachineTypes, GoesOn
<1>4. CASE Delivers(r)
  BY <1>0, <1>4 DEF Delivers, machine, windows, MachineTypes, GoesOn
<1>5. QED
  BY <1>1, <1>2, <1>3, <1>4 DEF Does

LEMMA DoesListing ==
  ASSUME TypeOK, NEW r \in Requests, Does(r)
  PROVE  ListingTypes'
<1>0. listed \in BOOLEAN /\ removing \in {"no", "grace", "now"}
  BY DEF TypeOK
<1>1. /\ listed' = listed \/ listed' = FALSE \/ listed' = (r.tool = "list")
      /\ removing' = removing \/ removing' \in {"grace", "now"}
  BY DEF Does, OnWindow, Schedules, Edits, Cancels, Extends, Ends, SetsListing, Removes,
     Delivers, machine
<1>2. listed' \in BOOLEAN
  BY <1>0, <1>1, Zenon
<1>3. QED
  BY <1>0, <1>1, <1>2 DEF ListingTypes

\* So do the clock and the windows that start and end by themselves.
LEMMA TimeStep ==
  ASSUME TypeOK, \/ Tick
                 \/ \E w \in Windows : StartsByItself(w) \/ FinishesByItself(w)
  PROVE  MachineTypes' /\ ListingTypes' /\ now' \in Times /\ \A w \in Windows : GoesOn(w)
<1> USE HostingAssumption
<1> DEFINE Numbers == \A v \in Windows : start[v] \in Int /\ end[v] \in Int
<1>0. Times \subseteq Int /\ MachineTypes /\ now \in Times /\ Numbers
  BY DEF MachineTypes, TypeOK, Times
<1>1. ASSUME Tick PROVE MachineTypes' /\ now' \in Times /\ \A w \in Windows : GoesOn(w)
  <2>1. UNCHANGED <<phase, start, end>> /\ now' = now + 1 /\ now < TIME
    BY <1>1 DEF Tick, machine, windows
  <2>2. now \in Int /\ now' \in Int /\ now <= now' /\ now' \in Times
    BY <1>0, <2>1 DEF Times
  <2>3. ASSUME NEW w \in Windows, phase'[w] = "started" PROVE start'[w] <= now'
    BY <1>0, <2>1, <2>2, <2>3 DEF MachineTypes
  <2>4. MachineTypes'
    BY <1>0, <2>1, <2>3 DEF MachineTypes, Times
  <2>5. \A w \in Windows : GoesOn(w)
    BY <1>0, <2>1 DEF GoesOn
  <2>6. QED
    BY <2>2, <2>4, <2>5
<1>2. ASSUME NEW w \in Windows, StartsByItself(w)
      PROVE  MachineTypes' /\ now' \in Times /\ \A v \in Windows : GoesOn(v)
  <2>1. phase[w] = "scheduled" /\ start[w] <= now
    BY <1>0, <1>2 DEF StartsByItself, Status, MachineTypes
  <2>2. QED
    BY <1>0, <1>2, <2>1 DEF StartsByItself, MachineTypes, GoesOn
<1>3. ASSUME NEW w \in Windows, FinishesByItself(w)
      PROVE  MachineTypes' /\ now' \in Times /\ \A v \in Windows : GoesOn(v)
  BY <1>0, <1>3 DEF FinishesByItself, MachineTypes, GoesOn
<1>4. ListingTypes'
  <2>0. listed \in BOOLEAN /\ removing \in {"no", "grace", "now"}
    BY DEF TypeOK
  <2>1. (listed' = listed \/ listed' = FALSE) /\ removing' = removing
    BY DEF Tick, StartsByItself, FinishesByItself, machine
  <2>2. listed' \in BOOLEAN
    BY <2>0, <2>1, Zenon
  <2>3. QED
    BY <2>0, <2>1, <2>2 DEF ListingTypes
<1>5. QED
  BY <1>1, <1>2, <1>3, <1>4

\* An extension that was shown stays what it was while its window goes on.
LEMMA ExtendingStays ==
  ASSUME TypeOK, MachineTypes', \A w \in Windows : GoesOn(w),
         NEW r \in Requests, NEW s, ExtendsTo(r, s)
  PROVE  r.tool = "extend" =>
           /\ s.end \in Int
           /\ phase'[r.window] \in {"started", "over", "dropped"}
           /\ phase'[r.window] = "started" => s.end <= end'[r.window] + r.hours
<1> SUFFICES ASSUME r.tool = "extend"
             PROVE  /\ s.end \in Int
                    /\ phase'[r.window] \in {"started", "over", "dropped"}
                    /\ phase'[r.window] = "started" => s.end <= end'[r.window] + r.hours
  OBVIOUS
<1>1. r.window \in Windows /\ r.hours \in Int
  BY RequestFields, HostingAssumption
<1>2. end[r.window] \in Int /\ end'[r.window] \in Int
  BY <1>1, HostingAssumption DEF TypeOK, MachineTypes, Times
<1>3. GoesOn(r.window)
  BY <1>1
<1>4. QED
  BY <1>1, <1>2, <1>3 DEF ExtendsTo, GoesOn

-----------------------------------------------------------------------------
(* The inductive invariant *)

LEMMA InitIInv == Init => IInv
<1> SUFFICES ASSUME Init PROVE IInv
  OBVIOUS
<1> USE HostingAssumption
<1>1. NothingShown \in [start : Int \cup {None}, end : Int \cup {None}, to : SUBSET Clients]
  BY DEF NothingShown
<1>2. TypeOK
  BY <1>1 DEF Init, TypeOK, Times
<1>3. Asked /\ AsShown /\ Extending
  BY DEF Init, Asked, AsShown, Extending
<1>4. QED
  BY <1>2, <1>3 DEF IInv

CallTypes ==
  /\ pc \in [Calls -> {"idle", "shown", "sent"}]
  /\ request \in [Calls -> Requests \cup {NoRequest}]
  /\ shown \in [Calls -> [start : Int \cup {None}, end : Int \cup {None}, to : SUBSET Clients]]
  /\ steady \in [Calls -> BOOLEAN]

LEMMA TypeParts ==
  TypeOK <=> /\ now \in Times /\ MachineTypes /\ ListingTypes /\ CallTypes
             /\ client \in [Clients -> {"none", "active", "terminated"}]
BY Zenon DEF TypeOK, MachineTypes, ListingTypes, CallTypes

LEMMA TypesAfter ==
  ASSUME now' \in Times', MachineTypes', ListingTypes', CallTypes',
         client' \in [Clients -> {"none", "active", "terminated"}]
  PROVE  TypeOK'
BY Zenon DEF TypeOK, MachineTypes, ListingTypes, CallTypes

\* A call that begins, goes on or ends while the machine stands still.
LEMMA CallStep ==
  ASSUME IInv, NEW c \in Calls, UNCHANGED <<now, machine, client>>, CallTypes',
         \A d \in Calls \ {c} : /\ pc'[d] = pc[d] /\ request'[d] = request[d]
                                /\ shown'[d] = shown[d] /\ steady'[d] = steady[d],
         pc'[c] # "idle" =>
           /\ request'[c] \in Requests
           /\ pc'[c] = "shown" => request'[c].tool # "list"
           /\ steady'[c] /\ request'[c].tool # "list" => shown'[c] = Question(request'[c])
           /\ ExtendsTo(request'[c], shown'[c])
  PROVE  IInv'
<1>0. UNCHANGED <<now, phase, start, end, listed, removing, client>>
  BY DEF machine, windows
<1>1. TypeOK'
  <2>1. TypeOK
    BY DEF IInv
  <2>2. now' \in Times' /\ MachineTypes' /\ ListingTypes'
        /\ client' \in [Clients -> {"none", "active", "terminated"}]
    BY <1>0, <2>1, TypeParts DEF MachineTypes, ListingTypes, Times
  <2>3. QED
    BY <2>2, TypesAfter
<1>2. Asked'
  BY DEF IInv, Asked
<1>3. AsShown'
  <2> SUFFICES ASSUME NEW d \in Calls, pc'[d] # "idle", steady'[d], request'[d].tool # "list"
               PROVE  shown'[d] = Question(request[d])'
    BY DEF AsShown
  <2>1. CASE d = c
    BY <1>0, <2>1 DEF Question, WindowQuestion, ScheduleQuestion, RemovalQuestion, MessageQuestion,
       Recipients, UsingWorkspaces, Or
  <2>2. CASE d # c
    <3>1. shown[d] = Question(request[d])
      BY <2>2 DEF IInv, AsShown
    <3>2. shown'[d] = Question(request'[d])
      BY <2>2, <3>1
    <3>3. QED
      BY <1>0, <3>2 DEF Question, WindowQuestion, ScheduleQuestion, RemovalQuestion, MessageQuestion,
       Recipients, UsingWorkspaces, Or
  <2>3. QED
    BY <2>1, <2>2
<1>4. Extending'
  BY <1>0 DEF IInv, Extending, ExtendsTo
<1>5. QED
  BY <1>1, <1>2, <1>3, <1>4 DEF IInv

\* A step after which nothing that was shown counts as current, and after which the calls
\* that are left are where they were.
LEMMA MachineStep ==
  ASSUME IInv, MachineTypes', ListingTypes', now' \in Times, \A w \in Windows : GoesOn(w), CallTypes',
         client' \in [Clients -> {"none", "active", "terminated"}],
         \A d \in Calls : \/ pc'[d] = "idle"
                          \/ /\ pc'[d] = pc[d] /\ request'[d] = request[d]
                             /\ shown'[d] = shown[d],
         \/ \A d \in Calls : ~steady'[d]
         \/ UNCHANGED <<start, end, client, steady>>
  PROVE  IInv'
<1>0. TypeOK
  BY DEF IInv
<1>1. TypeOK'
  BY TypesAfter DEF Times
<1>2. Asked'
  BY DEF IInv, Asked
<1>3. AsShown'
  <2>1. CASE \A d \in Calls : ~steady'[d]
    BY <2>1 DEF AsShown
  <2>2. CASE UNCHANGED <<start, end, client, steady>>
    <3> SUFFICES ASSUME NEW d \in Calls, pc'[d] # "idle", steady'[d], request'[d].tool # "list"
                 PROVE  shown'[d] = Question(request[d])'
      BY DEF AsShown
    <3>1. shown'[d] = Question(request'[d])
      BY <2>2 DEF IInv, AsShown
    <3>2. QED
      BY <2>2, <3>1 DEF Question, WindowQuestion, ScheduleQuestion, RemovalQuestion,
         MessageQuestion, Recipients, UsingWorkspaces, Or
  <2>3. QED
    BY <2>1, <2>2
<1>4. Extending'
  <2> SUFFICES ASSUME NEW d \in Calls, pc'[d] # "idle"
               PROVE  ExtendsTo(request[d], shown[d])'
    BY DEF Extending
  <2>1. request'[d] = request[d] /\ shown'[d] = shown[d] /\ request[d] \in Requests
        /\ ExtendsTo(request[d], shown[d])
    BY DEF IInv, Asked, Extending
  <2>2. QED
    BY <1>0, <2>1, ExtendingStays DEF ExtendsTo
<1>5. QED
  BY <1>1, <1>2, <1>3, <1>4 DEF IInv

LEMMA CallEndsTypes ==
  ASSUME TypeOK, NEW c \in Calls, CallEnds(c), steady' \in [Calls -> BOOLEAN]
  PROVE  /\ CallTypes' /\ pc'[c] = "idle"
         /\ \A d \in Calls \ {c} : /\ pc'[d] = pc[d] /\ request'[d] = request[d]
                                   /\ shown'[d] = shown[d]
<1>1. NothingShown \in [start : Int \cup {None}, end : Int \cup {None}, to : SUBSET Clients]
  BY DEF NothingShown
<1>2. QED
  BY <1>1 DEF CallEnds, CallTypes, TypeOK

LEMMA NextIInv == IInv /\ [Next]_vars => IInv'
<1> SUFFICES ASSUME IInv, [Next]_vars PROVE IInv'
  OBVIOUS
<1> USE HostingAssumption
<1>0. /\ TypeOK /\ Asked /\ AsShown /\ Extending /\ CallTypes /\ MachineTypes /\ ListingTypes
      /\ \A w \in Windows : end[w] \in Int
  BY TypeParts DEF IInv, MachineTypes, Times
<1>1. ASSUME NEW c \in Calls, NEW r \in Requests, Preview(c, r) PROVE IInv'
  <2>1. Question(r) \in [start : Int \cup {None}, end : Int \cup {None}, to : SUBSET Clients]
    BY <1>0, QuestionType
  <2>2. CallTypes'
    BY <1>0, <1>1, <2>1 DEF Preview, CallTypes
  <2>3. ExtendsTo(r, Question(r))
    <3> SUFFICES ASSUME r.tool = "extend" PROVE ExtendsTo(r, Question(r))
      BY DEF ExtendsTo
    <3>1. r.window \in Windows /\ r.window # None /\ r.hours \in Int
      BY RequestFields
    <3>2. Status(r.window) = "in_progress"
      BY <1>1, <3>1 DEF Preview, WindowOffered, WindowStatuses
    <3>3. phase[r.window] = "started"
      BY <1>0, <3>1, <3>2 DEF Status, MachineTypes
    <3>4. Question(r).end = end[r.window] + r.hours /\ end[r.window] \in Int
      BY <1>0, <3>1 DEF Question, WindowQuestion, MachineTypes, Times
    <3>5. QED
      BY <3>1, <3>3, <3>4 DEF ExtendsTo
  <2>4. /\ pc'[c] = "shown" /\ request'[c] = r /\ shown'[c] = Question(r) /\ r.tool # "list"
        /\ \A d \in Calls \ {c} : /\ pc'[d] = pc[d] /\ request'[d] = request[d]
                                  /\ shown'[d] = shown[d] /\ steady'[d] = steady[d]
        /\ UNCHANGED <<now, machine, client>>
    BY <1>0, <1>1 DEF Preview, CallTypes
  <2>5. QED
    BY <2>2, <2>3, <2>4, CallStep
<1>2. ASSUME NEW c \in Calls, NEW r \in Requests, ListMachine(c, r) PROVE IInv'
  <2>1. CallTypes'
    BY <1>0, <1>2 DEF ListMachine, CallTypes
  <2>2. /\ pc'[c] = "sent" /\ request'[c] = r /\ r.tool = "list"
        /\ \A d \in Calls \ {c} : /\ pc'[d] = pc[d] /\ request'[d] = request[d]
                                  /\ shown'[d] = shown[d] /\ steady'[d] = steady[d]
        /\ UNCHANGED <<now, machine, client>>
    BY <1>0, <1>2 DEF ListMachine, CallTypes
  <2>3. ExtendsTo(r, shown'[c])
    BY <2>2 DEF ExtendsTo
  <2>4. QED
    BY <2>1, <2>2, <2>3, CallStep
<1>3. ASSUME NEW c \in Calls, Confirm(c) PROVE IInv'
  <2>1. CallTypes'
    BY <1>0, <1>3 DEF Confirm, CallTypes
  <2>2. /\ pc[c] = "shown" /\ pc'[c] = "sent"
        /\ UNCHANGED <<now, machine, client, request, shown, steady>>
        /\ \A d \in Calls \ {c} : pc'[d] = pc[d]
    BY <1>0, <1>3 DEF Confirm, CallTypes
  <2>3. /\ request[c] \in Requests /\ ExtendsTo(request[c], shown[c])
        /\ steady[c] /\ request[c].tool # "list" => shown[c] = Question(request[c])
    BY <1>0, <2>2 DEF Asked, AsShown, Extending
  <2>4. QED
    BY <2>1, <2>2, <2>3, CallStep
<1>4. ASSUME NEW c \in Calls, GiveUp(c) PROVE IInv'
  <2>1. /\ CallEnds(c) /\ UNCHANGED <<now, machine, client, steady>>
        /\ steady' \in [Calls -> BOOLEAN]
    BY <1>0, <1>4 DEF GiveUp, CallTypes
  <2>2. QED
    BY <1>0, <2>1, CallEndsTypes, CallStep
<1>5. ASSUME NEW c \in Calls, Applied(c) PROVE IInv'
  <2>1. /\ pc[c] = "sent" /\ Does(request[c]) /\ CallEnds(c) /\ now' = now /\ client' = client
        /\ steady' = [d \in Calls |-> FALSE]
    BY <1>5 DEF Applied, Sent
  <2>2. request[c] \in Requests
    BY <1>0, <2>1 DEF Asked
  <2>3. MachineTypes' /\ ListingTypes' /\ \A w \in Windows : GoesOn(w)
    BY <1>0, <2>1, <2>2, DoesStep, DoesListing
  <2>4. /\ CallTypes' /\ pc'[c] = "idle"
        /\ \A d \in Calls \ {c} : /\ pc'[d] = pc[d] /\ request'[d] = request[d]
                                  /\ shown'[d] = shown[d]
    BY <1>0, <2>1, CallEndsTypes
  <2>5. QED
    BY <1>0, <2>1, <2>3, <2>4, MachineStep DEF TypeOK
<1>6. ASSUME NEW r \in Requests, OtherDoes(r) PROVE IInv'
  <2>1. /\ Does(r) /\ steady' = [d \in Calls |-> FALSE]
        /\ UNCHANGED <<now, client, pc, request, shown>>
    BY <1>6 DEF OtherDoes
  <2>2. MachineTypes' /\ ListingTypes' /\ \A w \in Windows : GoesOn(w)
    BY <1>0, <2>1, DoesStep, DoesListing
  <2>3. CallTypes'
    BY <1>0, <2>1 DEF CallTypes
  <2>4. QED
    BY <1>0, <2>1, <2>2, <2>3, MachineStep DEF TypeOK
<1>7. ASSUME NEW k \in Clients, NEW s \in {"none", "active", "terminated"}, ClientChanges(k, s)
      PROVE  IInv'
  <2>1. /\ steady' = [d \in Calls |-> FALSE]
        /\ UNCHANGED <<now, phase, start, end, listed, removing, pc, request, shown>>
        /\ client' \in [Clients -> {"none", "active", "terminated"}]
    BY <1>0, <1>7 DEF ClientChanges, machine, windows, TypeOK
  <2>2. MachineTypes' /\ ListingTypes' /\ \A w \in Windows : GoesOn(w)
    BY <1>0, <2>1 DEF MachineTypes, ListingTypes, GoesOn, Times
  <2>3. CallTypes'
    BY <1>0, <2>1 DEF CallTypes
  <2>4. QED
    BY <1>0, <2>1, <2>2, <2>3, MachineStep DEF TypeOK
<1>8. ASSUME \/ Tick
             \/ \E w \in Windows : StartsByItself(w) \/ FinishesByItself(w)
      PROVE  IInv'
  <2>1. MachineTypes' /\ ListingTypes' /\ now' \in Times /\ \A w \in Windows : GoesOn(w)
    BY <1>0, <1>8, TimeStep
  <2>2. UNCHANGED <<start, end, client, pc, request, shown, steady>>
    BY <1>8 DEF Tick, StartsByItself, FinishesByItself, machine, windows, calls
  <2>3. CallTypes' /\ client' \in [Clients -> {"none", "active", "terminated"}]
    BY <1>0, <2>2 DEF CallTypes, TypeOK
  <2>4. QED
    BY <2>1, <2>2, <2>3, MachineStep
<1>9. CASE UNCHANGED vars
  <2>1. UNCHANGED <<now, phase, start, end, listed, removing, client, pc, request, shown, steady>>
    BY <1>9 DEF vars, machine, windows, calls
  <2>2. MachineTypes' /\ ListingTypes' /\ (\A w \in Windows : GoesOn(w)) /\ CallTypes'
    BY <1>0, <2>1 DEF MachineTypes, ListingTypes, GoesOn, CallTypes, Times
  <2>3. QED
    BY <1>0, <2>1, <2>2, MachineStep DEF TypeOK
<1>10. QED
  BY <1>1, <1>2, <1>3, <1>4, <1>5, <1>6, <1>7, <1>8, <1>9 DEF Next

THEOREM Invariance == Spec => []IInv
BY InitIInv, NextIInv, PTL DEF Spec

\* Every variable keeps its type, every window ends after it starts, and none starts before
\* its time, whatever is edited and extended when.
THEOREM TypeCorrect == Spec => []TypeOK
<1>1. IInv => TypeOK
  BY DEF IInv
<1>2. QED
  BY <1>1, Invariance, PTL

-----------------------------------------------------------------------------
(* What a confirmed call does *)

LEMMA ToolOfStep ==
  ASSUME NEW r
  PROVE  /\ \A w : Schedules(r, w) => r.tool = "schedule"
         /\ \A w : Edits(r, w) => r.tool = "edit" /\ w = r.window
         /\ \A w : Extends(r, w) => r.tool = "extend" /\ w = r.window
         /\ r.tool = "delete" /\ Does(r) => Removes(r)
BY DEF Schedules, Edits, Extends, Does, OnWindow, Cancels, Ends, SetsListing, Removes, Delivers

\* As long as nobody else changes the machine or its clients, a confirmed call does what its
\* question said, though time passes and windows start by themselves.
THEOREM DoneAsShown == Spec => HappensAsShown
<1> DEFINE A == \A c \in Calls : Applied(c) /\ steady[c] =>
                  /\ \A w \in Windows :
                       /\ Schedules(Sent(c), w) \/ Edits(Sent(c), w) =>
                            start'[w] = shown[c].start /\ end'[w] = shown[c].end
                       /\ Extends(Sent(c), w) => end'[w] = shown[c].end
                  /\ request[c].tool \in {"schedule", "delete", "message"} =>
                       Recipients(Sent(c)) = shown[c].to
                  /\ request[c].tool = "delete" => (removing' = "grace" <=> shown[c].to # {})
<1>1. ASSUME IInv, [Next]_vars PROVE A
  <2> SUFFICES ASSUME NEW c \in Calls, Applied(c), steady[c]
               PROVE  /\ \A w \in Windows :
                           /\ Schedules(request[c], w) \/ Edits(request[c], w) =>
                                start'[w] = shown[c].start /\ end'[w] = shown[c].end
                           /\ Extends(request[c], w) => end'[w] = shown[c].end
                      /\ request[c].tool \in {"schedule", "delete", "message"} =>
                           Recipients(request[c]) = shown[c].to
                      /\ request[c].tool = "delete" => (removing' = "grace" <=> shown[c].to # {})
    BY DEF Sent
  <2> DEFINE r == request[c]
  <2>1. /\ r \in Requests /\ Does(r) /\ TypeOK
        /\ r.tool # "list" => shown[c] = Question(r)
    BY <1>1 DEF Applied, Sent, IInv, Asked, AsShown
  <2> HIDE DEF r
  <2>2. r.tool = "schedule" => shown[c].start = r.start /\ shown[c].end = r.end
    BY <2>1, QuestionOf DEF ScheduleQuestion
  <2>3. r.tool \in {"schedule", "delete"} => Recipients(r) = shown[c].to
    BY <2>1, QuestionOf DEF ScheduleQuestion, RemovalQuestion
  <2>4. r.tool \in {"schedule", "delete", "message"} => Recipients(r) = shown[c].to
    <3>1. r.tool = "message" => shown[c].to = MessageQuestion(r).to
      BY <2>1, QuestionOf
    <3>2. r.tool = "message" => MessageQuestion(r).to = Recipients(r)
      BY DEF MessageQuestion, Recipients, UsingWorkspaces
    <3>3. QED
      BY <2>3, <3>1, <3>2
  <2>5. r.tool = "delete" => (removing' = "grace" <=> shown[c].to # {})
    BY <2>1, <2>4, ToolOfStep DEF Removes
  <2>6. ASSUME NEW w \in Windows, Schedules(r, w)
        PROVE  start'[w] = shown[c].start /\ end'[w] = shown[c].end
    BY <2>1, <2>2, <2>6, ToolOfStep DEF Schedules, TypeOK
  <2>7. ASSUME NEW w \in Windows, w = r.window, r.tool \in {"edit", "extend"}
        PROVE  shown[c].start = WindowQuestion(r).start /\ shown[c].end = WindowQuestion(r).end
    BY <2>1, <2>7, QuestionOf
  <2>8. ASSUME NEW w \in Windows, Edits(r, w)
        PROVE  start'[w] = shown[c].start /\ end'[w] = shown[c].end
    <3>1. w = r.window /\ r.tool = "edit"
      BY <2>8, ToolOfStep
    <3>2. start'[w] = Or(r.start, start[w]) /\ end'[w] = Or(r.end, end[w])
      BY <2>1, <2>8 DEF Edits, TypeOK
    <3>3. QED
      BY <2>7, <3>1, <3>2 DEF WindowQuestion
  <2>9. ASSUME NEW w \in Windows, Extends(r, w) PROVE end'[w] = shown[c].end
    <3>1. w = r.window /\ r.tool = "extend"
      BY <2>9, ToolOfStep
    <3>2. end'[w] = end[w] + r.hours
      BY <2>1, <2>9 DEF Extends, TypeOK
    <3>3. QED
      BY <2>7, <3>1, <3>2 DEF WindowQuestion
  <2>10. QED
    BY <2>4, <2>5, <2>6, <2>8, <2>9 DEF r
<1>2. IInv /\ [Next]_vars => [A]_vars
  BY <1>1
<1>3. QED
  BY <1>2, Invariance, PTL DEF Spec, HappensAsShown

\* Whoever changed the window since the question, an edit leaves alone what the user did not
\* name, and an extension ends the window later, no earlier than the question said.
THEOREM OnlyNamedChanges == Spec => NothingElseChanged
<1> DEFINE A == \A c \in Calls, w \in Windows : Applied(c) =>
                  /\ Edits(Sent(c), w) =>
                       /\ request[c].start = None => start'[w] = start[w]
                       /\ request[c].end = None => end'[w] = end[w]
                  /\ Extends(Sent(c), w) => end'[w] > end[w] /\ end'[w] >= shown[c].end
<1>1. ASSUME IInv, [Next]_vars PROVE A
  <2> SUFFICES ASSUME NEW c \in Calls, NEW w \in Windows, Applied(c)
               PROVE  /\ Edits(request[c], w) =>
                           /\ request[c].start = None => start'[w] = start[w]
                           /\ request[c].end = None => end'[w] = end[w]
                      /\ Extends(request[c], w) => end'[w] > end[w] /\ end'[w] >= shown[c].end
    BY DEF Sent
  <2> DEFINE r == request[c]
  <2>1. r \in Requests /\ TypeOK /\ ExtendsTo(r, shown[c])
    BY <1>1 DEF Applied, IInv, Asked, Extending
  <2> HIDE DEF r
  <2>2. Edits(r, w) => /\ r.start = None => start'[w] = start[w]
                       /\ r.end = None => end'[w] = end[w]
    BY <2>1 DEF Edits, Or, TypeOK
  <2>3. ASSUME Extends(r, w) PROVE end'[w] > end[w] /\ end'[w] >= shown[c].end
    <3>1. w = r.window /\ r.tool = "extend" /\ phase[w] = "started"
      BY <2>3, ToolOfStep DEF Extends
    <3>2. r.hours \in 1 .. HOURS /\ end[w] \in Int
      BY <2>1, <3>1, RequestFields, HostingAssumption DEF TypeOK, Times
    <3>3. end'[w] = end[w] + r.hours
      BY <2>1, <2>3 DEF Extends, TypeOK
    <3>4. shown[c].end \in Int /\ shown[c].end <= end[w] + r.hours
      BY <2>1, <3>1 DEF ExtendsTo
    <3>5. QED
      BY <3>2, <3>3, <3>4, HostingAssumption
  <2>4. QED
    BY <2>2, <2>3 DEF r
<1>2. IInv /\ [Next]_vars => [A]_vars
  BY <1>1
<1>3. QED
  BY <1>2, Invariance, PTL DEF Spec, NothingElseChanged
=============================================================================
