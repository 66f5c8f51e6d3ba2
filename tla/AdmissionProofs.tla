-------------------------- MODULE AdmissionProofs --------------------------
(***************************************************************************)
(* Proofs about Admission, for any finite set of connections and any       *)
(* limits: the types, that the counters count the holders, the two bounds, *)
(* what may reach the SDK, that each counter implements a SlotPool, and    *)
(* that slots come back if the server serves every request it can.         *)
(***************************************************************************)
EXTENDS Admission, FiniteSetTheorems, TLAPS

-----------------------------------------------------------------------------
(* Types *)

LEMMA InitTypeOK == Init => TypeOK
  BY DEF Init, TypeOK, PCs, Shapes

\* A possible `finally` never takes a counter below 0: this needs SlotsMatch, so
\* the types are proved together with it below; here, all but the counters.
TypeOKButCounters ==
  /\ pc \in [Requests -> PCs]
  /\ shape \in [Requests -> Shapes]
  /\ upload \in [Requests -> {"coming", "past_limit", "ended"}]
  /\ left \in [Requests -> BOOLEAN]
  /\ verdict \in [Requests -> Verdicts \cup {"unread"}]
  /\ answer \in [Requests -> {"none", "200", "400", "405", "413", "500", "503"}]

LEMMA StepTypes ==
  ASSUME TypeOKButCounters, [Next]_vars
  PROVE  TypeOKButCounters'
<1> USE DEF TypeOKButCounters, PCs, Shapes, Verdicts
<1>1. CASE UNCHANGED vars
  BY <1>1 DEF vars
<1>2. ASSUME NEW r \in Requests, Receive(r) PROVE TypeOKButCounters'
  <2>1. CASE PassThrough(r)
    BY <2>1 DEF PassThrough, client
  <2>2. ASSUME NEW s \in Shapes, NEW where \in PCs, Arrives(r, s, where)
        PROVE  TypeOKButCounters'
    BY <2>2 DEF Arrives
  <2>3. ASSUME NEW s \in Shapes, Drain(r, s) \/ BeginReading(r, s)
        PROVE  \E where \in PCs : Arrives(r, s, where)
    BY <2>3 DEF Drain, BeginReading
  <2>4. QED
    BY <1>2, <2>1, <2>2, <2>3 DEF Receive
<1>3. ASSUME NEW r \in Requests, ClientStep(r) PROVE TypeOKButCounters'
  BY <1>3 DEF ClientStep, UploadEnds, UploadPassesLimit, Leave
<1>4. ASSUME NEW r \in Requests, Serve(r) PROVE TypeOKButCounters'
  <2>1. CASE PassEnds(r)
    BY <2>1 DEF PassEnds, client
  <2>2. CASE DrainEnds(r)
    BY <2>2 DEF DrainEnds, Forget
  <2>3. CASE TooLarge(r)
    BY <2>3 DEF TooLarge, client
  <2>4. CASE Abandoned(r)
    BY <2>4 DEF Abandoned, Forget
  <2>5. CASE RefuseComplex(r)
    BY <2>5 DEF RefuseComplex, client
  <2>6. CASE RefuseBusy(r)
    BY <2>6 DEF RefuseBusy, client
  <2>7. CASE RefuseUnreadable(r)
    BY <2>7 DEF RefuseUnreadable, client
  <2>8. CASE Handle(r)
    BY <2>8 DEF Handle, client
  <2>9. CASE RefusalSent(r)
    BY <2>9 DEF RefusalSent, Forget
  <2>10. CASE ReadRefusalSent(r)
    BY <2>10 DEF ReadRefusalSent, Forget
  <2>11. CASE HandlerEnds(r)
    BY <2>11 DEF HandlerEnds, Forget
  <2>12. QED
    BY <1>4, <2>1, <2>2, <2>3, <2>4, <2>5, <2>6, <2>7, <2>8, <2>9, <2>10,
       <2>11 DEF Serve
<1>5. QED
  BY <1>1, <1>2, <1>3, <1>4 DEF Next

-----------------------------------------------------------------------------
(* The counters count the holders *)

LEMMA HoldersFinite ==
  /\ IsFiniteSet(RequestHolders) /\ Cardinality(RequestHolders) \in Nat
  /\ IsFiniteSet(LargeHolders) /\ Cardinality(LargeHolders) \in Nat
  BY RequestsAssumption, FS_Subset, FS_CardinalityType
     DEF RequestHolders, LargeHolders

\* What a step does to a counter and to the set of its holders: the holders stay,
\* one is added and the counter goes up, or one is removed and it goes down.
Counts(S, Snew, n, nnew) ==
  \/ Snew = S /\ nnew = n
  \/ \E r \in Requests : r \notin S /\ Snew = S \cup {r} /\ nnew = n + 1
  \/ \E r \in Requests : r \in S /\ Snew = S \ {r} /\ nnew = n - 1

LEMMA CountsKept ==
  ASSUME NEW S, NEW Snew, NEW n, NEW nnew, IsFiniteSet(S),
         n = Cardinality(S), Counts(S, Snew, n, nnew)
  PROVE  nnew = Cardinality(Snew)
<1>1. ASSUME NEW r \in Requests, r \notin S, Snew = S \cup {r}, nnew = n + 1
      PROVE  nnew = Cardinality(Snew)
  BY <1>1, FS_AddElement
<1>2. ASSUME NEW r \in Requests, r \in S, Snew = S \ {r}, nnew = n - 1
      PROVE  nnew = Cardinality(Snew)
  BY <1>2, FS_RemoveElement
<1>3. QED
  BY <1>1, <1>2 DEF Counts

\* Only a step that passes the check of `admit` adds a request holder.
LEMMA RequestSlotStep ==
  ASSUME TypeOKButCounters, [Next]_vars, active \in Nat
  PROVE  /\ Counts(RequestHolders, RequestHolders', active, active')
         /\ active' = active + 1 => active < MAX_REQUESTS
<1> USE DEF TypeOKButCounters, PCs, Admitted
<1> DEFINE Same == RequestHolders' = RequestHolders /\ active' = active
<1>0. Same => /\ Counts(RequestHolders, RequestHolders', active, active')
              /\ active' = active + 1 => active < MAX_REQUESTS
  BY DEF Counts
<1> HIDE DEF Same
<1>1. CASE UNCHANGED vars
  BY <1>0, <1>1 DEF vars, Same, RequestHolders
<1>2. ASSUME NEW r \in Requests,
             Receive(r) \/ ClientStep(r) \/ PassEnds(r) \/ DrainEnds(r) \/ TooLarge(r)
               \/ Abandoned(r) \/ RefuseComplex(r) \/ RefuseBusy(r) \/ RefusalSent(r)
      PROVE  Same
  <2>1. CASE Receive(r)
    BY <2>1 DEF Receive, PassThrough, Drain, BeginReading, Arrives, Same,
                RequestHolders
  <2>2. CASE ClientStep(r)
    BY <2>2 DEF ClientStep, UploadEnds, UploadPassesLimit, Leave, Same,
                RequestHolders
  <2>3. CASE PassEnds(r) \/ DrainEnds(r) \/ TooLarge(r) \/ Abandoned(r)
    BY <2>3 DEF PassEnds, DrainEnds, TooLarge, Abandoned, Same, RequestHolders
  <2>4. CASE RefuseComplex(r) \/ RefuseBusy(r) \/ RefusalSent(r)
    BY <2>4 DEF RefuseComplex, RefuseBusy, RefusalSent, BodyRead, Same,
                RequestHolders
  <2>5. QED
    BY <1>2, <2>1, <2>2, <2>3, <2>4
<1>3. ASSUME NEW r \in Requests, RefuseUnreadable(r) \/ Handle(r)
      PROVE  /\ Counts(RequestHolders, RequestHolders', active, active')
             /\ active < MAX_REQUESTS
  <2>1. /\ r \notin RequestHolders
        /\ RequestHolders' = RequestHolders \cup {r}
        /\ active' = active + 1
        /\ active < MAX_REQUESTS
    BY <1>3 DEF RefuseUnreadable, Handle, BodyRead, RequestHolders
  <2>2. QED
    BY <2>1 DEF Counts
<1>4. ASSUME NEW r \in Requests, ReadRefusalSent(r) \/ HandlerEnds(r)
      PROVE  /\ Counts(RequestHolders, RequestHolders', active, active')
             /\ active' # active + 1
  <2>1. /\ r \in RequestHolders
        /\ RequestHolders' = RequestHolders \ {r}
        /\ active' = active - 1
    BY <1>4 DEF ReadRefusalSent, HandlerEnds, RequestHolders
  <2>2. QED
    BY <2>1 DEF Counts
<1>5. QED
  BY <1>0, <1>1, <1>2, <1>3, <1>4 DEF Next, Serve

\* Only a step that passes the check of __call__ adds a holder of a large body.
LEMMA LargeSlotStep ==
  ASSUME TypeOKButCounters, [Next]_vars, active_large \in Nat
  PROVE  /\ Counts(LargeHolders, LargeHolders', active_large, active_large')
         /\ active_large' = active_large + 1 => active_large < MAX_LARGE_BODIES
<1> USE DEF TypeOKButCounters, PCs, ReadingBody
<1> DEFINE Same == LargeHolders' = LargeHolders /\ active_large' = active_large
           Goal == /\ Counts(LargeHolders, LargeHolders', active_large, active_large')
                   /\ active_large' = active_large + 1 => active_large < MAX_LARGE_BODIES
<1>0. Same => Goal
  BY DEF Counts
<1> HIDE DEF Same
<1>1. CASE UNCHANGED vars
  BY <1>0, <1>1 DEF vars, Same, LargeHolders
<1>2. ASSUME NEW r \in Requests,
             ClientStep(r) \/ PassThrough(r) \/ PassEnds(r) \/ DrainEnds(r)
               \/ TooLarge(r) \/ RefuseComplex(r) \/ RefuseBusy(r)
               \/ RefuseUnreadable(r) \/ Handle(r)
      PROVE  Same
  <2>1. CASE ClientStep(r)
    BY <2>1 DEF ClientStep, UploadEnds, UploadPassesLimit, Leave, Same, LargeHolders
  <2>2. CASE PassThrough(r) \/ PassEnds(r)
    BY <2>2 DEF PassThrough, PassEnds, client, Same, LargeHolders
  <2>3. CASE DrainEnds(r)
    <3>1. pc[r] = "draining" /\ pc' = [pc EXCEPT ![r] = "idle"]
          /\ shape' = [shape EXCEPT ![r] = "small"] /\ active_large' = active_large
      BY <2>3 DEF DrainEnds, Forget
    <3>2. QED
      BY <3>1 DEF Same, LargeHolders
  <2>4. CASE TooLarge(r) \/ RefuseComplex(r) \/ RefuseBusy(r)
               \/ RefuseUnreadable(r) \/ Handle(r)
    <3>1. /\ pc[r] = "reading"
          /\ \E p \in {"refusing", "refusing_read", "handling"} :
               pc' = [pc EXCEPT ![r] = p]
          /\ shape' = shape /\ active_large' = active_large
      BY <2>4 DEF TooLarge, RefuseComplex, RefuseBusy, RefuseUnreadable, Handle,
                  BodyRead, client
    <3>2. QED
      BY <3>1 DEF Same, LargeHolders
  <2>5. QED
    BY <1>2, <2>1, <2>2, <2>3, <2>4
<1>3. ASSUME NEW r \in Requests, NEW s \in Shapes, Drain(r, s) \/ BeginReading(r, s)
      PROVE  Goal
  <2>1. /\ pc[r] = "idle"
        /\ shape' = [shape EXCEPT ![r] = s]
        /\ r \notin LargeHolders
    BY <1>3 DEF Drain, BeginReading, Arrives, LargeHolders
  <2>2. CASE Drain(r, s)
    BY <1>0, <2>1, <2>2 DEF Drain, Arrives, Same, LargeHolders
  <2>3. CASE BeginReading(r, s) /\ ~MayBeLarge(s)
    <3>1. LargeHolders' = LargeHolders
      BY <2>1, <2>3 DEF BeginReading, Arrives, LargeHolders
    <3>2. active_large' = active_large
      BY <2>3 DEF BeginReading
    <3>3. QED
      BY <1>0, <3>1, <3>2 DEF Same
  <2>4. CASE BeginReading(r, s) /\ MayBeLarge(s)
    <3>1. LargeHolders' = LargeHolders \cup {r}
      BY <2>1, <2>4 DEF BeginReading, Arrives, LargeHolders
    <3>2. active_large' = active_large + 1 /\ active_large < MAX_LARGE_BODIES
      BY <2>4, LimitsAssumption DEF BeginReading
    <3>3. QED
      BY <2>1, <3>1, <3>2 DEF Counts
  <2>5. QED
    BY <1>3, <2>2, <2>3, <2>4
<1>4. ASSUME NEW r \in Requests,
             Abandoned(r) \/ RefusalSent(r) \/ ReadRefusalSent(r) \/ HandlerEnds(r)
      PROVE  Goal
  <2>1. /\ pc[r] \in ReadingBody
        /\ pc' = [pc EXCEPT ![r] = "idle"]
        /\ shape' = [shape EXCEPT ![r] = "small"]
        /\ active_large' = active_large - IF MayBeLarge(shape[r]) THEN 1 ELSE 0
    BY <1>4 DEF Abandoned, RefusalSent, ReadRefusalSent, HandlerEnds, Forget,
                ReleaseLarge
  <2>2. LargeHolders' = LargeHolders \ {r}
    BY <2>1 DEF LargeHolders
  <2>3. CASE MayBeLarge(shape[r])
    <3>1. r \in LargeHolders
      BY <2>1, <2>3 DEF LargeHolders
    <3>2. active_large' = active_large - 1
      BY <2>1, <2>3
    <3>3. QED
      BY <2>2, <3>1, <3>2 DEF Counts
  <2>4. CASE ~MayBeLarge(shape[r])
    BY <1>0, <2>1, <2>2, <2>4 DEF Same, LargeHolders
  <2>5. QED
    BY <2>3, <2>4
<1>5. QED
  BY <1>0, <1>1, <1>2, <1>3, <1>4 DEF Next, Serve, Receive

-----------------------------------------------------------------------------
(* The inductive invariant *)

\* The counters are exact and within the limits.  Neither half is inductive
\* alone: the bound holds because the check reads an exact counter.
CountersInv ==
  /\ SlotsMatch
  /\ active <= MAX_REQUESTS
  /\ active_large <= MAX_LARGE_BODIES

IInv == TypeOKButCounters /\ CountersInv

LEMMA InitIInv == Init => IInv
<1> SUFFICES ASSUME Init PROVE IInv
  OBVIOUS
<1>1. TypeOKButCounters
  BY InitTypeOK DEF TypeOK, TypeOKButCounters
<1>2. RequestHolders = {} /\ LargeHolders = {}
  BY DEF Init, RequestHolders, LargeHolders, Admitted, ReadingBody
<1>3. QED
  BY <1>1, <1>2, FS_EmptySet, LimitsAssumption
     DEF Init, IInv, CountersInv, SlotsMatch

LEMMA StepIInv == IInv /\ [Next]_vars => IInv'
<1> SUFFICES ASSUME IInv, [Next]_vars PROVE IInv'
  OBVIOUS
<1>1. TypeOKButCounters'
  BY StepTypes DEF IInv
<1>2. active \in Nat /\ active_large \in Nat
  BY HoldersFinite DEF IInv, CountersInv, SlotsMatch
<1>3. active' = Cardinality(RequestHolders)' /\ active' <= MAX_REQUESTS
  <2>1. Counts(RequestHolders, RequestHolders', active, active')
    BY <1>2, RequestSlotStep DEF IInv
  <2>2. active' = Cardinality(RequestHolders')
    BY <2>1, CountsKept, HoldersFinite DEF IInv, CountersInv, SlotsMatch
  <2>3. active' = active \/ active' = active - 1
          \/ (active' = active + 1 /\ active < MAX_REQUESTS)
    BY <1>2, <2>1, RequestSlotStep DEF IInv, Counts
  <2>4. QED
    BY <1>2, <2>2, <2>3, LimitsAssumption DEF IInv, CountersInv
<1>4. active_large' = Cardinality(LargeHolders)' /\ active_large' <= MAX_LARGE_BODIES
  <2>1. Counts(LargeHolders, LargeHolders', active_large, active_large')
    BY <1>2, LargeSlotStep DEF IInv
  <2>2. active_large' = Cardinality(LargeHolders')
    BY <2>1, CountsKept, HoldersFinite DEF IInv, CountersInv, SlotsMatch
  <2>3. active_large' = active_large \/ active_large' = active_large - 1
          \/ (active_large' = active_large + 1 /\ active_large < MAX_LARGE_BODIES)
    BY <1>2, <2>1, LargeSlotStep DEF IInv, Counts
  <2>4. QED
    BY <1>2, <2>2, <2>3, LimitsAssumption DEF IInv, CountersInv
<1>5. QED
  BY <1>1, <1>3, <1>4 DEF IInv, CountersInv, SlotsMatch

THEOREM Invariance == Spec => []IInv
  BY InitIInv, StepIInv, PTL DEF Spec

\* The counters are natural numbers (no `finally` gives back a slot that was not
\* taken) and everything else has its type.
THEOREM TypeCorrect == Spec => []TypeOK
<1>1. IInv => TypeOK
  BY HoldersFinite DEF IInv, TypeOKButCounters, CountersInv, SlotsMatch, TypeOK
<1>2. QED
  BY <1>1, Invariance, PTL

\* AdmitRequests.active and active_large count the requests inside their try
\* blocks, for any number of connections and any limits.
THEOREM SlotsCorrect == Spec => []SlotsMatch
<1>1. IInv => SlotsMatch
  BY DEF IInv, CountersInv
<1>2. QED
  BY <1>1, Invariance, PTL

-----------------------------------------------------------------------------
(* The bounds *)

\* The SDK handles at most MAX_REQUESTS requests at a time, the ones whose client
\* has left counted, and at most MAX_LARGE_BODIES bodies that may be large are kept,
\* from their first byte to the end of their handler.
THEOREM WorkIsBounded == Spec => []WorkBounded
<1>1. ASSUME IInv PROVE WorkBounded
  <2> DEFINE H == {r \in Requests : pc[r] = "handling"}
             L == {r \in Requests : /\ pc[r] \in {"reading", "refusing", "refusing_read", "handling"}
                                    /\ shape[r] \in {"unsized", "large", "oversized"}}
  <2>1. H \in SUBSET RequestHolders
    BY DEF RequestHolders, Admitted
  <2>2. Cardinality(H) \in Nat /\ Cardinality(H) <= Cardinality(RequestHolders)
    BY <2>1, HoldersFinite, FS_Subset, FS_CardinalityType
  <2>3. Cardinality(H) <= MAX_REQUESTS
    BY <1>1, <2>2, HoldersFinite, LimitsAssumption DEF IInv, CountersInv, SlotsMatch
  <2>4. \A s \in Shapes : s \in {"unsized", "large", "oversized"} <=> MayBeLarge(s)
    BY DEF Shapes, MayBeLarge
  <2>5. L = LargeHolders
    BY <1>1, <2>4 DEF LargeHolders, ReadingBody, IInv, TypeOKButCounters
  <2>6. Cardinality(L) <= MAX_LARGE_BODIES
    BY <1>1, <2>5 DEF IInv, CountersInv, SlotsMatch
  <2>7. QED
    BY <2>3, <2>6 DEF WorkBounded
<1>2. QED
  BY <1>1, Invariance, PTL

-----------------------------------------------------------------------------
(* What reaches the SDK, and who is told that the server is busy *)

\* Nothing reaches the SDK that was not read to its end, counted by _too_complex
\* and read by the strict parser.
THEOREM OnlyVettedReachSdk == Spec => []OnlyVettedHandled
<1>1. Init => OnlyVettedHandled
  BY DEF Init, OnlyVettedHandled
<1>2. ASSUME IInv, OnlyVettedHandled, [Next]_vars PROVE OnlyVettedHandled'
  <2> SUFFICES ASSUME NEW q \in Requests, pc'[q] = "handling"
               PROVE  verdict'[q] = "fine" /\ upload'[q] = "ended"
                        /\ shape'[q] # "oversized"
    BY DEF OnlyVettedHandled
  <2> USE DEF IInv, TypeOKButCounters
  <2>1. CASE UNCHANGED vars
    BY <1>2, <2>1 DEF vars, OnlyVettedHandled
  <2>2. ASSUME NEW r \in Requests, Handle(r)
        PROVE  verdict'[q] = "fine" /\ upload'[q] = "ended" /\ shape'[q] # "oversized"
    BY <1>2, <2>2 DEF Handle, BodyRead, client, OnlyVettedHandled
  <2>3. ASSUME NEW r \in Requests, ClientStep(r)
        PROVE  verdict'[q] = "fine" /\ upload'[q] = "ended" /\ shape'[q] # "oversized"
    BY <1>2, <2>3 DEF ClientStep, UploadEnds, UploadPassesLimit, Leave,
                      OnlyVettedHandled
  <2>4. ASSUME NEW r \in Requests, Receive(r)
        PROVE  verdict'[q] = "fine" /\ upload'[q] = "ended" /\ shape'[q] # "oversized"
    BY <1>2, <2>4 DEF Receive, PassThrough, Drain, BeginReading, Arrives, client,
                      OnlyVettedHandled
  <2>5. ASSUME NEW r \in Requests, Serve(r), ~Handle(r)
        PROVE  verdict'[q] = "fine" /\ upload'[q] = "ended" /\ shape'[q] # "oversized"
    <3>1. CASE PassEnds(r) \/ DrainEnds(r) \/ TooLarge(r) \/ Abandoned(r)
      BY <1>2, <3>1 DEF PassEnds, DrainEnds, TooLarge, Abandoned, Forget, client,
                        OnlyVettedHandled
    <3>2. CASE RefuseComplex(r) \/ RefuseBusy(r) \/ RefuseUnreadable(r)
      BY <1>2, <3>2 DEF RefuseComplex, RefuseBusy, RefuseUnreadable, client,
                        OnlyVettedHandled
    <3>3. CASE RefusalSent(r) \/ ReadRefusalSent(r) \/ HandlerEnds(r)
      BY <1>2, <3>3 DEF RefusalSent, ReadRefusalSent, HandlerEnds, Forget,
                        OnlyVettedHandled
    <3>4. QED
      BY <2>5, <3>1, <3>2, <3>3 DEF Serve
  <2>6. QED
    BY <1>2, <2>1, <2>2, <2>3, <2>4, <2>5 DEF Next
<1>3. QED
  BY <1>1, <1>2, Invariance, PTL DEF Spec

\* A request is read to be refused only if its body may be large.
DrainedMayBeLarge == \A r \in Requests : pc[r] = "draining" => MayBeLarge(shape[r])

LEMMA DrainedAreLarge == Spec => []DrainedMayBeLarge
<1>1. Init => DrainedMayBeLarge
  BY DEF Init, DrainedMayBeLarge
<1>2. ASSUME IInv, DrainedMayBeLarge, [Next]_vars PROVE DrainedMayBeLarge'
  <2> SUFFICES ASSUME NEW q \in Requests, pc'[q] = "draining"
               PROVE  MayBeLarge(shape'[q])
    BY DEF DrainedMayBeLarge
  <2> USE DEF IInv, TypeOKButCounters
  <2>1. CASE UNCHANGED vars
    BY <1>2, <2>1 DEF vars, DrainedMayBeLarge
  <2>2. ASSUME NEW r \in Requests, Receive(r) \/ ClientStep(r)
        PROVE  MayBeLarge(shape'[q])
    BY <1>2, <2>2 DEF Receive, PassThrough, Drain, BeginReading, Arrives, client,
                      ClientStep, UploadEnds, UploadPassesLimit, Leave,
                      DrainedMayBeLarge
  <2>3. ASSUME NEW r \in Requests, Serve(r)
        PROVE  MayBeLarge(shape'[q])
    <3>1. CASE PassEnds(r) \/ DrainEnds(r) \/ TooLarge(r) \/ Abandoned(r)
      BY <1>2, <3>1 DEF PassEnds, DrainEnds, TooLarge, Abandoned, Forget, client,
                        DrainedMayBeLarge
    <3>2. CASE RefuseComplex(r) \/ RefuseBusy(r) \/ RefuseUnreadable(r) \/ Handle(r)
      BY <1>2, <3>2 DEF RefuseComplex, RefuseBusy, RefuseUnreadable, Handle, client,
                        DrainedMayBeLarge
    <3>3. CASE RefusalSent(r) \/ ReadRefusalSent(r) \/ HandlerEnds(r)
      BY <1>2, <3>3 DEF RefusalSent, ReadRefusalSent, HandlerEnds, Forget,
                        DrainedMayBeLarge
    <3>4. QED
      BY <2>3, <3>1, <3>2, <3>3 DEF Serve
  <2>4. QED
    BY <1>2, <2>1, <2>2, <2>3 DEF Next
<1>3. QED
  BY <1>1, <1>2, Invariance, PTL DEF Spec

\* A small request is refused as busy only while MAX_REQUESTS are being handled,
\* whatever large uploads are going on.
THEOREM SmallRefusedOnlyIfFull == Spec => SmallRefusedOnlyWhenFull
<1> DEFINE A == \A r \in Requests :
                  (shape[r] = "small" /\ answer[r] = "none" /\ answer'[r] = "503")
                    => active = MAX_REQUESTS
<1>1. ASSUME IInv, DrainedMayBeLarge, [Next]_vars PROVE A
  <2> SUFFICES ASSUME NEW q \in Requests,
                      shape[q] = "small", answer[q] = "none", answer'[q] = "503"
               PROVE  active = MAX_REQUESTS
    OBVIOUS
  <2> USE DEF IInv, TypeOKButCounters
  <2>1. ASSUME NEW r \in Requests, RefuseBusy(r) PROVE active = MAX_REQUESTS
    BY <1>1, <2>1, HoldersFinite, LimitsAssumption
       DEF RefuseBusy, CountersInv, SlotsMatch
  <2>2. ASSUME NEW r \in Requests, DrainEnds(r) PROVE FALSE
    BY <1>1, <2>2 DEF DrainEnds, DrainedMayBeLarge, MayBeLarge
  <2>3. ASSUME NEW r \in Requests, Receive(r) \/ ClientStep(r) PROVE FALSE
    BY <1>1, <2>3 DEF Receive, PassThrough, Drain, BeginReading, Arrives,
                      ClientStep, UploadEnds, UploadPassesLimit, Leave
  <2>4. ASSUME NEW r \in Requests,
               PassEnds(r) \/ TooLarge(r) \/ Abandoned(r) \/ RefuseComplex(r)
                 \/ RefuseUnreadable(r) \/ Handle(r) \/ RefusalSent(r)
                 \/ ReadRefusalSent(r) \/ HandlerEnds(r)
        PROVE FALSE
    BY <1>1, <2>4 DEF PassEnds, TooLarge, Abandoned, RefuseComplex,
                      RefuseUnreadable, Handle, RefusalSent, ReadRefusalSent,
                      HandlerEnds
  <2>5. CASE UNCHANGED vars
    BY <2>5 DEF vars
  <2>6. QED
    BY <1>1, <2>1, <2>2, <2>3, <2>4, <2>5 DEF Next, Serve
<1>2. IInv /\ DrainedMayBeLarge /\ [Next]_vars => [A]_vars
  BY <1>1
<1>3. QED
  BY <1>2, Invariance, DrainedAreLarge, PTL DEF Spec, SmallRefusedOnlyWhenFull

-----------------------------------------------------------------------------
(* Each counter implements a pool of slots *)

\* A step of AdmitRequests takes one slot of a pool that is not full, gives one
\* back, or leaves the pool alone.
LEMMA CountsImplementPool ==
  ASSUME NEW S, NEW Snew, NEW n, NEW nnew, NEW L \in Nat,
         n = Cardinality(S), n \in Nat, Counts(S, Snew, n, nnew),
         nnew = n + 1 => n < L
  PROVE  \/ Snew = S
         \/ \E r \in Requests :
              \/ r \notin S /\ Cardinality(S) < L /\ Snew = S \cup {r}
              \/ r \in S /\ Snew = S \ {r}
  BY DEF Counts

\* For any number of connections and any limits, `active` is a pool of
\* MAX_REQUESTS slots and `active_large` one of MAX_LARGE_BODIES slots.
THEOREM CountersArePools == Spec => SlotsArePools
<1>1. Init => RequestPool!Init /\ LargePool!Init
  BY DEF Init, RequestPool!Init, LargePool!Init, RequestHolders, LargeHolders,
         Admitted, ReadingBody
<1>2. IInv /\ [Next]_vars => [RequestPool!Next]_RequestHolders
  <2> SUFFICES ASSUME IInv, [Next]_vars
               PROVE  [RequestPool!Next]_RequestHolders
    OBVIOUS
  <2>1. /\ active = Cardinality(RequestHolders) /\ active \in Nat
        /\ Counts(RequestHolders, RequestHolders', active, active')
        /\ active' = active + 1 => active < MAX_REQUESTS
    BY HoldersFinite, RequestSlotStep DEF IInv, CountersInv, SlotsMatch
  <2>2. \/ RequestHolders' = RequestHolders
        \/ \E r \in Requests :
             \/ /\ r \notin RequestHolders
                /\ Cardinality(RequestHolders) < MAX_REQUESTS
                /\ RequestHolders' = RequestHolders \cup {r}
             \/ r \in RequestHolders /\ RequestHolders' = RequestHolders \ {r}
    BY <2>1, CountsImplementPool, LimitsAssumption
  <2>3. QED
    <3>1. RequestPool!Cardinality(RequestHolders) = Cardinality(RequestHolders)
      BY DEF RequestPool!Cardinality, Cardinality
    <3>2. QED
      BY <2>2, <3>1 DEF RequestPool!Next, RequestPool!Take, RequestPool!Give
<1>3. IInv /\ [Next]_vars => [LargePool!Next]_LargeHolders
  <2> SUFFICES ASSUME IInv, [Next]_vars
               PROVE  [LargePool!Next]_LargeHolders
    OBVIOUS
  <2>1. /\ active_large = Cardinality(LargeHolders) /\ active_large \in Nat
        /\ Counts(LargeHolders, LargeHolders', active_large, active_large')
        /\ active_large' = active_large + 1 => active_large < MAX_LARGE_BODIES
    BY HoldersFinite, LargeSlotStep DEF IInv, CountersInv, SlotsMatch
  <2>2. \/ LargeHolders' = LargeHolders
        \/ \E r \in Requests :
             \/ /\ r \notin LargeHolders
                /\ Cardinality(LargeHolders) < MAX_LARGE_BODIES
                /\ LargeHolders' = LargeHolders \cup {r}
             \/ r \in LargeHolders /\ LargeHolders' = LargeHolders \ {r}
    BY <2>1, CountsImplementPool, LimitsAssumption
  <2>3. QED
    <3>1. LargePool!Cardinality(LargeHolders) = Cardinality(LargeHolders)
      BY DEF LargePool!Cardinality, Cardinality
    <3>2. QED
      BY <2>2, <3>1 DEF LargePool!Next, LargePool!Take, LargePool!Give
<1>4. QED
  BY <1>1, <1>2, <1>3, Invariance, PTL
     DEF Spec, SlotsArePools, RequestPool!Spec, LargePool!Spec

-----------------------------------------------------------------------------
(* Slots come back *)

\* The server can go on with the request of r: a guard of Serve(r) holds.
CanGoOn(r) ==
  \/ pc[r] \in {"passing", "refusing", "refusing_read", "handling"}
  \/ pc[r] = "draining" /\ (upload[r] \in {"ended", "past_limit"} \/ left[r])
  \/ pc[r] = "reading" /\ (shape[r] = "oversized" \/ left[r] \/ upload[r] = "ended")

\* Weak fairness of Serve(r), with its guard spelled out: the event loop runs a
\* coroutine that can go on, and a handler ends.
Served(r) == []<>~CanGoOn(r) \/ []<><<Serve(r)>>_vars

\* The body has ended, or the client has left.
Closed(r) == upload[r] = "ended" \/ left[r]

\* Still to be decided, and decided: how far a request is from its end.
Undecided(r) == pc[r] = "reading" /\ Closed(r)
Decided(r) == \/ pc[r] \in {"passing", "refusing", "refusing_read", "handling"}
              \/ pc[r] = "draining" /\ Closed(r)
Over(r) == pc[r] = "idle"

LEMMA OthersStay ==
  ASSUME TypeOK, NEW r \in Requests, NEW q \in Requests \ {r},
         Receive(q) \/ ClientStep(q) \/ Serve(q)
  PROVE  pc'[r] = pc[r] /\ upload'[r] = upload[r] /\ left'[r] = left[r]
BY DEF TypeOK, Receive, PassThrough, Drain, BeginReading, Arrives, ClientStep, UploadEnds,
   UploadPassesLimit, Leave, Serve, PassEnds, DrainEnds, TooLarge, Abandoned, RefuseComplex,
   RefuseBusy, RefuseUnreadable, Handle, RefusalSent, ReadRefusalSent, HandlerEnds, Forget, client

LEMMA ClientLeavesClosed ==
  ASSUME TypeOK, NEW r \in Requests, ClientStep(r)
  PROVE  pc' = pc /\ (Closed(r) => Closed(r)')
BY DEF TypeOK, ClientStep, UploadEnds, UploadPassesLimit, Leave, Closed

\* Every step the server takes with a request brings it nearer to its end.
LEMMA ServeDescends ==
  ASSUME TypeOK, NEW r \in Requests, Serve(r)
  PROVE  /\ Undecided(r) => Decided(r)' \/ Over(r)'
         /\ Decided(r) => Over(r)'
<1>1. CASE PassEnds(r) \/ DrainEnds(r) \/ RefusalSent(r) \/ ReadRefusalSent(r) \/ HandlerEnds(r)
  <2>1. pc'[r] = "idle"
    BY <1>1 DEF TypeOK, PassEnds, DrainEnds, RefusalSent, ReadRefusalSent, HandlerEnds
  <2>2. QED
    BY <2>1 DEF Over
<1>2. CASE TooLarge(r) \/ Abandoned(r) \/ RefuseComplex(r) \/ RefuseBusy(r)
           \/ RefuseUnreadable(r) \/ Handle(r)
  <2>1. /\ pc[r] = "reading"
        /\ pc'[r] \in {"idle", "refusing", "refusing_read", "handling"}
    BY <1>2 DEF TypeOK, TooLarge, Abandoned, RefuseComplex, RefuseBusy, RefuseUnreadable, Handle,
       BodyRead
  <2>2. QED
    BY <2>1 DEF Decided, Over
<1>3. QED
  BY <1>1, <1>2 DEF Serve

\* And none that anyone takes leads away from it.
LEMMA NoneAscends ==
  ASSUME TypeOK, NEW r \in Requests, [Next]_vars
  PROVE  /\ Undecided(r) => Undecided(r)' \/ Decided(r)' \/ Over(r)'
         /\ Decided(r) => Decided(r)' \/ Over(r)'
<1>1. CASE UNCHANGED vars
  BY <1>1 DEF vars, Undecided, Decided, Closed
<1>2. ASSUME NEW q \in Requests \ {r}, Receive(q) \/ ClientStep(q) \/ Serve(q)
      PROVE  (Undecided(r) => Undecided(r)') /\ (Decided(r) => Decided(r)')
  BY <1>2, OthersStay DEF Undecided, Decided, Closed
<1>3. CASE Receive(r)
  BY <1>3 DEF Receive, PassThrough, Drain, BeginReading, Arrives, Undecided, Decided
<1>4. CASE ClientStep(r)
  BY <1>4, ClientLeavesClosed DEF Undecided, Decided
<1>5. CASE Serve(r)
  BY <1>5, ServeDescends
<1>6. QED
  BY <1>1, <1>2, <1>3, <1>4, <1>5 DEF Next

\* Whatever was decided for it, a request whose body has ended, or whose client has
\* left, gives back what it holds, for any limits and any number of connections.
THEOREM ServedSlotsComeBack == Spec /\ (\A r \in Requests : Served(r)) => SlotsComeBack
<1>1. ASSUME NEW r \in Requests
      PROVE  Spec /\ Served(r) => ((pc[r] # "idle" /\ (upload[r] = "ended" \/ left[r])) ~> pc[r] = "idle")
  <2>1. TypeOK /\ pc[r] # "idle" /\ (upload[r] = "ended" \/ left[r]) => Undecided(r) \/ Decided(r)
    BY DEF TypeOK, PCs, Undecided, Decided, Closed
  <2>2. TypeOK /\ Undecided(r) /\ [Next]_vars => Undecided(r)' \/ Decided(r)' \/ Over(r)'
    BY NoneAscends
  <2>3. TypeOK /\ Decided(r) /\ [Next]_vars => Decided(r)' \/ Over(r)'
    BY NoneAscends
  <2>4. TypeOK /\ Undecided(r) /\ <<Serve(r)>>_vars => Decided(r)' \/ Over(r)'
    BY ServeDescends
  <2>5. TypeOK /\ Decided(r) /\ <<Serve(r)>>_vars => Over(r)'
    BY ServeDescends
  <2>6. Undecided(r) \/ Decided(r) => CanGoOn(r)
    BY DEF Undecided, Decided, Closed, CanGoOn
  <2>7. Over(r) <=> pc[r] = "idle"
    BY DEF Over
  <2>8. QED
    BY <2>1, <2>2, <2>3, <2>4, <2>5, <2>6, <2>7, TypeCorrect, PTL DEF Spec, Served
<1>2. QED
  BY <1>1 DEF SlotsComeBack
=============================================================================
