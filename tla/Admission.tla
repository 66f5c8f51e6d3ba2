----------------------------- MODULE Admission -----------------------------
(***************************************************************************)
(* The HTTP front of the server (server.py): AdmitRequests admits or       *)
(* refuses each POST /mcp around RequestBodyLimitMiddleware, which reads   *)
(* the body for it (MCP SDK, external), and hands what is left to the SDK. *)
(*                                                                         *)
(* Requests are the connections of the server.  HTTP/1.1 connections carry *)
(* one request at a time, so a connection is "idle" between two requests.  *)
(* pc[r] is the await at which the coroutine of r's request is suspended;  *)
(* everything the code does between two awaits is one action.  The client  *)
(* is the other actor: it sends its body, or stops sending, or leaves.     *)
(***************************************************************************)
EXTENDS Integers, FiniteSets

CONSTANTS Requests,          \* connections
          MAX_REQUESTS,      \* requests handled at a time
          MAX_LARGE_BODIES   \* large bodies read or handled at a time

ASSUME RequestsAssumption == IsFiniteSet(Requests)
ASSUME LimitsAssumption == MAX_REQUESTS \in Nat /\ MAX_LARGE_BODIES \in Nat

VARIABLES
  pc,            \* where each request is suspended
  shape,         \* what the headers say of the body, and its real size
  upload,        \* how much of the body has reached the server
  left,          \* whether the client has gone
  verdict,       \* what _too_complex and _refusal_on_reading make of the body
  answer,        \* status of the answer decided for the request, "none" before
  active,        \* AdmitRequests.active
  active_large   \* AdmitRequests.active_large

vars == <<pc, shape, upload, left, verdict, answer, active, active_large>>
client == <<shape, upload, left>>

-----------------------------------------------------------------------------
(* Data *)

\* "small": Content-Length of at most LARGE_BODY_BYTES.  "unsized": no
\* Content-Length, or a Transfer-Encoding; any size up to the limit.  "large":
\* above LARGE_BODY_BYTES.  "oversized": above MAX_REQUEST_BODY_BYTES.
Shapes == {"small", "unsized", "large", "oversized"}

MayBeLarge(s) == s # "small"

\* "too_complex" for _too_complex, "unreadable" for _refusal_on_reading.
Verdicts == {"fine", "too_complex", "unreadable"}

PCs == {"idle", "passing", "draining", "reading", "refusing", "refusing_read",
        "handling"}

\* Inside `await self.read_body(...)`: the large slot is held.
ReadingBody == {"reading", "refusing", "refusing_read", "handling"}
\* Inside the try block of `admit`: the request slot is held.
Admitted == {"refusing_read", "handling"}

TypeOK ==
  /\ pc \in [Requests -> PCs]
  /\ shape \in [Requests -> Shapes]
  /\ upload \in [Requests -> {"coming", "past_limit", "ended"}]
  /\ left \in [Requests -> BOOLEAN]
  /\ verdict \in [Requests -> Verdicts \cup {"unread"}]
  /\ answer \in [Requests -> {"none", "200", "400", "405", "413", "500", "503"}]
  /\ active \in Nat
  /\ active_large \in Nat

Init ==
  /\ pc = [r \in Requests |-> "idle"]
  /\ shape = [r \in Requests |-> "small"]
  /\ upload = [r \in Requests |-> "ended"]
  /\ left = [r \in Requests |-> FALSE]
  /\ verdict = [r \in Requests |-> "unread"]
  /\ answer = [r \in Requests |-> "none"]
  /\ active = 0
  /\ active_large = 0

-----------------------------------------------------------------------------
(* __call__ up to its first await *)

\* The headers of a POST /mcp are in; its body is on its way.
Arrives(r, s, where) ==
  /\ pc[r] = "idle"
  /\ pc' = [pc EXCEPT ![r] = where]
  /\ shape' = [shape EXCEPT ![r] = s]
  /\ upload' = [upload EXCEPT ![r] = "coming"]
  /\ left' = [left EXCEPT ![r] = FALSE]
  /\ verdict' = [verdict EXCEPT ![r] = "unread"]
  /\ answer' = [answer EXCEPT ![r] = "none"]

\* Too many large bodies: this one is refused, but read first.
Drain(r, s) ==
  /\ MayBeLarge(s) /\ active_large >= MAX_LARGE_BODIES
  /\ Arrives(r, s, "draining")
  /\ UNCHANGED <<active, active_large>>

\* Mutant: the limit is compared with `>`.
BeginReadingOneTooMany(r, s) ==
  /\ ~(MayBeLarge(s) /\ active_large > MAX_LARGE_BODIES)
  /\ Arrives(r, s, "reading")
  /\ active_large' = active_large + IF MayBeLarge(s) THEN 1 ELSE 0
  /\ UNCHANGED active

\* The body is read under the large slot if it may be large.
BeginReading(r, s) ==
  /\ ~(MayBeLarge(s) /\ active_large >= MAX_LARGE_BODIES)
  /\ Arrives(r, s, "reading")
  /\ active_large' = active_large + IF MayBeLarge(s) THEN 1 ELSE 0
  /\ UNCHANGED active

\* Any other request (GET and DELETE /mcp, /healthz) takes no slot.
PassThrough(r) ==
  /\ pc[r] = "idle"
  /\ pc' = [pc EXCEPT ![r] = "passing"]
  /\ answer' = [answer EXCEPT ![r] = "none"]
  /\ UNCHANGED <<client, verdict, active, active_large>>

-----------------------------------------------------------------------------
(* The client *)

UploadEnds(r) ==
  /\ pc[r] \in {"draining", "reading"} /\ ~left[r]
  /\ upload[r] = IF shape[r] = "oversized" THEN "past_limit" ELSE "coming"
  /\ upload' = [upload EXCEPT ![r] = "ended"]
  /\ UNCHANGED <<pc, shape, left, verdict, answer, active, active_large>>

UploadPassesLimit(r) ==
  /\ pc[r] \in {"draining", "reading"} /\ ~left[r]
  /\ shape[r] = "oversized" /\ upload[r] = "coming"
  /\ upload' = [upload EXCEPT ![r] = "past_limit"]
  /\ UNCHANGED <<pc, shape, left, verdict, answer, active, active_large>>

\* Mutant: the request slot is given back as soon as the client is gone.
LeaveFreesSlot(r) ==
  /\ pc[r] \notin {"idle", "passing"} /\ ~left[r]
  /\ left' = [left EXCEPT ![r] = TRUE]
  /\ active' = IF pc[r] = "handling" THEN active - 1 ELSE active
  /\ UNCHANGED <<pc, shape, upload, verdict, answer, active_large>>

\* Nothing in the server is cancelled: only a pending or later receive() sees it.
Leave(r) ==
  /\ pc[r] \notin {"idle", "passing"} /\ ~left[r]
  /\ left' = [left EXCEPT ![r] = TRUE]
  /\ UNCHANGED <<pc, shape, upload, verdict, answer, active, active_large>>

-----------------------------------------------------------------------------
(* The steps of the server *)

\* The request is over: forget what only it used.
Forget(r) ==
  /\ shape' = [shape EXCEPT ![r] = "small"]
  /\ upload' = [upload EXCEPT ![r] = "ended"]
  /\ left' = [left EXCEPT ![r] = FALSE]
  /\ verdict' = [verdict EXCEPT ![r] = "unread"]

\* The `finally` of __call__.
ReleaseLarge(r) ==
  active_large' = active_large - IF MayBeLarge(shape[r]) THEN 1 ELSE 0

\* GET and DELETE /mcp get 405 from RefuseStreams, other paths their own answer.
PassEnds(r) ==
  /\ pc[r] = "passing"
  /\ pc' = [pc EXCEPT ![r] = "idle"]
  /\ \E a \in {"405", "200"} : answer' = [answer EXCEPT ![r] = a]
  /\ UNCHANGED <<client, verdict, active, active_large>>

\* Mutant: _read_and_drop looks only at the end and the size of the body.
DrainEndsUnlessLeft(r) ==
  /\ pc[r] = "draining"
  /\ upload[r] \in {"ended", "past_limit"}
  /\ pc' = [pc EXCEPT ![r] = "idle"]
  /\ answer' = [answer EXCEPT ![r] = "503"]
  /\ Forget(r)
  /\ UNCHANGED <<active, active_large>>

\* _read_and_drop returns (body ended, client left, 1 MiB read), then _busy.
DrainEnds(r) ==
  /\ pc[r] = "draining"
  /\ upload[r] \in {"ended", "past_limit"} \/ left[r]
  /\ pc' = [pc EXCEPT ![r] = "idle"]
  /\ answer' = [answer EXCEPT ![r] = "503"]
  /\ Forget(r)
  /\ UNCHANGED <<active, active_large>>

\* RequestBodyLimitMiddleware refuses by Content-Length or by the bytes counted.
TooLarge(r) ==
  /\ pc[r] = "reading" /\ shape[r] = "oversized"
  /\ pc' = [pc EXCEPT ![r] = "refusing"]
  /\ answer' = [answer EXCEPT ![r] = "413"]
  /\ UNCHANGED <<client, verdict, active, active_large>>

\* Mutant: the early return of `admit` runs through the `finally` of the slot.
AbandonedFreesSlot(r) ==
  /\ pc[r] = "reading" /\ left[r]
  /\ pc' = [pc EXCEPT ![r] = "idle"]
  /\ active' = active - 1
  /\ ReleaseLarge(r)
  /\ Forget(r)
  /\ UNCHANGED answer

\* The client left before the body ended: `admit` returns without an answer.
Abandoned(r) ==
  /\ pc[r] = "reading" /\ left[r]
  /\ pc' = [pc EXCEPT ![r] = "idle"]
  /\ ReleaseLarge(r)
  /\ Forget(r)
  /\ UNCHANGED <<answer, active>>

\* Mutant: a disconnect passes for the end of the body.
BodyReadOrCut(r) ==
  pc[r] = "reading" /\ shape[r] # "oversized" /\ (upload[r] = "ended" \/ left[r])

\* `admit` has the whole body.
BodyRead(r) == pc[r] = "reading" /\ shape[r] # "oversized" /\ upload[r] = "ended"

RefuseComplex(r) ==
  /\ BodyRead(r)
  /\ verdict' = [verdict EXCEPT ![r] = "too_complex"]
  /\ pc' = [pc EXCEPT ![r] = "refusing"]
  /\ answer' = [answer EXCEPT ![r] = "400"]
  /\ UNCHANGED <<client, active, active_large>>

\* Mutant: large bodies count twice against MAX_REQUESTS.
RefuseBusyByBoth(r) ==
  /\ BodyRead(r)
  /\ active + active_large >= MAX_REQUESTS
  /\ \E v \in Verdicts \ {"too_complex"} : verdict' = [verdict EXCEPT ![r] = v]
  /\ pc' = [pc EXCEPT ![r] = "refusing"]
  /\ answer' = [answer EXCEPT ![r] = "503"]
  /\ UNCHANGED <<client, active, active_large>>

RefuseBusy(r) ==
  /\ BodyRead(r)
  /\ active >= MAX_REQUESTS
  /\ \E v \in Verdicts \ {"too_complex"} : verdict' = [verdict EXCEPT ![r] = v]
  /\ pc' = [pc EXCEPT ![r] = "refusing"]
  /\ answer' = [answer EXCEPT ![r] = "503"]
  /\ UNCHANGED <<client, active, active_large>>

\* _refusal_on_reading runs under the request slot.
RefuseUnreadable(r) ==
  /\ BodyRead(r)
  /\ active < MAX_REQUESTS
  /\ verdict' = [verdict EXCEPT ![r] = "unreadable"]
  /\ active' = active + 1
  /\ pc' = [pc EXCEPT ![r] = "refusing_read"]
  /\ answer' = [answer EXCEPT ![r] = "400"]
  /\ UNCHANGED <<client, active_large>>

Handle(r) ==
  /\ BodyRead(r)
  /\ active < MAX_REQUESTS
  /\ verdict' = [verdict EXCEPT ![r] = "fine"]
  /\ active' = active + 1
  /\ pc' = [pc EXCEPT ![r] = "handling"]
  /\ UNCHANGED <<client, answer, active_large>>

\* The refusal is out: `admit` returns, and __call__ after it.
RefusalSent(r) ==
  /\ pc[r] = "refusing"
  /\ pc' = [pc EXCEPT ![r] = "idle"]
  /\ ReleaseLarge(r)
  /\ Forget(r)
  /\ UNCHANGED <<answer, active>>

ReadRefusalSent(r) ==
  /\ pc[r] = "refusing_read"
  /\ pc' = [pc EXCEPT ![r] = "idle"]
  /\ active' = active - 1
  /\ ReleaseLarge(r)
  /\ Forget(r)
  /\ UNCHANGED answer

\* Mutant: `active -= 1` after the await instead of in a `finally`.
HandlerEndsNoFinally(r) ==
  /\ pc[r] = "handling"
  /\ pc' = [pc EXCEPT ![r] = "idle"]
  /\ \E a \in {"200", "500"} :
       /\ answer' = [answer EXCEPT ![r] = a]
       /\ active' = IF a = "200" THEN active - 1 ELSE active
  /\ ReleaseLarge(r)
  /\ Forget(r)

\* The SDK answers, or raises: Starlette's outermost layer then answers 500.
\* Both `finally` blocks run either way.
HandlerEnds(r) ==
  /\ pc[r] = "handling"
  /\ pc' = [pc EXCEPT ![r] = "idle"]
  /\ \E a \in {"200", "500"} : answer' = [answer EXCEPT ![r] = a]
  /\ active' = active - 1
  /\ ReleaseLarge(r)
  /\ Forget(r)

Receive(r) == PassThrough(r) \/ \E s \in Shapes : Drain(r, s) \/ BeginReading(r, s)

ClientStep(r) == UploadEnds(r) \/ UploadPassesLimit(r) \/ Leave(r)

Serve(r) ==
  \/ PassEnds(r) \/ DrainEnds(r) \/ TooLarge(r) \/ Abandoned(r)
  \/ RefuseComplex(r) \/ RefuseBusy(r) \/ RefuseUnreadable(r) \/ Handle(r)
  \/ RefusalSent(r) \/ ReadRefusalSent(r) \/ HandlerEnds(r)

Next == \E r \in Requests : Receive(r) \/ ClientStep(r) \/ Serve(r)

Spec == Init /\ [][Next]_vars

\* The event loop runs every coroutine that can go on, and a handler ends (each
\* call to the Meshive API has a timeout).  Nothing is assumed of the clients.
FairSpec == Spec /\ \A r \in Requests : WF_vars(Serve(r))

-----------------------------------------------------------------------------
(* Properties *)

RequestHolders == {r \in Requests : pc[r] \in Admitted}
LargeHolders == {r \in Requests : pc[r] \in ReadingBody /\ MayBeLarge(shape[r])}

\* The counters agree with the requests that are between an increment and its
\* `finally`, whichever of the refusals, the disconnects or a failing handler
\* ended the others: no slot leaks and none is given back twice.
SlotsMatch ==
  /\ active = Cardinality(RequestHolders)
  /\ active_large = Cardinality(LargeHolders)

\* "it keeps going after a client disconnects, so a proxy that counts open requests can't
\* bound the work" (AdmitRequests): however clients come and go, at most MAX_REQUESTS
\* handlers run, and at most MAX_LARGE_BODIES bodies that are not known to be small are kept
\* in memory, from the first byte to the end of the handler.
WorkBounded ==
  /\ Cardinality({r \in Requests : pc[r] = "handling"}) <= MAX_REQUESTS
  /\ Cardinality({r \in Requests :
                    /\ pc[r] \in {"reading", "refusing", "refusing_read", "handling"}
                    /\ shape[r] \in {"unsized", "large", "oversized"}}) <= MAX_LARGE_BODIES

\* Only a body that was read to its end, that is not too complex and that the
\* strict parser read reaches the SDK ("nothing pydantic_core.from_json refuses
\* may reach the SDK").
OnlyVettedHandled ==
  \A r \in Requests : pc[r] = "handling" =>
    verdict[r] = "fine" /\ upload[r] = "ended" /\ shape[r] # "oversized"

\* Large bodies never take service from small ones: a small request is told
\* that the server is busy only in a state where MAX_REQUESTS are being handled,
\* however many large uploads stall.
SmallRefusedOnlyWhenFull ==
  [][\A r \in Requests :
       (shape[r] = "small" /\ answer[r] = "none" /\ answer'[r] = "503")
         => active = MAX_REQUESTS]_vars

\* Whatever was decided for it, a request whose body has ended, or whose client
\* has left, gives back what it holds; only a client that neither sends nor
\* leaves keeps a connection (and a large slot) for longer.
SlotsComeBack ==
  \A r \in Requests :
    (pc[r] # "idle" /\ (upload[r] = "ended" \/ left[r])) ~> pc[r] = "idle"

\* Each counter implements a pool of slots.
RequestPool == INSTANCE SlotPool WITH Clients <- Requests, Limit <- MAX_REQUESTS,
                                      holders <- RequestHolders
LargePool == INSTANCE SlotPool WITH Clients <- Requests, Limit <- MAX_LARGE_BODIES,
                                    holders <- LargeHolders

\* AdmitRequests.active is a pool of MAX_REQUESTS slots held by the admitted
\* requests, and active_large one of MAX_LARGE_BODIES slots held by those whose
\* body may be large: no other coroutine runs between a check and its increment.
SlotsArePools == RequestPool!Spec /\ LargePool!Spec
=============================================================================
