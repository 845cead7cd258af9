----------------------------- MODULE WebRequests -----------------------------
(* HTTP requests and WebSocket connections through the ASGI integration: the  *)
(* envelope middleware opens a chain of messages around each one, a scoped    *)
(* route activates a scope for it, and checks guard its endpoint.  Requests   *)
(* served by one task follow each other in one context.                       *)
EXTENDS Checks, SequencesExt, FiniteSets

CONSTANTS Requests,        \* the requests and connections
          Configurations   \* how they are served

VARIABLES served,   \* the configuration
          pc, slot, scopeEnds, handlerEnds, error, raised, sent, \* the route
          guard,                                                 \* the checks
          chain, current, handling, ids                          \* the envelopes

route == <<slot, scopeEnds, handlerEnds, error, raised, sent>>
envelopes == <<chain, current, handling, ids>>
vars == <<served, pc, route, guard, envelopes>>

(* How a request is served: by a "route" whose endpoint the integration wraps, *)
(* a "class" endpoint that is left as it is, or a "dependency" of a FastAPI   *)
(* WebSocket route; whether a handler scope runs around the endpoint, and     *)
(* whether the framework turns some errors into responses.  The chain each    *)
(* request's header names is trusted or not; `emits` bounds its messages.     *)
IsServing(s) ==
  /\ s.kind \in {"route", "class", "dependency"}
  /\ s.handler \in BOOLEAN /\ (s.handler => s.kind = "route")
  /\ IsGuard(s.guard) /\ Decorates(s.guard)
  /\ s.trust \in BOOLEAN /\ \A r \in DOMAIN s.header :
                                  r \in Requests /\ s.header[r] \in {"none", "invalid", "caller"}
  /\ s.emits \in Nat /\ s.task \in [Requests -> Requests]
  /\ s.errors \subseteq {"http", "error", "cancel"}

ASSUME ServingAssumption == \A s \in Configurations : IsServing(s)

NoError == "none"
Served(r) == served.task[r]
Go(r, to) == pc' = [pc EXCEPT ![r] = to]

-----------------------------------------------------------------------------
(* Envelopes.  An id is a number; a request without a usable header gets a    *)
(* chain of its own, whose id is none the caller gave.                        *)

NoEnvelope == [message |-> 0, correlation |-> 0, causation |-> 0]
Caller == 1

(* e as a message of the chain, emitted by the handler of the message `by`.   *)
Message(e, by) == [message |-> e.message, correlation |-> e.correlation,
                   causation |-> e.causation, by |-> by]

Child(e) == [message |-> ids, correlation |-> e.correlation, causation |-> e.message]

(* _correlation_id *)
Correlation(r) ==
  IF served.trust /\ served.header[r] = "caller" THEN Caller ELSE ids + 1

(* A request enters the middleware; its task is not serving another one.      *)
Receive(r) ==
  /\ pc[r] = "idle" /\ r \in DOMAIN served.header
  /\ \A q \in Requests \ {r} : Served(q) = Served(r) => pc[q] \in {"idle", "done"}
  /\ LET e == [message |-> ids, correlation |-> Correlation(r), causation |-> 0] IN
     /\ chain' = [chain EXCEPT ![r] = <<Message(e, 0)>>]
     /\ handling' = [handling EXCEPT ![r] = <<[envelope |-> e, before |-> current[Served(r)]]>>]
     /\ current' = [current EXCEPT ![Served(r)] = e]
  /\ ids' = ids + 2
  /\ Go(r, "received")
  /\ UNCHANGED <<served, route, guard>>

Running(r) == pc[r] = "endpoint" /\ error[r] = NoError

(* The endpoint, or a handler it runs, emits: the message is handled inside a *)
(* child of the current envelope, or of a new one.                            *)
Emit(r) ==
  /\ Running(r) /\ Len(chain[r]) <= served.emits
  /\ LET now == current[Served(r)]
         e == IF now = NoEnvelope
              THEN [message |-> ids, correlation |-> ids + 1, causation |-> 0] ELSE Child(now) IN
     /\ chain' = [chain EXCEPT ![r] =
          Append(@, Message(e, Last(handling[r]).envelope.message))]
     /\ handling' = [handling EXCEPT ![r] = Append(@, [envelope |-> e, before |-> now])]
     /\ current' = [current EXCEPT ![Served(r)] = e]
  /\ ids' = ids + 2
  /\ UNCHANGED <<served, pc, route, guard>>

(* Envelope.scope's exit, whether or not the handler raised.                  *)
Restored_Dropped(r) ==
  \* Mutated form: the envelope is cleared, not restored.
  [current EXCEPT ![Served(r)] = NoEnvelope]
Restored(r) == [current EXCEPT ![Served(r)] = Last(handling[r]).before]

(* A message has been handled: the endpoint catches what its handler raised.  *)
Handled(r) ==
  /\ Running(r) /\ Len(handling[r]) > 1
  /\ current' = Restored(r)
  /\ handling' = [handling EXCEPT ![r] = Front(@)]
  /\ UNCHANGED <<served, pc, route, guard, chain, ids>>

-----------------------------------------------------------------------------
(* The route.  The request's activation is kept in the ASGI scope until the   *)
(* side that closes it takes it out.                                          *)

(* ScopedRoute.handle activates the scope before it enters its try block; a   *)
(* FastAPI dependency, when it is solved.                                     *)
Activate(r) ==
  /\ pc[r] = "received"
  /\ \/ /\ slot' = [slot EXCEPT ![r] = TRUE]
        /\ Go(r, "guarded")
        /\ UNCHANGED error
     \/ /\ error' = [error EXCEPT ![r] = "inactive"]
        /\ Go(r, "leaving")
        /\ UNCHANGED slot
  /\ guard' = [guard EXCEPT ![r] = Begun(served.guard)]
  /\ UNCHANGED <<served, scopeEnds, handlerEnds, raised, sent, envelopes>>

(* Starlette refuses the method before it calls the endpoint.                 *)
Refuse(r) ==
  /\ pc[r] = "guarded" /\ served.kind = "route" /\ guard[r].gave = <<>>
  /\ error' = [error EXCEPT ![r] = "http"]
  /\ Go(r, "closing")
  /\ UNCHANGED <<served, slot, scopeEnds, handlerEnds, raised, sent, guard, envelopes>>

(* A part of the guard runs.                                                  *)
Check(r) ==
  /\ pc[r] = "guarded" /\ guard[r].end = "no"
  /\ LET c == served.guard.checks[guard[r].check] IN
     \E gave \in Gives(served.guard, c, c.parts[guard[r].part]) :
        guard' = [guard EXCEPT ![r] = AfterPart(served.guard, @, gave)]
  /\ UNCHANGED <<served, pc, route, envelopes>>

(* What the guard leaves with: a check that refuses may raise what the         *)
(* framework answers (docs/tutorials/checks.md:363).                          *)
Raised(r) ==
  CASE guard[r].end = "passed" -> {NoError}
    [] guard[r].end = "failed" ->
         {"error"} \cup {e \in {"http"} : FailsItself(served.guard, guard[r])}
    [] guard[r].end = "cancelled" -> {"cancel"}

(* The guard ends; the endpoint begins if it has passed.                      *)
Guarded(r) ==
  /\ pc[r] = "guarded" /\ guard[r].end # "no"
  /\ \E e \in Raised(r) : /\ error' = [error EXCEPT ![r] = e]
                          /\ raised' = [raised EXCEPT ![r] = e]
  /\ Go(r, IF guard[r].end = "passed" THEN "endpoint" ELSE "unwinding")
  /\ UNCHANGED <<served, slot, scopeEnds, handlerEnds, sent, guard, envelopes>>

(* The endpoint returns or raises; a WebSocket's sends while it runs.         *)
Endpoint(r) ==
  /\ Running(r) /\ Len(handling[r]) = 1
  /\ \E e \in {NoError} \cup served.errors : error' = [error EXCEPT ![r] = e]
  /\ raised' = [raised EXCEPT ![r] = error'[r]]
  /\ Go(r, "unwinding")
  /\ UNCHANGED <<served, slot, scopeEnds, handlerEnds, sent, guard, envelopes>>

(* Closing a scope may itself raise, in place of the error it was closed with, *)
(* and also what the framework answers.                                       *)
After(e) == {e, "cleanup", "http"}

(* _close_activation: the activation is taken out, then closed with the error. *)
Closes_Kept(r, e) ==
  \* Mutated form: the activation is read from the ASGI scope, not taken out.
  IF slot[r]
  THEN /\ UNCHANGED slot
       /\ scopeEnds' = [scopeEnds EXCEPT ![r] = Append(@, [error |-> e, at |-> sent[r]])]
       /\ \E x \in After(e) : error' = [error EXCEPT ![r] = x]
  ELSE /\ error' = [error EXCEPT ![r] = e]
       /\ UNCHANGED <<slot, scopeEnds>>
Closes(r, e) ==
  IF slot[r]
  THEN /\ slot' = [slot EXCEPT ![r] = FALSE]
       /\ scopeEnds' = [scopeEnds EXCEPT ![r] = Append(@, [error |-> e, at |-> sent[r]])]
       /\ \E x \in After(e) : error' = [error EXCEPT ![r] = x]
  ELSE /\ error' = [error EXCEPT ![r] = e]
       /\ UNCHANGED <<slot, scopeEnds>>

(* What surrounds the endpoint: the handler scope ends with its error (and is *)
(* left with that one, or with what ending the scope raised), or the request's *)
(* activation is closed with it before the framework handles it.              *)
Unwind(r) ==
  /\ pc[r] = "unwinding"
  /\ \/ /\ served.handler
        /\ \E x \in After(error[r]) :
              /\ error' = [error EXCEPT ![r] = x]
              /\ handlerEnds' = [handlerEnds EXCEPT ![r] =
                   Append(@, [error |-> error[r], at |-> sent[r], left |-> x])]
        /\ UNCHANGED <<slot, scopeEnds>>
     \/ /\ ~served.handler /\ served.kind # "class"
        /\ error[r] # NoError \/ served.kind = "dependency"
        /\ Closes(r, error[r])
        /\ UNCHANGED handlerEnds
     \/ /\ ~served.handler /\ (served.kind = "class" \/ error[r] = NoError)
        /\ served.kind # "dependency"
        /\ UNCHANGED <<slot, scopeEnds, error, handlerEnds>>
  /\ Go(r, "handling")
  /\ UNCHANGED <<served, raised, sent, guard, envelopes>>

(* The framework answers the errors it has a handler for, but not those of a  *)
(* class endpoint, and lets the others through.  A connection has no response. *)
Handle(r) ==
  /\ pc[r] = "handling"
  /\ LET e == IF error[r] = "http" /\ served.kind # "class" THEN NoError ELSE error[r] IN
     /\ error' = [error EXCEPT ![r] = e]
     /\ Go(r, IF e = NoError /\ served.kind = "route" THEN "sending" ELSE "closing")
  /\ UNCHANGED <<served, slot, scopeEnds, handlerEnds, raised, sent, guard, envelopes>>

(* The response is sent, with what it streams and the background task after   *)
(* it; the client may leave, or the stream or the task fail.                  *)
Sent == 2
Send(r) ==
  /\ pc[r] = "sending"
  /\ \/ sent[r] < Sent /\ sent' = [sent EXCEPT ![r] = @ + 1] /\ UNCHANGED <<pc, error>>
     \/ sent[r] = Sent /\ Go(r, "closing") /\ UNCHANGED <<sent, error>>
     \/ error' = [error EXCEPT ![r] = "send"] /\ Go(r, "closing") /\ UNCHANGED sent
  /\ UNCHANGED <<served, slot, scopeEnds, handlerEnds, raised, guard, envelopes>>

(* The end of ScopedRoute.handle: an activation nobody closed is closed with  *)
(* what super().handle raised, or as ended cleanly.                           *)
Close(r) ==
  /\ pc[r] = "closing"
  /\ Closes(r, error[r])
  /\ Go(r, "leaving")
  /\ UNCHANGED <<served, handlerEnds, raised, sent, guard, envelopes>>

(* The middleware leaves the request's envelope.                              *)
Leave(r) ==
  /\ pc[r] = "leaving"
  /\ current' = Restored(r)
  /\ handling' = [handling EXCEPT ![r] = Front(@)]
  /\ Go(r, "done")
  /\ UNCHANGED <<served, route, guard, chain, ids>>

-----------------------------------------------------------------------------
Init ==
  /\ served \in Configurations
  /\ pc = [r \in Requests |-> "idle"]
  /\ slot = [r \in Requests |-> FALSE]
  /\ scopeEnds = [r \in Requests |-> <<>>]
  /\ handlerEnds = [r \in Requests |-> <<>>]
  /\ error = [r \in Requests |-> NoError]
  /\ raised = [r \in Requests |-> NoError]
  /\ sent = [r \in Requests |-> 0]
  /\ guard = [r \in Requests |-> NotStarted]
  /\ chain = [r \in Requests |-> <<>>]
  /\ current = [t \in Requests |-> NoEnvelope]
  /\ handling = [r \in Requests |-> <<>>]
  /\ ids = 1

Step(r) ==
  \/ Receive(r) \/ Emit(r) \/ Handled(r)
  \/ Activate(r) \/ Refuse(r) \/ Check(r) \/ Guarded(r) \/ Endpoint(r) \/ Unwind(r)
  \/ Handle(r) \/ Send(r) \/ Close(r) \/ Leave(r)

Next == \E r \in Requests : Step(r)

Spec == Init /\ [][Next]_vars

-----------------------------------------------------------------------------
(* Properties.                                                               *)

(* What the framework does not answer.                                        *)
Unanswered(e) == e \notin {NoError, "http"}

(* A request's scope ends once, unless it never began.  Without a handler     *)
(* scope it ends with what the endpoint or its checks raised, also when the   *)
(* framework answers that; with one, with what left the handler scope, unless *)
(* the framework answered that.  A route's scope ends cleanly only after the  *)
(* response is fully sent.  A handler scope ends once too, with what the      *)
(* endpoint or its checks raised, before anything of the response is sent;    *)
(* and no response is sent once that failed, but for the framework's answer   *)
(* (starlette.py:239-245, 285-389, fastapi.py:215-300).                       *)
ScopesEndWithCause ==
  \A r \in Requests :
    LET ends == scopeEnds[r]  handled == handlerEnds[r] IN
    /\ Len(ends) <= 1 /\ Len(handled) <= 1
    /\ pc[r] = "done" => (Len(ends) = 1 <=> error[r] # "inactive")
    /\ \A i \in DOMAIN ends :
         /\ ~served.handler /\ raised[r] # NoError => ends[i].error = raised[r]
         /\ \A j \in DOMAIN handled :
              Unanswered(handled[j].left) => ends[i].error = handled[j].left
         /\ served.kind = "route" /\ ends[i].error = NoError => ends[i].at = Sent
    /\ sent[r] > 0 /\ served.handler => handled # <<>>
    /\ \A j \in DOMAIN handled :
         /\ handled[j].error = raised[r] /\ handled[j].at = 0
         /\ Unanswered(handled[j].left) => sent[r] = 0

(* An endpoint runs only if its checks let it, and a refusal has a failed     *)
(* check to show for it, however the checks are grouped and whichever of them *)
(* are awaited (checks.py:99-156, 210-267).                                  *)
ChecksGuard ==
  \A r \in Requests :
    /\ GuardSound(served.guard, guard[r])
    /\ chain[r] # <<>> /\ Len(chain[r]) > 1 => guard[r].end = "passed"

(* Every message is in the chain of the request it was emitted for and is     *)
(* caused by the message that was being handled; two requests share a chain   *)
(* only when both name it and are trusted, also when one task serves both     *)
(* (envelope.py:92-101, 139-159, asgi.py:158-175).                             *)
ChainsFollowCauses ==
  \A r \in Requests :
    /\ \A i \in DOMAIN chain[r] :
         /\ chain[r][i].correlation = chain[r][1].correlation
         /\ chain[r][i].causation = chain[r][i].by
    /\ \A q \in Requests \ {r} :
         chain[r] # <<>> /\ chain[q] # <<>> /\ chain[r][1].correlation = chain[q][1].correlation
           => served.trust /\ served.header[r] = "caller" /\ served.header[q] = "caller"
=============================================================================
