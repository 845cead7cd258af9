------------------------------ MODULE Emission ------------------------------
(***************************************************************************)
(* One emit on a direct bus (events/direct.py): publish middleware around  *)
(* hooks around the dispatch to the registered handlers, each of which is  *)
(* again handle middleware around hooks around the handler itself.  Emit   *)
(* and handler calls are chains of one shape, run by the same code         *)
(* (events/middleware.py, hooks.py, pipeline.py).  On a DirectBus they run *)
(* in turn; on an AsyncDirectBus a fan-out runs every handler's chain in a *)
(* task of its own, and a step is what happens between two awaits.         *)
(* Middleware, hooks and handlers are the environment: each may return,    *)
(* raise an Exception or another BaseException, and an exit may try to     *)
(* swallow.  Payloads, replies and headers are abstracted away.            *)
(***************************************************************************)
EXTENDS Integers, Sequences, FiniteSets, SequencesExt

CONSTANTS
    Handlers,
    Emitter,        \* the chain of the emit itself
    LayerCount,     \* middleware around each chain
    HookCount,      \* hooks in each slot of a chain
    MaxFailures,    \* bound: exceptions raised by the environment
    MaxCancels      \* bound: cancellations by the caller and by timeouts

Chains == Handlers \cup {Emitter}

ASSUME EmissionAssumption ==
    /\ IsFiniteSet(Handlers) /\ Emitter \notin Handlers
    /\ LayerCount \in [Chains -> Nat] /\ HookCount \in [Chains -> Nat]
    /\ MaxFailures \in Nat /\ MaxCancels \in Nat

VARIABLES
    bus,        \* "sync" or "async"
    pattern,    \* "pubsub", "request", or "other": no dispatcher
    registered, \* _handlers of the event
    targets,    \* the handlers the dispatcher was given
    chain,      \* each chain: its step, the layers entered, its error, hooks left of the slot
    exits,      \* history: of each chain, the exits it ran and the error each one saw
    task,       \* of each task: who cancels it, and whether a CancelledError is due
    failures, cancels

emissionVars == <<bus, pattern, registered, targets, chain, exits, task, failures, cancels>>
world == <<bus, pattern>>

NoError == [kind |-> "none", by |-> <<>>]
Error(kind, by) == [kind |-> kind, by |-> by]
IsException(e) == e.kind = "exception"  \* isinstance(e, Exception)
Idle == [pc |-> "idle", entered |-> <<>>, error |-> NoError, todo |-> 0]
Slots == {"success", "failure", "complete"}
Done(c) == chain[c].pc = "done"

\* A fan-out's handlers run in tasks of their own, a responder in the emitter's.
TaskOf(c) == IF pattern = "request" THEN Emitter ELSE c

Caller == <<"caller">>

Cancelled(c) ==
    Error("cancelled", IF Caller \in task[TaskOf(c)].by THEN Caller ELSE <<"timeout">>)

\* What a step of chain c that runs user code at p ends in.
Results(c, p) ==
    {NoError}
    \cup {Error(k, <<c, p>>) : k \in IF failures < MaxFailures THEN {"exception", "base"} ELSE {}}
    \cup (IF task[TaskOf(c)].due THEN {Cancelled(c)} ELSE {})

\* The step ends in e, having been handed the error `given`; a cancellation that was due has
\* been delivered to it.
Ends(c, e, given) ==
    /\ failures' = IF e \in {NoError, given} \/ e.kind = "cancelled" THEN failures
                   ELSE failures + 1
    /\ task' = [task EXCEPT ![TaskOf(c)].due = FALSE]

-----------------------------------------------------------------------------
(* Entering: run_middleware and run_middleware_async                       *)

\* One middleware: called, checked for what it returned, entered.
Enter(c) ==
    LET ch == chain[c]
        i == Len(ch.entered) + 1
    IN /\ ch.pc = "enter" /\ i <= LayerCount[c]
       /\ \E e \in Results(c, i) :
             /\ Ends(c, e, NoError)
             /\ chain' = [chain EXCEPT ![c] =
                    IF e = NoError THEN [ch EXCEPT !.entered = Append(@, i)]
                                   ELSE [ch EXCEPT !.pc = "exit", !.error = e]]
       /\ UNCHANGED <<world, registered, targets, exits, cancels>>

\* run_hooks: a before hook that raises stops the call.
Before(c) ==
    LET ch == chain[c]
    IN /\ ch.pc = "enter" /\ Len(ch.entered) = LayerCount[c]
       /\ \E e \in IF HookCount[c] = 0 THEN {NoError} ELSE Results(c, 0) :
             /\ Ends(c, e, NoError)
             /\ chain' = [chain EXCEPT ![c] =
                    IF e = NoError THEN [ch EXCEPT !.pc = "call"]
                                   ELSE [ch EXCEPT !.pc = "exit", !.error = e]]
       /\ UNCHANGED <<world, registered, targets, exits, cancels>>

-----------------------------------------------------------------------------
(* Observing: the hooks around a call that returned or raised              *)

\* The first slot that observes a call that ended in e.
Slot(e) ==
    CASE e = NoError -> "success"
      [] IsException(e) -> "failure"
      [] OTHER -> "complete"

\* The chain, its call having ended in e.
After(c, e) ==
    IF HookCount[c] = 0 THEN [chain[c] EXCEPT !.pc = "exit", !.error = e]
    ELSE [chain[c] EXCEPT !.pc = Slot(e), !.error = e, !.todo = HookCount[c]]

\* _observe and _observe_one: an Exception is logged; anything else propagates.  Whether a
\* slot's hooks run in turn or are gathered, it ends with the first that propagates or when
\* all have run; what others of a gather then still do reaches nothing here.
Logged(e) == e = NoError \/ IsException(e)

Observe(c) ==
    LET ch == chain[c]
    IN /\ ch.pc \in Slots
       /\ \E e \in Results(c, 0) :
             /\ Ends(c, e, NoError)
             /\ chain' = [chain EXCEPT ![c] =
                    IF ~Logged(e) THEN [ch EXCEPT !.pc = "exit", !.error = e, !.todo = 0]
                    ELSE IF ch.todo > 1 THEN [ch EXCEPT !.todo = @ - 1]
                    ELSE IF ch.pc = "complete"
                         THEN [ch EXCEPT !.pc = "exit", !.todo = 0]
                         ELSE [ch EXCEPT !.pc = "complete", !.todo = HookCount[c]]]
       /\ UNCHANGED <<world, registered, targets, exits, cancels>>

-----------------------------------------------------------------------------
(* Exiting: _exit and _unwind                                              *)

\* Mutated form: the first layer entered is the first one exited.
Popped_First(entered) == <<Head(entered), Tail(entered)>>

\* entered.pop(): the innermost layer, and the rest.
Popped(entered) == <<Last(entered), Front(entered)>>

\* Mutated form: a swallowed cancellation is always reported as a MiddlewareError.
RefuseSwallow_AnyCancellation(c, i, e, cancelling) ==
    IF IsException(e) \/ e.kind = "cancelled" THEN Error("exception", <<c, i>>) ELSE e

\* _refuse_swallow: what is raised in place of the error an exit tried to swallow.
RefuseSwallow(c, i, e, cancelling) ==
    IF IsException(e) \/ (e.kind = "cancelled" /\ bus = "async" /\ ~cancelling)
    THEN Error("exception", <<c, i>>)
    ELSE e

\* The exit of layer i: a timeout of its own that fired is uncancelled; it passes the error
\* on, raises one of its own, or tries to swallow.
Exit(c) ==
    LET ch == chain[c]
        t == TaskOf(c)
        i == Popped(ch.entered)[1]
        by == task[t].by \ {<<c, i>>}
        swallowed == RefuseSwallow(c, i, ch.error, by # {})
    IN /\ ch.pc = "exit" /\ ch.entered # <<>>
       /\ \E e \in (Results(c, i) \ {NoError}) \cup {ch.error, swallowed} :
             /\ failures' = IF e \in {ch.error, swallowed} \/ e.kind = "cancelled" THEN failures
                            ELSE failures + 1
             /\ chain' = [chain EXCEPT ![c] = [ch EXCEPT !.entered = Popped(@)[2], !.error = e]]
             /\ task' = [task EXCEPT ![t] = [by |-> by, due |-> FALSE]]
             /\ exits' = [exits EXCEPT ![c] =
                    Append(@, [layer |-> i, saw |-> ch.error,
                               own |-> e \notin {ch.error, swallowed}])]
       /\ UNCHANGED <<world, registered, targets, cancels>>

Exited(c) ==
    /\ chain[c].pc = "exit" /\ chain[c].entered = <<>>
    /\ chain' = [chain EXCEPT ![c].pc = "done"]
    /\ UNCHANGED <<world, registered, targets, exits, task, failures, cancels>>

-----------------------------------------------------------------------------
(* The bus                                                                 *)

\* _register and remove, in another task or in a handler, while the emit is under way: the
\* handlers there are before it are those it starts with.
Changing == chain[Emitter].pc \in {"call", "waiting"}

RegisterHandler(h) ==
    /\ Changing /\ h \notin registered
    /\ registered' = registered \cup {h}
    /\ UNCHANGED <<world, targets, chain, exits, task, failures, cancels>>

RemoveHandler(h) ==
    /\ Changing /\ h \in registered
    /\ registered' = registered \ {h}
    /\ UNCHANGED <<world, targets, chain, exits, task, failures, cancels>>

\* emit and _emit: an event without a dispatcher is refused before anything runs.
Emit ==
    /\ chain[Emitter].pc = "idle"
    /\ chain' = [chain EXCEPT ![Emitter] =
           IF pattern = "other" THEN [@ EXCEPT !.pc = "done",
                                               !.error = Error("exception", <<"TypeError">>)]
           ELSE [@ EXCEPT !.pc = "enter"]]
    /\ UNCHANGED <<world, registered, targets, exits, task, failures, cancels>>

\* A fan-out calls the handlers registered now: one after the other, or all at once.
FanOut ==
    /\ pattern = "pubsub" /\ chain[Emitter].pc = "call"
    /\ targets' = registered
    /\ chain' = [c \in Chains |->
           IF c = Emitter THEN [chain[c] EXCEPT !.pc = "waiting"]
           ELSE IF c \in registered
                THEN [chain[c] EXCEPT !.pc = IF bus = "async" THEN "enter" ELSE "queued"]
                ELSE chain[c]]
    /\ UNCHANGED <<world, registered, exits, task, failures, cancels>>

\* only_responder
Responders(handlers) == Cardinality(handlers) = 1

RequestCall ==
    /\ pattern = "request" /\ chain[Emitter].pc = "call"
    /\ IF Responders(registered)
       THEN /\ targets' = registered
            /\ chain' = [c \in Chains |->
                   IF c = Emitter THEN [chain[c] EXCEPT !.pc = "waiting"]
                   ELSE IF c \in registered THEN [chain[c] EXCEPT !.pc = "enter"] ELSE chain[c]]
       ELSE /\ chain' = [chain EXCEPT ![Emitter] =
                   After(Emitter, Error("exception", <<"Responders">>))]
            /\ UNCHANGED targets
    /\ UNCHANGED <<world, registered, exits, task, failures, cancels>>

\* The handler itself.
Handle(h) ==
    /\ chain[h].pc = "call"
    /\ \E e \in Results(h, 0) :
          /\ Ends(h, e, NoError)
          /\ chain' = [chain EXCEPT ![h] = After(h, e)]
    /\ UNCHANGED <<world, registered, targets, exits, cancels>>

Failed == {h \in targets : Done(h) /\ chain[h].error # NoError}

\* fan_out catches an Exception only.
Propagates(h) == ~IsException(chain[h].error)

\* fan_out: the next handler, in the order of the set, unless one raised past it.
FanOutNext(h) ==
    /\ chain[Emitter].pc = "waiting" /\ chain[h].pc = "queued"
    /\ \A g \in targets : Done(g) \/ chain[g].pc = "queued"
    /\ ~\E g \in Failed : Propagates(g)
    /\ chain' = [chain EXCEPT ![h].pc = "enter"]
    /\ UNCHANGED <<world, registered, targets, exits, task, failures, cancels>>

FanOutRaises(h) ==
    /\ bus = "sync" /\ pattern = "pubsub"
    /\ chain[Emitter].pc = "waiting" /\ h \in Failed /\ Propagates(h)
    /\ chain' = [chain EXCEPT ![Emitter] = After(Emitter, chain[h].error)]
    /\ UNCHANGED <<world, registered, targets, exits, task, failures, cancels>>

\* Mutated form: a failure that is no Exception is left out of the group.
GroupKind_Exceptions(handlers) == IF \E h \in handlers : IsException(chain[h].error)
                                  THEN Error("exception", <<"HandlerErrors">>) ELSE NoError

\* HandlerErrors, or BaseHandlerErrors if not every failure is an Exception.
GroupKind(handlers) ==
    IF handlers = {} THEN NoError
    ELSE IF \A h \in handlers : IsException(chain[h].error)
         THEN Error("exception", <<"HandlerErrors">>)
         ELSE Error("base", <<"BaseHandlerErrors">>)

\* Mutated form: the handlers registered meanwhile are waited for as well.
Gathered_Registered == \A h \in registered : Done(h)

\* Every handler has ended.
Gathered == \A h \in targets : Done(h)

\* The dispatcher returns, or raises its handlers' failures; a gather that was cancelled
\* raises CancelledError whatever its children returned.
Dispatched ==
    /\ chain[Emitter].pc \in {"waiting", "cancelling"} /\ Gathered
    /\ ~(bus = "sync" /\ pattern = "pubsub" /\ \E h \in Failed : Propagates(h))
    /\ chain' = [chain EXCEPT ![Emitter] = After(Emitter,
           IF chain[Emitter].pc = "cancelling" THEN Cancelled(Emitter)
           ELSE IF pattern = "pubsub" THEN GroupKind(Failed)
           ELSE chain[CHOOSE h \in targets : TRUE].error)]
    /\ UNCHANGED <<world, registered, targets, exits, task, failures, cancels>>

-----------------------------------------------------------------------------
(* Cancellation of a task, as asyncio delivers it: external                *)

CancelTask(t, by) ==
    /\ bus = "async" /\ cancels < MaxCancels
    /\ cancels' = cancels + 1
    /\ task' = [task EXCEPT ![t] = [by |-> @.by \cup {by}, due |-> TRUE]]
    /\ UNCHANGED <<world, registered, targets, chain, exits, failures>>

Cancel ==
    /\ chain[Emitter].pc \notin {"idle", "done"}
    /\ CancelTask(Emitter, Caller)

\* A layer such as asyncio.timeout cancels the task it was entered in.
TimeOut(c) ==
    \E i \in Range(chain[c].entered) :
        /\ ~Done(c) /\ <<c, i>> \notin task[TaskOf(c)].by
        /\ CancelTask(TaskOf(c), <<c, i>>)

\* A cancelled gather cancels the children that still run, and waits for them.
CancelGather ==
    /\ pattern = "pubsub" /\ chain[Emitter].pc = "waiting" /\ task[Emitter].due
    /\ chain' = [chain EXCEPT ![Emitter].pc = "cancelling"]
    /\ task' = [t \in Chains |->
           IF t = Emitter THEN [task[t] EXCEPT !.due = FALSE]
           ELSE IF t \in targets /\ ~Done(t)
                THEN [by |-> task[t].by \cup {Caller}, due |-> TRUE]
                ELSE task[t]]
    /\ UNCHANGED <<world, registered, targets, exits, failures, cancels>>

-----------------------------------------------------------------------------
EmissionInit ==
    /\ bus \in {"sync", "async"} /\ pattern \in {"pubsub", "request", "other"}
    /\ registered \in SUBSET Handlers
    /\ targets = {}
    /\ chain = [c \in Chains |-> Idle]
    /\ exits = [c \in Chains |-> <<>>]
    /\ task = [c \in Chains |-> [by |-> {}, due |-> FALSE]]
    /\ failures = 0 /\ cancels = 0

ChainStep(c) == Enter(c) \/ Before(c) \/ Observe(c) \/ Exit(c) \/ Exited(c)
HandlerStep(h) == Handle(h) \/ FanOutNext(h) \/ FanOutRaises(h)
EmitterStep == FanOut \/ RequestCall \/ Dispatched \/ CancelGather

EmissionNext ==
    \/ Emit \/ EmitterStep \/ Cancel
    \/ \E c \in Chains : ChainStep(c) \/ TimeOut(c)
    \/ \E h \in Handlers : HandlerStep(h) \/ RegisterHandler(h) \/ RemoveHandler(h)

\* Middleware, hooks and handlers return or raise; the event loop runs every task.
EmissionFairness ==
    /\ WF_emissionVars(EmitterStep)
    /\ \A c \in Chains : WF_emissionVars(ChainStep(c))
    /\ \A h \in Handlers : WF_emissionVars(HandlerStep(h))

EmissionSpec == EmissionInit /\ [][EmissionNext]_emissionVars /\ EmissionFairness

-----------------------------------------------------------------------------
(* Properties                                                              *)

\* Type correctness; bounds of what the environment does.
EmissionTypeOK ==
    /\ bus \in {"sync", "async"} /\ pattern \in {"pubsub", "request", "other"}
    /\ targets \subseteq Handlers /\ registered \subseteq Handlers
    /\ \A c \in Chains :
          /\ chain[c].pc \in {"idle", "queued", "enter", "call", "waiting", "cancelling", "exit",
                              "done"} \cup Slots
          /\ chain[c].entered \in Seq(1..LayerCount[c])
          /\ chain[c].error.kind \in {"none", "exception", "base", "cancelled"}
          /\ chain[c].todo \in 0..HookCount[c]
    /\ failures \in 0..MaxFailures /\ cancels \in 0..MaxCancels

\* Middleware is exited like nested with statements: innermost first, and once each, whatever
\* was raised on the way, on entry, in the call, by a hook or by another exit.
UnwoundInnermostFirst ==
    \A c \in Chains :
        /\ \A i, j \in DOMAIN exits[c] : i < j => exits[c][i].layer > exits[c][j].layer
        /\ Done(c) => Len(exits[c]) = (IF exits[c] = <<>> THEN 0 ELSE exits[c][1].layer)

\* What the exit after the n-th saw, or the chain ended in.
LeftBy(c, n) == IF n < Len(exits[c]) THEN exits[c][n + 1].saw ELSE chain[c].error

\* No middleware makes a failed call succeed; and a cancellation by the caller still cancels,
\* although middleware tried to swallow it, unless one raised an error of its own.
ErrorsStand ==
    \A c \in Chains : \A n \in DOMAIN exits[c] :
        LET saw == exits[c][n].saw IN
        saw # NoError =>
            /\ LeftBy(c, n) # NoError
            /\ (saw.by = Caller /\ ~exits[c][n].own) => LeftBy(c, n) = saw

\* The hooks of an emit observe what became of every handler it reached: none still runs, a
\* failed one fails the emit, and a failure that is no Exception is not reported as one.
HandlersAccounted ==
    LET e == chain[Emitter] IN
    /\ e.pc \in Slots \cup {"exit", "done"} =>
          \A h \in targets : Done(h) \/ (chain[h].pc = "queued" /\ \E g \in Failed : Propagates(g))
    /\ e.pc = "success" => Failed = {}
    /\ (e.pc = "failure" /\ targets # {}) => Failed # {} /\ \A h \in Failed : ~Propagates(h)
    /\ (pattern = "request") => Cardinality(targets) <= 1

\* The emit returns: no handler is waited for that was never started or has ended.
EmitReturns == (chain[Emitter].pc # "idle") ~> Done(Emitter)
=============================================================================
