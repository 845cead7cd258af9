---------------------------- MODULE EmissionProofs ----------------------------
(***************************************************************************)
(* Proofs about Emission, for any number of handlers, of middleware and    *)
(* hooks around each chain, and of failures and cancellations.  Every      *)
(* action but an exit and the two dispatches moves one chain on before its *)
(* first exit (Advances); the invariants are proved of that form once.     *)
(***************************************************************************)
EXTENDS Emission, TLAPS, SequenceTheorems, FiniteSetTheorems

PCs == {"idle", "queued", "enter", "call", "waiting", "cancelling", "exit", "done"} \cup Slots

Bys == {<<>>, Caller, <<"timeout">>, <<"TypeError">>, <<"HandlerErrors">>,
        <<"BaseHandlerErrors">>, <<"Responders">>} \cup {<<c, i>> : c \in Chains, i \in Nat}

Kinds == {"none", "exception", "base", "cancelled"}
Errors == [kind : Kinds, by : Bys]
Chain == [pc : PCs, entered : Seq(Nat), error : Errors, todo : Int]
ExitRecord == [layer : Nat, saw : Errors, own : BOOLEAN]
Task == [by : SUBSET Bys, due : BOOLEAN]

Typed ==
    /\ chain \in [Chains -> Chain]
    /\ exits \in [Chains -> Seq(ExitRecord)]
    /\ task \in [Chains -> Task]
    /\ targets \subseteq Handlers /\ registered \subseteq Handlers
    /\ bus \in {"sync", "async"} /\ pattern \in {"pubsub", "request", "other"}

-----------------------------------------------------------------------------
(* Errors and records                                                      *)

LEMMA ErrorIsTyped ==
    ASSUME NEW k \in Kinds, NEW b \in Bys
    PROVE  Error(k, b) \in Errors /\ Error(k, b).kind = k /\ Error(k, b).by = b
BY DEF Error, Errors

LEMMA NoErrorIsTyped == NoError \in Errors /\ NoError.kind = "none" /\ NoError.by = <<>>
BY DEF NoError, Errors, Kinds, Bys

\* Only a cancellation by the caller bears its name.
LEMMA CallersName ==
    /\ Caller # <<>> /\ Caller # <<"timeout">> /\ Caller # <<"TypeError">>
    /\ Caller # <<"HandlerErrors">> /\ Caller # <<"BaseHandlerErrors">> /\ Caller # <<"Responders">>
    /\ \A c, i : Caller # <<c, i>>
<1>1. Len(Caller) = 1 /\ Caller[1] = "caller"
  BY DEF Caller
<1>2. \A c, i : Len(<<c, i>>) = 2
  OBVIOUS
<1> QED
  BY <1>1, <1>2

\* A step of the chain c that runs user code ends in no error or in one of its own.
LEMMA ResultsTyped ==
    ASSUME Typed, NEW c \in Chains, NEW i \in Nat, NEW e \in Results(c, i)
    PROVE  /\ e \in Errors
           /\ e.by = Caller => e.kind = "cancelled" /\ Caller \in task[TaskOf(c)].by /\ task[TaskOf(c)].due
           /\ e # NoError => e.kind # "none"
<1>1. CASE e = NoError
  BY <1>1, NoErrorIsTyped, CallersName
<1>2. ASSUME NEW k \in {"exception", "base"}, e = Error(k, <<c, i>>)
      PROVE  e \in Errors /\ e.by # Caller /\ e.kind # "none"
  <2>1. k \in Kinds /\ <<c, i>> \in Bys
    BY DEF Kinds, Bys
  <2> QED
    BY <1>2, <2>1, ErrorIsTyped, CallersName
<1>3. CASE e = Cancelled(c) /\ task[TaskOf(c)].due
  <2>1. Caller \in Bys /\ <<"timeout">> \in Bys /\ "cancelled" \in Kinds
    BY DEF Kinds, Bys
  <2> QED
    BY <1>3, <2>1, ErrorIsTyped, CallersName DEF Cancelled
<1> QED
  BY <1>1, <1>2, <1>3 DEF Results

-----------------------------------------------------------------------------
(* One chain moves on                                                      *)

\* What is due to a task, or was asked of it by the caller, was asked on an async bus.
TaskOK == \A t \in Chains : task[t].due \/ Caller \in task[t].by => bus = "async"

\* An error that bears the caller's name is the cancellation the caller asked for.
OwnError(c, e) == e.by = Caller => e.kind = "cancelled" /\ Caller \in task[TaskOf(c)].by

\* Nobody forgets that the caller cancelled a task.
Keeps == \A t \in Chains : Caller \in task[t].by => Caller \in task'[t].by

\* What every such step does besides.
Calm ==
    /\ task' \in [Chains -> Task] /\ TaskOK' /\ Keeps
    /\ registered' \subseteq Handlers /\ UNCHANGED <<world, targets, exits>>

\* The chain c moves on; the exits and the other chains stay.
Advances(c) ==
    /\ \A d \in Chains \ {c} : chain'[d] = chain[d]
    /\ \/ chain'[c].entered = chain[c].entered
       \/ chain'[c].entered = Append(chain[c].entered, Len(chain[c].entered) + 1)
    /\ chain'[c].error = chain[c].error \/ OwnError(c, chain'[c].error)
    /\ Typed' /\ Calm

LEMMA TaskOfTyped == Typed => \A c \in Chains : TaskOf(c) \in Chains
BY DEF TaskOf, Chains

LEMMA EndsEffect ==
    ASSUME Typed, TaskOK, NEW c \in Chains, NEW e, NEW given, Ends(c, e, given), UNCHANGED world
    PROVE  task' \in [Chains -> Task] /\ TaskOK' /\ Keeps
<1>1. TaskOf(c) \in Chains
  BY TaskOfTyped
<1>2. task' = [task EXCEPT ![TaskOf(c)].due = FALSE]
  BY DEF Ends
<1>3. ASSUME NEW t \in Chains
      PROVE  task'[t].by = task[t].by /\ (task'[t].due => task[t].due)
  BY <1>1, <1>2 DEF Typed, Task
<1>4. task' \in [Chains -> Task]
  BY <1>1, <1>2 DEF Typed, Task
<1> QED
  BY <1>3, <1>4 DEF TaskOK, Keeps, world

LEMMA CalmBy ==
    ASSUME Typed, TaskOK, NEW c \in Chains, NEW e, NEW given, Ends(c, e, given),
           UNCHANGED <<world, registered, targets, exits>>
    PROVE  Calm
BY EndsEffect DEF Calm, Typed

\* The common form of the steps that set c's record.
LEMMA AdvancesBy ==
    ASSUME Typed, NEW c \in Chains, NEW r \in Chain, chain' = [chain EXCEPT ![c] = r],
           r.entered \in {chain[c].entered, Append(chain[c].entered, Len(chain[c].entered) + 1)},
           r.error = chain[c].error \/ OwnError(c, r.error), Calm
    PROVE  Advances(c) /\ chain'[c] = r
<1>1. chain'[c] = r /\ \A d \in Chains \ {c} : chain'[d] = chain[d]
  BY DEF Typed
<1>2. Typed'
  BY DEF Typed, world, Calm
<1> QED
  BY <1>1, <1>2 DEF Advances

LEMMA EnterEffect ==
    ASSUME Typed, TaskOK, NEW c \in Chains, Enter(c)
    PROVE  Advances(c) /\ chain'[c].pc \in {"enter", "exit"}
<1> DEFINE ch == chain[c]
           i == Len(ch.entered) + 1
<1>0. ch.pc = "enter" /\ UNCHANGED <<world, registered, targets, exits>>
  BY DEF Enter
<1>1. ch \in Chain /\ ch.entered \in Seq(Nat) /\ i \in Nat
  BY DEF Typed, Chain
<1>2. PICK e \in Results(c, i) :
         /\ Ends(c, e, NoError)
         /\ chain' = [chain EXCEPT ![c] =
                IF e = NoError THEN [ch EXCEPT !.entered = Append(@, i)]
                               ELSE [ch EXCEPT !.pc = "exit", !.error = e]]
  BY DEF Enter
<1>3. Calm
  BY <1>0, <1>2, CalmBy
<1>4. e \in Errors /\ OwnError(c, e)
  BY <1>1, <1>2, ResultsTyped DEF OwnError
<1>5. CASE e = NoError
  <2>1. PICK r : r = [ch EXCEPT !.entered = Append(ch.entered, i)]
    OBVIOUS
  <2>2. Append(ch.entered, i) \in Seq(Nat)
    BY <1>1
  <2>3. r \in Chain /\ r.pc = "enter" /\ r.error = ch.error /\ r.entered = Append(ch.entered, i)
    BY <1>0, <1>1, <2>1, <2>2 DEF Chain
  <2>4. chain' = [chain EXCEPT ![c] = r]
    BY <1>2, <1>5, <2>1
  <2> QED
    BY <1>3, <2>3, <2>4, AdvancesBy
<1>6. CASE e # NoError
  <2>1. PICK r : r = [ch EXCEPT !.pc = "exit", !.error = e]
    OBVIOUS
  <2>2. r \in Chain /\ r.pc = "exit" /\ r.error = e /\ r.entered = ch.entered
    BY <1>1, <1>4, <2>1 DEF Chain, PCs
  <2>3. chain' = [chain EXCEPT ![c] = r]
    BY <1>2, <1>6, <2>1
  <2> QED
    BY <1>3, <1>4, <2>2, <2>3, AdvancesBy
<1> QED
  BY <1>5, <1>6

LEMMA BeforeEffect ==
    ASSUME Typed, TaskOK, NEW c \in Chains, Before(c)
    PROVE  Advances(c) /\ chain'[c].pc \in {"call", "exit"}
<1> DEFINE ch == chain[c]
<1>0. ch.pc = "enter" /\ UNCHANGED <<world, registered, targets, exits>>
  BY DEF Before
<1>1. ch \in Chain
  BY DEF Typed
<1>2. PICK e : /\ e = NoError \/ e \in Results(c, 0)
               /\ Ends(c, e, NoError)
               /\ chain' = [chain EXCEPT ![c] =
                      IF e = NoError THEN [ch EXCEPT !.pc = "call"]
                                     ELSE [ch EXCEPT !.pc = "exit", !.error = e]]
  BY DEF Before
<1>3. Calm
  BY <1>0, <1>2, CalmBy
<1>4. CASE e = NoError
  <2>1. PICK r : r = [ch EXCEPT !.pc = "call"]
    OBVIOUS
  <2>2. r \in Chain /\ r.pc = "call" /\ r.error = ch.error /\ r.entered = ch.entered
    BY <1>1, <2>1 DEF Chain, PCs
  <2>3. chain' = [chain EXCEPT ![c] = r]
    BY <1>2, <1>4, <2>1
  <2> QED
    BY <1>3, <2>2, <2>3, AdvancesBy
<1>5. CASE e # NoError
  <2>1. PICK r : r = [ch EXCEPT !.pc = "exit", !.error = e]
    OBVIOUS
  <2>2. e \in Errors /\ OwnError(c, e)
    BY <1>2, <1>5, ResultsTyped DEF OwnError
  <2>3. r \in Chain /\ r.pc = "exit" /\ r.error = e /\ r.entered = ch.entered
    BY <1>1, <2>1, <2>2 DEF Chain, PCs
  <2>4. chain' = [chain EXCEPT ![c] = r]
    BY <1>2, <1>5, <2>1
  <2> QED
    BY <1>3, <2>2, <2>3, <2>4, AdvancesBy
<1> QED
  BY <1>4, <1>5

\* The hooks around a call that ended in e take over, or the middleware is exited at once.
LEMMA AfterEffect ==
    ASSUME Typed, EmissionAssumption, NEW c \in Chains, NEW e \in Errors
    PROVE  /\ After(c, e) \in Chain /\ After(c, e).error = e
           /\ After(c, e).entered = chain[c].entered
           /\ After(c, e).pc \in {"exit", Slot(e)} /\ Slot(e) \in Slots
<1>1. chain[c] \in Chain /\ HookCount[c] \in Int
  BY DEF Typed, EmissionAssumption
<1>2. Slot(e) \in Slots
  BY DEF Slot, Slots
<1>3. Slot(e) \in PCs /\ "exit" \in PCs
  BY <1>2 DEF PCs
<1>4. PICK sl : sl = Slot(e)
  OBVIOUS
<1>5. CASE HookCount[c] = 0
  BY <1>1, <1>2, <1>3, <1>5 DEF After, Chain
<1>6. CASE HookCount[c] # 0
  <2>1. PICK r : r = [chain[c] EXCEPT !.pc = sl, !.error = e, !.todo = HookCount[c]]
    OBVIOUS
  <2>2. r \in Chain /\ r.pc = sl /\ r.error = e /\ r.entered = chain[c].entered
    BY <1>1, <1>3, <1>4, <2>1 DEF Chain
  <2>3. After(c, e) = r
    BY <1>4, <1>6, <2>1 DEF After
  <2> QED
    BY <1>2, <1>4, <2>2, <2>3
<1> QED
  BY <1>5, <1>6

LEMMA CalmIfSame ==
    ASSUME Typed, TaskOK, UNCHANGED <<world, registered, targets, exits, task>>
    PROVE  Calm
BY DEF Calm, Typed, TaskOK, Keeps, world

\* The record ch of a chain with n hooks in a slot, after one of them ended in e.
Observed(ch, e, n) ==
    IF ~Logged(e) THEN [ch EXCEPT !.pc = "exit", !.error = e, !.todo = 0]
    ELSE IF ch.todo > 1 THEN [ch EXCEPT !.todo = @ - 1]
    ELSE IF ch.pc = "complete"
         THEN [ch EXCEPT !.pc = "exit", !.todo = 0]
         ELSE [ch EXCEPT !.pc = "complete", !.todo = n]

LEMMA ObservedRecord ==
    ASSUME NEW ch \in Chain, NEW e \in Errors, NEW n \in Int, NEW r, r = Observed(ch, e, n)
    PROVE  /\ r \in Chain /\ r.pc \in {ch.pc, "complete", "exit"}
           /\ r.error \in {ch.error, e} /\ r.entered = ch.entered
<1>0. "complete" \in PCs /\ "exit" \in PCs
  BY DEF PCs, Slots
<1>z. PICK z \in Int : z = 0
  OBVIOUS
<1>1. CASE ~Logged(e)
  <2>1. r = [ch EXCEPT !.pc = "exit", !.error = e, !.todo = z]
    BY <1>1, <1>z DEF Observed
  <2> QED
    BY <1>0, <2>1 DEF Chain
<1>2. CASE Logged(e) /\ ch.todo > 1
  <2>1. PICK m \in Int : m = ch.todo - 1
    BY DEF Chain
  <2>2. r = [ch EXCEPT !.todo = m]
    BY <1>2, <2>1 DEF Observed
  <2> QED
    BY <2>2 DEF Chain
<1>3. CASE Logged(e) /\ ~(ch.todo > 1) /\ ch.pc = "complete"
  <2>1. r = [ch EXCEPT !.pc = "exit", !.todo = z]
    BY <1>3, <1>z DEF Observed
  <2> QED
    BY <1>0, <2>1 DEF Chain
<1>4. CASE Logged(e) /\ ~(ch.todo > 1) /\ ch.pc # "complete"
  <2>1. r = [ch EXCEPT !.pc = "complete", !.todo = n]
    BY <1>4 DEF Observed
  <2> QED
    BY <1>0, <2>1 DEF Chain
<1> QED
  BY <1>1, <1>2, <1>3, <1>4

LEMMA ObserveEffect ==
    ASSUME Typed, TaskOK, EmissionAssumption, NEW c \in Chains, Observe(c)
    PROVE  Advances(c) /\ chain'[c].pc \in {chain[c].pc, "complete", "exit"}
<1>0. chain[c].pc \in Slots /\ UNCHANGED <<world, registered, targets, exits>>
  BY DEF Observe
<1>1. PICK ch \in Chain : ch = chain[c]
  BY DEF Typed
<1>2. HookCount[c] \in Int
  BY DEF EmissionAssumption
<1>3. PICK e \in Results(c, 0) :
         /\ Ends(c, e, NoError)
         /\ chain' = [chain EXCEPT ![c] = Observed(ch, e, HookCount[c])]
  BY <1>1 DEF Observe, Observed
<1>4. e \in Errors /\ OwnError(c, e)
  BY <1>3, ResultsTyped DEF OwnError
<1>5. PICK r : r = Observed(ch, e, HookCount[c])
  OBVIOUS
<1>6. r \in Chain /\ r.pc \in {ch.pc, "complete", "exit"} /\ r.error \in {ch.error, e}
        /\ r.entered = ch.entered
  BY <1>2, <1>4, <1>5, ObservedRecord
<1>7. chain' = [chain EXCEPT ![c] = r]
  BY <1>3, <1>5
<1>8. Calm
  BY <1>0, <1>3, CalmBy
<1>9. r.error = chain[c].error \/ OwnError(c, r.error)
  BY <1>1, <1>4, <1>6
<1>10. Advances(c) /\ chain'[c] = r
  BY <1>1, <1>6, <1>7, <1>8, <1>9, AdvancesBy
<1> QED
  BY <1>1, <1>6, <1>10

LEMMA ExitedEffect ==
    ASSUME Typed, TaskOK, NEW c \in Chains, Exited(c)
    PROVE  /\ Advances(c) /\ chain'[c].pc = "done" /\ chain'[c].error = chain[c].error
           /\ chain[c].entered = <<>> /\ chain'[c].entered = <<>>
<1>1. PICK r : r = [chain[c] EXCEPT !.pc = "done"]
  OBVIOUS
<1>2. r \in Chain /\ r.pc = "done" /\ r.error = chain[c].error /\ r.entered = chain[c].entered
  BY <1>1 DEF Typed, Chain, PCs
<1>3. chain' = [chain EXCEPT ![c] = r] /\ chain[c].entered = <<>>
  BY <1>1 DEF Exited
<1>4. Calm
  BY CalmIfSame DEF Exited
<1> QED
  BY <1>2, <1>3, <1>4, AdvancesBy

LEMMA HandleEffect ==
    ASSUME Typed, TaskOK, EmissionAssumption, NEW h \in Handlers, Handle(h)
    PROVE  Advances(h) /\ chain'[h].pc \in Slots \cup {"exit"}
<1>0. h \in Chains
  BY DEF Chains
<1>1. PICK e \in Results(h, 0) : Ends(h, e, NoError) /\ chain' = [chain EXCEPT ![h] = After(h, e)]
  BY DEF Handle
<1>2. e \in Errors /\ OwnError(h, e)
  BY <1>0, <1>1, ResultsTyped DEF OwnError
<1>3. Calm
  BY <1>0, <1>1, CalmBy DEF Handle
<1>4. PICK r : r = After(h, e)
  OBVIOUS
<1>5. r \in Chain /\ r.error = e /\ r.entered = chain[h].entered /\ r.pc \in Slots \cup {"exit"}
  BY <1>0, <1>2, <1>4, AfterEffect
<1>6. chain' = [chain EXCEPT ![h] = r]
  BY <1>1, <1>4
<1> QED
  BY <1>0, <1>2, <1>3, <1>5, <1>6, AdvancesBy

LEMMA FanOutNextEffect ==
    ASSUME Typed, TaskOK, NEW h \in Handlers, FanOutNext(h)
    PROVE  Advances(h) /\ chain'[h].pc = "enter"
<1>0. h \in Chains
  BY DEF Chains
<1>1. PICK r : r = [chain[h] EXCEPT !.pc = "enter"]
  OBVIOUS
<1>2. r \in Chain /\ r.pc = "enter" /\ r.error = chain[h].error /\ r.entered = chain[h].entered
  BY <1>0, <1>1 DEF Typed, Chain, PCs
<1>3. chain' = [chain EXCEPT ![h] = r]
  BY <1>1 DEF FanOutNext
<1>4. Calm
  BY CalmIfSame DEF FanOutNext
<1> QED
  BY <1>0, <1>2, <1>3, <1>4, AdvancesBy

-----------------------------------------------------------------------------
(* What became of the handlers                                             *)

OwnErrors == \A c \in Chains : OwnError(c, chain[c].error)

Running(h) == ~Done(h) /\ chain[h].pc # "queued"

\* A handler raised past a sync fan-out.
Stopped == \E g \in Failed : Propagates(g)

\* Handlers run while the dispatch waits, one at a time on a sync bus; how the emit goes on
\* after it is told from how they ended.
FanOK ==
    /\ \A h \in Handlers \ targets : chain[h].pc = "idle"
    /\ chain[Emitter].pc \in {"idle", "enter", "call"} => targets = {}
    /\ chain[Emitter].pc \in {"waiting", "cancelling"} => pattern # "other"
    /\ pattern = "request" =>
          /\ chain[Emitter].pc # "cancelling"
          /\ targets = {} \/ \E x \in Handlers : targets = {x}
          /\ chain[Emitter].pc = "waiting" => targets # {}
    /\ chain[Emitter].pc \in Slots \cup {"exit", "done"} =>
          \A h \in targets : Done(h) \/ (chain[h].pc = "queued" /\ Stopped)
    /\ chain[Emitter].pc = "success" => Failed = {}
    /\ (chain[Emitter].pc = "failure" /\ targets # {}) =>
          Failed # {} /\ \A h \in Failed : ~Propagates(h)
    /\ (bus = "sync" /\ pattern = "pubsub") =>
          \A h \in targets : Running(h) =>
              ~Stopped /\ \A g \in targets \ {h} : ~Running(g)

LEMMA CancelledTyped ==
    ASSUME Typed, NEW c \in Chains
    PROVE  /\ Cancelled(c) \in Errors /\ OwnError(c, Cancelled(c))
           /\ Cancelled(c).kind = "cancelled"
<1>1. Caller \in Bys /\ <<"timeout">> \in Bys /\ "cancelled" \in Kinds
  BY DEF Kinds, Bys
<1> QED
  BY <1>1, ErrorIsTyped, CallersName DEF Cancelled, OwnError

\* The errors the bus itself raises.
LEMMA BusErrors ==
    ASSUME NEW k \in {"exception", "base"}, NEW c \in Chains,
           NEW b \in {<<"TypeError">>, <<"HandlerErrors">>, <<"BaseHandlerErrors">>, <<"Responders">>}
    PROVE  /\ Error(k, b) \in Errors /\ OwnError(c, Error(k, b)) /\ Error(k, b) # NoError
           /\ Error(k, b).kind = k
<1>1. k \in Kinds /\ b \in Bys /\ b # Caller
  BY CallersName DEF Kinds, Bys
<1> QED
  BY <1>1, ErrorIsTyped, NoErrorIsTyped DEF OwnError

LEMMA EmitEffect ==
    ASSUME Typed, TaskOK, Emit
    PROVE  Advances(Emitter) /\ chain'[Emitter].pc \in {"enter", "done"}
             /\ chain'[Emitter].entered = chain[Emitter].entered
<1>0. Emitter \in Chains
  BY DEF Chains
<1>1. PICK ch \in Chain : ch = chain[Emitter]
  BY <1>0 DEF Typed
<1>2. PICK e : e = Error("exception", <<"TypeError">>)
  OBVIOUS
<1>3. e \in Errors /\ OwnError(Emitter, e)
  BY <1>0, <1>2, BusErrors
<1>4. PICK r : r = IF pattern = "other" THEN [ch EXCEPT !.pc = "done", !.error = e]
                   ELSE [ch EXCEPT !.pc = "enter"]
  OBVIOUS
<1>5. r \in Chain /\ r.pc \in {"enter", "done"} /\ r.error \in {ch.error, e}
        /\ r.entered = ch.entered
  <2>1. CASE pattern = "other"
    BY <1>3, <1>4, <2>1 DEF Chain, PCs
  <2>2. CASE pattern # "other"
    BY <1>4, <2>2 DEF Chain, PCs
  <2> QED
    BY <2>1, <2>2
<1>6. chain' = [chain EXCEPT ![Emitter] = r]
  BY <1>1, <1>2, <1>4 DEF Emit
<1>7. Calm
  BY CalmIfSame DEF Emit
<1>8. r.error = chain[Emitter].error \/ OwnError(Emitter, r.error)
  BY <1>1, <1>3, <1>5
<1>9. Advances(Emitter) /\ chain'[Emitter] = r
  BY <1>0, <1>1, <1>5, <1>6, <1>7, <1>8, AdvancesBy
<1> QED
  BY <1>1, <1>5, <1>9

\* The emit's call ended in e, which the hooks around it observe first, if there are any.
LEMMA CallEnds ==
    ASSUME Typed, TaskOK, EmissionAssumption, NEW e \in Errors, OwnError(Emitter, e),
           chain' = [chain EXCEPT ![Emitter] = After(Emitter, e)],
           UNCHANGED <<world, registered, targets, exits, task>>
    PROVE  /\ Advances(Emitter) /\ chain'[Emitter].pc \in {"exit", Slot(e)}
           /\ Slot(e) \in Slots
<1>0. Emitter \in Chains
  BY DEF Chains
<1>1. Calm
  BY CalmIfSame
<1>2. PICK r : r = After(Emitter, e)
  OBVIOUS
<1>3. /\ r \in Chain /\ r.error = e /\ r.entered = chain[Emitter].entered
      /\ r.pc \in {"exit", Slot(e)} /\ Slot(e) \in Slots
  BY <1>0, <1>2, AfterEffect
<1>4. chain' = [chain EXCEPT ![Emitter] = r]
  BY <1>2
<1>5. Advances(Emitter) /\ chain'[Emitter] = r
  BY <1>0, <1>1, <1>3, <1>4, AdvancesBy
<1> QED
  BY <1>3, <1>5

LEMMA FanOutRaisesEffect ==
    ASSUME Typed, TaskOK, OwnErrors, EmissionAssumption, NEW h \in Handlers, FanOutRaises(h)
    PROVE  Advances(Emitter) /\ chain'[Emitter].pc \in {"complete", "exit"}
<1> DEFINE e == chain[h].error
<1>1. h \in Chains /\ TaskOf(h) \in Chains
  BY TaskOfTyped DEF Chains
<1>2. e \in Errors
  BY <1>1 DEF Typed, Chain
<1>3. OwnError(Emitter, e)
  <2>1. bus = "sync"
    BY DEF FanOutRaises
  <2>2. e.by # Caller
    BY <1>1, <2>1 DEF OwnErrors, OwnError, TaskOK
  <2> QED
    BY <2>2 DEF OwnError
<1>4. e # NoError /\ ~IsException(e)
  BY DEF FanOutRaises, Failed, Propagates
<1>5. Slot(e) = "complete"
  BY <1>4 DEF Slot
<1>6. Advances(Emitter) /\ chain'[Emitter].pc \in {"exit", Slot(e)}
  BY <1>2, <1>3, CallEnds DEF FanOutRaises
<1> QED
  BY <1>5, <1>6

LEMMA NotOneResponder ==
    ASSUME Typed, TaskOK, EmissionAssumption, RequestCall, ~Responders(registered)
    PROVE  Advances(Emitter) /\ chain'[Emitter].pc \in {"failure", "exit"}
<1> DEFINE e == Error("exception", <<"Responders">>)
<1>1. e \in Errors /\ OwnError(Emitter, e) /\ e # NoError /\ e.kind = "exception"
  BY BusErrors DEF Chains
<1>2. Slot(e) = "failure"
  BY <1>1 DEF Slot, IsException
<1>3. Advances(Emitter) /\ chain'[Emitter].pc \in {"exit", Slot(e)}
  BY <1>1, CallEnds DEF RequestCall
<1> QED
  BY <1>2, <1>3

LEMMA DispatchedEffect ==
    ASSUME Typed, TaskOK, OwnErrors, FanOK, EmissionAssumption, Dispatched
    PROVE  /\ Advances(Emitter) /\ chain'[Emitter].pc \in Slots \cup {"exit"}
           /\ chain'[Emitter].pc = "success" => Failed = {}
           /\ chain'[Emitter].pc = "failure" /\ targets # {} =>
                 Failed # {} /\ \A h \in Failed : ~Propagates(h)
           /\ \A h \in targets : Done(h)
<1>x. PICK x : x = CHOOSE h \in targets : TRUE
  OBVIOUS
<1>0. Emitter \in Chains
  BY DEF Chains
<1>1. PICK e : e = IF chain[Emitter].pc = "cancelling" THEN Cancelled(Emitter)
                   ELSE IF pattern = "pubsub" THEN GroupKind(Failed)
                   ELSE chain[x].error
  OBVIOUS
<1>2. /\ chain' = [chain EXCEPT ![Emitter] = After(Emitter, e)]
      /\ chain[Emitter].pc \in {"waiting", "cancelling"} /\ \A h \in targets : Done(h)
      /\ UNCHANGED <<world, registered, targets, exits, task>>
  BY <1>x, <1>1 DEF Dispatched, Gathered
<1>3. /\ e \in Errors /\ OwnError(Emitter, e)
      /\ e = NoError => Failed = {}
      /\ e # NoError /\ IsException(e) => Failed # {} /\ \A h \in Failed : ~Propagates(h)
  <2>1. CASE chain[Emitter].pc = "cancelling"
    <3>1. e = Cancelled(Emitter)
      BY <1>1, <2>1
    <3> QED
      BY <1>0, <3>1, CancelledTyped, NoErrorIsTyped DEF IsException
  <2>2. CASE chain[Emitter].pc = "waiting" /\ pattern = "pubsub"
    <3>1. e = GroupKind(Failed)
      BY <1>1, <2>2
    <3>2. CASE Failed = {}
      BY <3>1, <3>2, NoErrorIsTyped, CallersName DEF GroupKind, OwnError
    <3>3. CASE Failed # {} /\ \A h \in Failed : IsException(chain[h].error)
      <4>1. e = Error("exception", <<"HandlerErrors">>)
        BY <3>1, <3>3 DEF GroupKind
      <4> QED
        BY <1>0, <3>3, <4>1, BusErrors DEF Propagates
    <3>4. CASE Failed # {} /\ ~\A h \in Failed : IsException(chain[h].error)
      <4>1. e = Error("base", <<"BaseHandlerErrors">>)
        BY <3>1, <3>4 DEF GroupKind
      <4> QED
        BY <1>0, <4>1, BusErrors DEF IsException
    <3> QED
      BY <3>2, <3>3, <3>4
  <2>3. CASE chain[Emitter].pc = "waiting" /\ pattern # "pubsub"
    <3>1. pattern = "request" /\ targets # {}
      BY <2>3 DEF FanOK, Typed
    <3>2. PICK y \in Handlers : targets = {y}
      BY <3>1 DEF FanOK
    <3>3. x = y /\ y \in Chains /\ Done(y)
      BY <1>x, <1>2, <3>2 DEF Chains
    <3>4. e = chain[y].error
      BY <1>1, <2>3, <3>3
    <3>5. e \in Errors
      BY <3>3, <3>4 DEF Typed, Chain
    <3>6. OwnError(Emitter, e)
      BY <3>1, <3>3, <3>4 DEF OwnErrors, OwnError, TaskOf
    <3>7. e # NoError => Failed = {y}
      BY <3>2, <3>3, <3>4 DEF Failed
    <3>8. e = NoError => Failed = {}
      BY <3>2, <3>3, <3>4 DEF Failed
    <3> QED
      BY <3>4, <3>5, <3>6, <3>7, <3>8 DEF Propagates
  <2> QED
    BY <1>2, <2>1, <2>2, <2>3
<1>4. Advances(Emitter) /\ chain'[Emitter].pc \in {"exit", Slot(e)} /\ Slot(e) \in Slots
  BY <1>2, <1>3, CallEnds
<1>5. Slot(e) = "success" => e = NoError
  BY DEF Slot
<1>6. Slot(e) = "failure" => e # NoError /\ IsException(e)
  BY NoErrorIsTyped DEF Slot, IsException
<1> QED
  BY <1>2, <1>3, <1>4, <1>5, <1>6

LEMMA CancelGatherEffect ==
    ASSUME Typed, TaskOK, CancelGather
    PROVE  Advances(Emitter) /\ chain'[Emitter].pc = "cancelling"
<1>0. Emitter \in Chains
  BY DEF Chains
<1>1. PICK r : r = [chain[Emitter] EXCEPT !.pc = "cancelling"]
  OBVIOUS
<1>2. /\ r \in Chain /\ r.pc = "cancelling" /\ r.error = chain[Emitter].error
      /\ r.entered = chain[Emitter].entered
  BY <1>0, <1>1 DEF Typed, Chain, PCs
<1>3. chain' = [chain EXCEPT ![Emitter] = r]
  BY <1>1 DEF CancelGather
<1>4. bus = "async"
  BY <1>0 DEF CancelGather, TaskOK
<1>5. ASSUME NEW t \in Chains
      PROVE  task'[t] \in Task /\ task[t].by \subseteq task'[t].by
  <2>1. CASE t = Emitter
    <3>1. task'[t] = [task[t] EXCEPT !.due = FALSE]
      BY <2>1 DEF CancelGather
    <3> QED
      BY <3>1 DEF Typed, Task
  <2>2. CASE t # Emitter /\ t \in targets /\ ~Done(t)
    <3>1. task'[t] = [by |-> task[t].by \cup {Caller}, due |-> TRUE]
      BY <2>2 DEF CancelGather
    <3>2. Caller \in Bys /\ task[t].by \subseteq Bys
      BY DEF Bys, Typed, Task
    <3> QED
      BY <3>1, <3>2 DEF Task
  <2>3. CASE t # Emitter /\ ~(t \in targets /\ ~Done(t))
    <3>1. task'[t] = task[t]
      BY <2>3 DEF CancelGather
    <3> QED
      BY <3>1 DEF Typed
  <2> QED
    BY <2>1, <2>2, <2>3
<1>6. task' \in [Chains -> Task]
  <2>1. task' = [t \in Chains |-> task'[t]]
    BY DEF CancelGather
  <2> QED
    BY <1>5, <2>1
<1>7. Calm
  BY <1>4, <1>5, <1>6 DEF Calm, TaskOK, Keeps, CancelGather, Typed, world
<1>8. Advances(Emitter) /\ chain'[Emitter] = r
  BY <1>0, <1>2, <1>3, <1>7, AdvancesBy
<1> QED
  BY <1>2, <1>8

\* The dispatch starts the handlers registered now: each goes to the step pc.
Starts(pc) ==
    /\ targets' = registered /\ chain'[Emitter].pc = "waiting"
    /\ \A h \in Handlers : chain'[h].pc = IF h \in registered THEN pc ELSE chain[h].pc
    /\ \A c \in Chains : chain'[c].entered = chain[c].entered /\ chain'[c].error = chain[c].error
    /\ Typed' /\ UNCHANGED <<world, registered, exits, task>>

LEMMA StartsBy ==
    ASSUME Typed, EmissionAssumption, NEW pc \in {"queued", "enter"}, targets' = registered,
           chain' = [c \in Chains |->
               IF c = Emitter THEN [chain[c] EXCEPT !.pc = "waiting"]
               ELSE IF c \in registered THEN [chain[c] EXCEPT !.pc = pc] ELSE chain[c]],
           UNCHANGED <<world, registered, exits, task>>
    PROVE  Starts(pc)
<1>1. ASSUME NEW c \in Chains
      PROVE  /\ chain'[c] \in Chain
             /\ chain'[c].pc = IF c = Emitter THEN "waiting"
                                ELSE IF c \in registered THEN pc ELSE chain[c].pc
             /\ chain'[c].entered = chain[c].entered /\ chain'[c].error = chain[c].error
  <2>1. PICK ch \in Chain : ch = chain[c]
    BY DEF Typed
  <2>2. chain'[c] = IF c = Emitter THEN [ch EXCEPT !.pc = "waiting"]
                    ELSE IF c \in registered THEN [ch EXCEPT !.pc = pc] ELSE ch
    BY <2>1
  <2>3. "waiting" \in PCs /\ pc \in PCs
    BY DEF PCs
  <2> QED
    BY <2>1, <2>2, <2>3 DEF Chain
<1>2. chain' \in [Chains -> Chain]
  <2>1. chain' = [c \in Chains |-> chain'[c]]
    OBVIOUS
  <2> QED
    BY <1>1, <2>1
<1>3. Typed'
  BY <1>2 DEF Typed, world
<1>4. \A h \in Handlers : h \in Chains /\ h # Emitter
  BY DEF Chains, EmissionAssumption
<1>5. Emitter \in Chains
  BY DEF Chains
<1> QED
  BY <1>1, <1>3, <1>4, <1>5 DEF Starts

LEMMA FanOutEffect ==
    ASSUME Typed, EmissionAssumption, FanOut
    PROVE  Starts(IF bus = "async" THEN "enter" ELSE "queued")
<1>1. PICK pc \in {"queued", "enter"} : pc = IF bus = "async" THEN "enter" ELSE "queued"
  OBVIOUS
<1>2. chain' = [c \in Chains |->
               IF c = Emitter THEN [chain[c] EXCEPT !.pc = "waiting"]
               ELSE IF c \in registered THEN [chain[c] EXCEPT !.pc = pc] ELSE chain[c]]
  BY <1>1 DEF FanOut
<1>3. targets' = registered /\ UNCHANGED <<world, registered, exits, task>>
  BY DEF FanOut
<1>4. Starts(pc)
  BY <1>2, <1>3, StartsBy
<1> QED
  BY <1>1, <1>4

LEMMA RequestCallEffect ==
    ASSUME Typed, EmissionAssumption, RequestCall, Responders(registered)
    PROVE  Starts("enter") /\ \E x \in Handlers : registered = {x}
<1>1. Starts("enter")
  BY StartsBy DEF RequestCall
<1>2. IsFiniteSet(registered)
  BY FS_Subset DEF EmissionAssumption, Typed
<1>3. PICK x : registered = {x}
  BY <1>2, FS_Singleton DEF Responders
<1> QED
  BY <1>1, <1>3 DEF Typed

-----------------------------------------------------------------------------
(* One layer is exited                                                     *)

LEMMA PoppedLayer ==
    ASSUME NEW s \in Seq(Nat), s # <<>>
    PROVE  /\ Popped(s)[1] = s[Len(s)] /\ Popped(s)[1] \in Nat
           /\ Popped(s)[2] \in Seq(Nat) /\ Len(Popped(s)[2]) = Len(s) - 1
           /\ \A i \in 1..(Len(s) - 1) : Popped(s)[2][i] = s[i]
           /\ Len(s) \in Nat \ {0}
<1>1. Len(s) \in Nat \ {0} /\ s[Len(s)] \in Nat
  OBVIOUS
<1>2. PICK r : r = SubSeq(s, 1, Len(s) - 1)
  OBVIOUS
<1>3. Len(r) = Len(s) - 1 /\ r \in Seq(Nat) /\ \A i \in 1..(Len(s) - 1) : r[i] = s[i]
  <2>1. PICK n \in Int : n = Len(s) - 1
    BY <1>1
  <2>2. \A i \in 1..n : s[i] \in Nat
    BY <1>1, <2>1
  <2>3. r = SubSeq(s, 1, n) /\ r \in Seq(Nat)
    BY <1>2, <2>1, <2>2, SubSeqProperties
  <2>4. Len(r) = IF 1 <= n THEN n - 1 + 1 ELSE 0
    BY <2>2, <2>3, SubSeqProperties
  <2>5. \A i \in 1..(n - 1 + 1) : SubSeq(s, 1, n)[i] = s[1 + i - 1]
    BY <2>2, SubSeqProperties
  <2>6. \A i \in 1..n : r[i] = s[i]
    BY <2>1, <2>3, <2>5
  <2> QED
    BY <1>1, <2>1, <2>3, <2>4, <2>6
<1>4. Popped(s)[1] = s[Len(s)] /\ Popped(s)[2] = r
  BY <1>2 DEF Popped, Last, Front
<1> QED
  BY <1>1, <1>3, <1>4

\* The chain c leaves its innermost layer with the error e; own: the exit raised it.
Leaves(c, e, own) ==
    LET layer == Popped(chain[c].entered) IN
    /\ chain[c].pc = "exit" /\ chain[c].entered # <<>>
    /\ chain'[c].pc = "exit" /\ chain'[c].error = e /\ chain'[c].entered = layer[2]
    /\ \A d \in Chains \ {c} : chain'[d] = chain[d]
    /\ exits'[c] = Append(exits[c], [layer |-> layer[1], saw |-> chain[c].error, own |-> own])
    /\ \A d \in Chains \ {c} : exits'[d] = exits[d]
    /\ OwnError(c, e)
    /\ chain[c].error # NoError =>
          e # NoError /\ (chain[c].error.by = Caller /\ ~own => e = chain[c].error)
    /\ Typed' /\ TaskOK' /\ Keeps /\ UNCHANGED <<world, targets>>

LEMMA RefusedError ==
    ASSUME NEW c \in Chains, NEW i \in Nat, NEW e \in Errors, NEW cancelling \in BOOLEAN
    PROVE  /\ RefuseSwallow(c, i, e, cancelling) \in Errors
           /\ \/ RefuseSwallow(c, i, e, cancelling) = e
              \/ /\ RefuseSwallow(c, i, e, cancelling) # NoError
                 /\ RefuseSwallow(c, i, e, cancelling).by # Caller
                 /\ e.kind = "cancelled" => ~cancelling
<1>1. PICK own : own = Error("exception", <<c, i>>)
  OBVIOUS
<1>2. own \in Errors /\ own.by # Caller /\ own # NoError
  <2>1. "exception" \in Kinds /\ <<c, i>> \in Bys /\ <<c, i>> # Caller
    BY CallersName DEF Kinds, Bys
  <2>2. own \in Errors /\ own.kind = "exception" /\ own.by = <<c, i>>
    BY <1>1, <2>1, ErrorIsTyped
  <2> QED
    BY <2>1, <2>2, NoErrorIsTyped
<1>3. RefuseSwallow(c, i, e, cancelling) \in {own, e}
  BY <1>1 DEF RefuseSwallow
<1>4. RefuseSwallow(c, i, e, cancelling) # e /\ e.kind = "cancelled" => ~cancelling
  BY DEF RefuseSwallow, IsException
<1> QED
  BY <1>2, <1>3, <1>4

LEMMA ExitEffect ==
    ASSUME Typed, TaskOK, OwnErrors, NEW c \in Chains, Exit(c)
    PROVE  \E e \in Errors, own \in BOOLEAN : Leaves(c, e, own)
<1> DEFINE t == TaskOf(c)
<1>0. t \in Chains
  BY TaskOfTyped
<1>1. PICK ch \in Chain : ch = chain[c]
  BY DEF Typed
<1>2. ch.pc = "exit" /\ ch.entered # <<>> /\ ch.entered \in Seq(Nat) /\ ch.error \in Errors
  BY <1>1 DEF Exit, Chain
<1>3. PICK layer : layer = Popped(ch.entered)
  OBVIOUS
<1>4. layer[1] \in Nat /\ layer[2] \in Seq(Nat)
  BY <1>2, <1>3, PoppedLayer
<1>5. PICK by : by = task[t].by \ {<<c, layer[1]>>}
  OBVIOUS
<1>6. by \in SUBSET Bys /\ (Caller \in task[t].by <=> Caller \in by)
  <2>1. task[t].by \in SUBSET Bys
    BY <1>0 DEF Typed, Task
  <2>2. Caller # <<c, layer[1]>>
    BY CallersName
  <2> QED
    BY <1>5, <2>1, <2>2
<1>7. PICK swallowed : swallowed = RefuseSwallow(c, layer[1], ch.error, by # {})
  OBVIOUS
<1>8. /\ swallowed \in Errors
      /\ swallowed = ch.error \/ (swallowed # NoError /\ swallowed.by # Caller)
      /\ ch.error.by = Caller => swallowed = ch.error
  <2>1. (by # {}) \in BOOLEAN
    OBVIOUS
  <2>2. /\ swallowed \in Errors
        /\ \/ swallowed = ch.error
           \/ swallowed # NoError /\ swallowed.by # Caller /\ (ch.error.kind = "cancelled" => ~(by # {}))
    BY <1>2, <1>4, <1>7, <2>1, RefusedError
  <2>3. ch.error.by = Caller => ch.error.kind = "cancelled" /\ by # {}
    BY <1>1, <1>6 DEF OwnErrors, OwnError
  <2> QED
    BY <2>2, <2>3
<1>9. PICK e \in (Results(c, layer[1]) \ {NoError}) \cup {ch.error, swallowed} :
         /\ chain' = [chain EXCEPT ![c] = [ch EXCEPT !.entered = Popped(@)[2], !.error = e]]
         /\ task' = [task EXCEPT ![t] = [by |-> by, due |-> FALSE]]
         /\ exits' = [exits EXCEPT ![c] =
                Append(@, [layer |-> layer[1], saw |-> ch.error,
                           own |-> e \notin {ch.error, swallowed}])]
  BY <1>1, <1>3, <1>5, <1>7 DEF Exit
<1>10. PICK own \in BOOLEAN : own = (e \notin {ch.error, swallowed})
  OBVIOUS
<1>11. e \in Errors /\ OwnError(c, e)
  <2>1. CASE e \in Results(c, layer[1])
    BY <1>4, <2>1, ResultsTyped DEF OwnError
  <2>2. CASE e \in {ch.error, swallowed}
    BY <1>1, <1>2, <1>8, <2>2 DEF OwnErrors, OwnError
  <2> QED
    BY <1>9, <2>1, <2>2
<1>12. ch.error # NoError => e # NoError /\ (ch.error.by = Caller /\ ~own => e = ch.error)
  BY <1>8, <1>9, <1>10
<1>13. PICK r : r = [ch EXCEPT !.entered = layer[2], !.error = e]
  OBVIOUS
<1>14. r \in Chain /\ r.pc = "exit" /\ r.error = e /\ r.entered = layer[2]
  BY <1>2, <1>4, <1>11, <1>13 DEF Chain
<1>15. chain' = [chain EXCEPT ![c] = r]
  BY <1>3, <1>9, <1>13
<1>16. PICK x : x = [layer |-> layer[1], saw |-> ch.error, own |-> own]
  OBVIOUS
<1>17. x \in ExitRecord
  BY <1>2, <1>4, <1>16 DEF ExitRecord
<1>18. exits' = [exits EXCEPT ![c] = Append(exits[c], x)]
  BY <1>9, <1>10, <1>16
<1>19. /\ exits'[c] = Append(exits[c], x) /\ \A d \in Chains \ {c} : exits'[d] = exits[d]
       /\ exits' \in [Chains -> Seq(ExitRecord)]
  <2>1. exits[c] \in Seq(ExitRecord)
    BY DEF Typed
  <2>2. Append(exits[c], x) \in Seq(ExitRecord)
    BY <1>17, <2>1
  <2> QED
    BY <1>18, <2>2 DEF Typed
<1>20. task' \in [Chains -> Task] /\ TaskOK' /\ Keeps
  <2>1. PICK k \in Task : k = [by |-> by, due |-> FALSE]
    BY <1>6 DEF Task
  <2>2. k.by = by /\ ~k.due
    BY <2>1
  <2>3. task' = [task EXCEPT ![t] = k]
    BY <1>9, <2>1
  <2>4. \A d \in Chains : task'[d] = IF d = t THEN k ELSE task[d]
    BY <2>3 DEF Typed
  <2>5. task' \in [Chains -> Task]
    BY <2>3 DEF Typed
  <2> QED
    BY <1>0, <1>6, <2>2, <2>4, <2>5 DEF TaskOK, Keeps, Exit, world
<1>21. chain'[c] = r /\ \A d \in Chains \ {c} : chain'[d] = chain[d]
  BY <1>15 DEF Typed
<1>22. Typed'
  BY <1>14, <1>15, <1>19, <1>20 DEF Typed, Exit, world
<1> QED
  BY <1>1, <1>2, <1>3, <1>10, <1>11, <1>12, <1>14, <1>16, <1>19, <1>20, <1>21, <1>22 DEF Leaves, Exit

-----------------------------------------------------------------------------
(* Cancellation asked of a task                                            *)

LEMMA CancelTaskEffect ==
    ASSUME Typed, TaskOK, NEW t \in Chains, NEW by \in Bys, CancelTask(t, by)
    PROVE  Typed' /\ Calm /\ UNCHANGED <<chain, registered>>
<1>1. PICK k : k = [by |-> task[t].by \cup {by}, due |-> TRUE]
  OBVIOUS
<1>2. k \in Task /\ k.by = task[t].by \cup {by}
  BY <1>1 DEF Typed, Task
<1>3. task' = [task EXCEPT ![t] = k]
  BY <1>1 DEF CancelTask
<1>4. task' \in [Chains -> Task] /\ \A d \in Chains : task'[d] = IF d = t THEN k ELSE task[d]
  BY <1>2, <1>3 DEF Typed
<1>5. bus = "async" /\ UNCHANGED <<world, registered, targets, chain, exits>>
  BY DEF CancelTask
<1>6. TaskOK' /\ Keeps
  BY <1>2, <1>4, <1>5 DEF TaskOK, Keeps, world
<1> QED
  BY <1>4, <1>5, <1>6 DEF Calm, Typed, world

LEMMA CancelEffect ==
    ASSUME Typed, TaskOK, Cancel \/ \E c \in Chains : TimeOut(c)
    PROVE  Typed' /\ Calm /\ UNCHANGED <<chain, registered>>
<1>1. CASE Cancel
  BY <1>1, CancelTaskEffect DEF Cancel, Bys, Chains
<1>2. ASSUME NEW c \in Chains, TimeOut(c)
      PROVE  Typed' /\ Calm /\ UNCHANGED <<chain, registered>>
  <2>1. PICK i \in Range(chain[c].entered) : CancelTask(TaskOf(c), <<c, i>>)
    BY <1>2 DEF TimeOut
  <2>2. i \in Nat
    <3>1. chain[c].entered \in Seq(Nat)
      BY DEF Typed, Chain
    <3> QED
      BY <2>1, <3>1 DEF Range
  <2>3. <<c, i>> \in Bys /\ TaskOf(c) \in Chains
    BY <2>2, TaskOfTyped DEF Bys
  <2> QED
    BY <2>1, <2>3, CancelTaskEffect
<1> QED
  BY <1>1, <1>2

-----------------------------------------------------------------------------
(* Layers are exited innermost first, and errors stand                     *)

\* The layers entered are numbered in order, and those exited are the ones above them.
LayersOK(c) ==
    /\ chain[c].pc \notin {"exit", "done"} => exits[c] = <<>>
    /\ chain[c].pc \in {"idle", "done"} => chain[c].entered = <<>>
    /\ \A i \in 1..Len(chain[c].entered) : chain[c].entered[i] = i
    /\ \A i \in 1..Len(exits[c]) :
          exits[c][i].layer = Len(chain[c].entered) + Len(exits[c]) - i + 1

\* Every error that an exit saw is still there after it, or has been replaced.
Stands(c) ==
    \A n \in 1..Len(exits[c]) :
        exits[c][n].saw # NoError =>
            /\ LeftBy(c, n) # NoError
            /\ (exits[c][n].saw.by = Caller /\ ~exits[c][n].own) => LeftBy(c, n) = exits[c][n].saw

\* A chain of which neither the exits nor what follows from them changes.
LEMMA SameLayers ==
    ASSUME NEW c \in Chains, LayersOK(c), Stands(c), chain'[c] = chain[c], exits'[c] = exits[c]
    PROVE  LayersOK(c)' /\ Stands(c)'
BY DEF LayersOK, Stands, LeftBy

LEMMA NoExits ==
    ASSUME NEW c \in Chains, exits'[c] = <<>>, chain'[c].entered \in Seq(Nat),
           chain'[c].pc \in {"idle", "done"} => chain'[c].entered = <<>>,
           \A i \in 1..Len(chain'[c].entered) : chain'[c].entered[i] = i
    PROVE  LayersOK(c)' /\ Stands(c)'
<1>1. Len(exits'[c]) = 0 /\ 1..Len(exits'[c]) = {}
  OBVIOUS
<1> QED
  BY <1>1 DEF LayersOK, Stands

LEMMA LayersAdvance ==
    ASSUME Typed, \A d \in Chains : LayersOK(d) /\ Stands(d), NEW c \in Chains, Advances(c),
           chain[c].pc \notin {"exit", "done"}, chain'[c].pc # "idle",
           chain'[c].pc = "done" => chain'[c].entered = <<>>
    PROVE  \A d \in Chains : LayersOK(d)' /\ Stands(d)'
<1>1. ASSUME NEW d \in Chains \ {c} PROVE LayersOK(d)' /\ Stands(d)'
  BY SameLayers DEF Advances, Calm
<1>2. LayersOK(c)' /\ Stands(c)'
  <2>1. exits'[c] = <<>>
    BY DEF LayersOK, Advances, Calm
  <2>2. PICK s : s = chain[c].entered
    OBVIOUS
  <2>3. s \in Seq(Nat) /\ Len(s) \in Nat /\ \A i \in 1..Len(s) : s[i] = i
    BY <2>2 DEF Typed, Chain, LayersOK
  <2>4. chain'[c].entered \in {s, Append(s, Len(s) + 1)}
    BY <2>2 DEF Advances
  <2>5. Append(s, Len(s) + 1) \in Seq(Nat)
          /\ \A i \in 1..Len(Append(s, Len(s) + 1)) : Append(s, Len(s) + 1)[i] = i
    BY <2>3
  <2>6. chain'[c].entered \in Seq(Nat) /\ \A i \in 1..Len(chain'[c].entered) : chain'[c].entered[i] = i
    BY <2>3, <2>4, <2>5
  <2> QED
    BY <2>1, <2>6, NoExits
<1> QED
  BY <1>1, <1>2

LEMMA LayersExited ==
    ASSUME Typed, \A d \in Chains : LayersOK(d) /\ Stands(d), NEW c \in Chains, Advances(c),
           chain[c].pc = "exit", chain'[c].pc = "done", chain'[c].error = chain[c].error,
           chain[c].entered = <<>>, chain'[c].entered = <<>>
    PROVE  \A d \in Chains : LayersOK(d)' /\ Stands(d)'
<1>1. ASSUME NEW d \in Chains \ {c} PROVE LayersOK(d)' /\ Stands(d)'
  BY SameLayers DEF Advances, Calm
<1>2. exits' = exits
  BY DEF Advances, Calm
<1>3. LayersOK(c)'
  <2>1. LayersOK(c) /\ chain'[c].entered = chain[c].entered
    OBVIOUS
  <2> QED
    BY <1>2, <2>1 DEF LayersOK
<1>4. Stands(c)'
  <2>1. \A n \in 1..Len(exits[c]) : LeftBy(c, n)' = LeftBy(c, n)
    BY <1>2 DEF LeftBy
  <2>2. Stands(c)
    OBVIOUS
  <2> QED
    BY <1>2, <2>1, <2>2 DEF Stands
<1> QED
  BY <1>1, <1>3, <1>4

LEMMA LayersStart ==
    ASSUME Typed, \A d \in Chains : LayersOK(d) /\ Stands(d), NEW pc \in {"enter", "queued"},
           Starts(pc), chain[Emitter].pc = "call", \A h \in Handlers : chain[h].pc = "idle"
    PROVE  \A d \in Chains : LayersOK(d)' /\ Stands(d)'
<1> SUFFICES ASSUME NEW d \in Chains PROVE LayersOK(d)' /\ Stands(d)'
  OBVIOUS
<1>1. exits'[d] = <<>> /\ chain'[d].entered = chain[d].entered
  BY DEF LayersOK, Starts, Chains
<1>2. chain[d].entered \in Seq(Nat) /\ \A i \in 1..Len(chain[d].entered) : chain[d].entered[i] = i
  BY DEF LayersOK, Typed, Chain
<1>3. chain'[d].pc \in {"idle", "done"} => chain[d].entered = <<>>
  BY DEF LayersOK, Starts, Chains
<1> QED
  BY <1>1, <1>2, <1>3, NoExits

LEMMA LayersLeave ==
    ASSUME Typed, \A d \in Chains : LayersOK(d) /\ Stands(d), NEW c \in Chains,
           NEW e \in Errors, NEW own \in BOOLEAN, Leaves(c, e, own)
    PROVE  \A d \in Chains : LayersOK(d)' /\ Stands(d)'
<1>1. ASSUME NEW d \in Chains \ {c} PROVE LayersOK(d)' /\ Stands(d)'
  BY SameLayers DEF Leaves
<1>2. PICK s : s = chain[c].entered
  OBVIOUS
<1>3. s \in Seq(Nat) /\ s # <<>> /\ \A i \in 1..Len(s) : s[i] = i
  BY <1>2 DEF Typed, Chain, LayersOK, Leaves
<1>4. /\ Len(s) \in Nat \ {0} /\ Popped(s)[1] = Len(s) /\ Len(Popped(s)[2]) = Len(s) - 1
      /\ \A i \in 1..(Len(s) - 1) : Popped(s)[2][i] = i
  <2>1. /\ Popped(s)[1] = s[Len(s)] /\ Len(Popped(s)[2]) = Len(s) - 1
        /\ \A i \in 1..(Len(s) - 1) : Popped(s)[2][i] = s[i]
        /\ Len(s) \in Nat \ {0}
    BY <1>3, PoppedLayer
  <2>2. Len(s) \in 1..Len(s) /\ s[Len(s)] = Len(s)
    <3>1. Len(s) \in 1..Len(s)
      BY <2>1
    <3> QED
      BY <1>3, <3>1
  <2>3. ASSUME NEW i \in 1..(Len(s) - 1) PROVE Popped(s)[2][i] = i
    <3>1. i \in 1..Len(s)
      BY <2>1
    <3> QED
      BY <1>3, <2>1, <3>1
  <2> QED
    BY <2>1, <2>2, <2>3
<1>5. PICK x : x = [layer |-> Popped(s)[1], saw |-> chain[c].error, own |-> own]
  OBVIOUS
<1>6. x.layer = Len(s) /\ x.saw = chain[c].error /\ x.own = own
  BY <1>4, <1>5
<1>7. exits'[c] = Append(exits[c], x) /\ chain'[c].entered = Popped(s)[2] /\ chain'[c].pc = "exit"
        /\ chain'[c].error = e
  BY <1>2, <1>5 DEF Leaves
<1>8. /\ exits[c] \in Seq(ExitRecord) /\ Len(exits[c]) \in Nat
      /\ Len(exits'[c]) = Len(exits[c]) + 1 /\ exits'[c][Len(exits[c]) + 1] = x
      /\ \A i \in 1..Len(exits[c]) : exits'[c][i] = exits[c][i]
  BY <1>7 DEF Typed
<1>9. LayersOK(c)'
  <2>1. \A i \in 1..Len(chain'[c].entered) : chain'[c].entered[i] = i
    BY <1>4, <1>7
  <2>2. ASSUME NEW i \in 1..Len(exits'[c])
        PROVE  exits'[c][i].layer = Len(chain'[c].entered) + Len(exits'[c]) - i + 1
    <3>0. PICK k \in Nat, m \in Nat : k = Len(exits[c]) /\ m = Len(s)
      BY <1>4, <1>8
    <3>1. PICK p, q, layer : /\ p = Len(chain'[c].entered) /\ q = Len(exits'[c])
                             /\ layer = exits'[c][i].layer
      OBVIOUS
    <3>2. p = m - 1
      <4>1. p = Len(s) - 1
        BY <1>4, <1>7, <3>1
      <4> QED
        BY <3>0, <4>1
    <3>3. q = k + 1
      BY <1>8, <3>0, <3>1
    <3>4. i \in 1..(k + 1)
      BY <3>1, <3>3
    <3>5. layer = m + k - i + 1
      <4>1. CASE i = k + 1
        <5>1. exits'[c][i] = x
          BY <1>8, <3>0, <4>1
        <5>2. layer = m
          BY <1>6, <3>0, <3>1, <5>1
        <5> QED
          BY <3>4, <4>1, <5>2
      <4>2. CASE i \in 1..k
        <5>1. i \in 1..Len(exits[c])
          BY <3>0, <4>2
        <5>2. exits[c][i].layer = Len(s) + Len(exits[c]) - i + 1
          BY <1>2, <5>1 DEF LayersOK
        <5>3. exits'[c][i] = exits[c][i]
          BY <1>8, <5>1
        <5>4. layer = Len(s) + Len(exits[c]) - i + 1
          BY <3>1, <5>2, <5>3
        <5> QED
          BY <3>0, <5>4
      <4> QED
        BY <3>4, <4>1, <4>2
    <3>6. layer = p + q - i + 1
      BY <3>2, <3>3, <3>4, <3>5
    <3> QED
      BY <3>1, <3>6
  <2> QED
    BY <1>7, <2>1, <2>2 DEF LayersOK
<1>10. Stands(c)'
  <2> SUFFICES ASSUME NEW n \in 1..Len(exits'[c]), exits'[c][n].saw # NoError
               PROVE  /\ LeftBy(c, n)' # NoError
                      /\ (exits'[c][n].saw.by = Caller /\ ~exits'[c][n].own)
                            => LeftBy(c, n)' = exits'[c][n].saw
    BY DEF Stands
  <2>1. CASE n = Len(exits[c]) + 1
    <3>1. LeftBy(c, n)' = e
      BY <1>7, <1>8, <2>1 DEF LeftBy
    <3>2. exits'[c][n] = x
      BY <1>8, <2>1
    <3> QED
      BY <1>6, <3>1, <3>2 DEF Leaves
  <2>2. CASE n \in 1..Len(exits[c])
    <3>1. LeftBy(c, n)' = LeftBy(c, n)
      <4>1. CASE n = Len(exits[c])
        <5>1. exits'[c][n + 1].saw = chain[c].error /\ n < Len(exits'[c])
          BY <1>6, <1>8, <4>1
        <5> QED
          BY <1>8, <4>1, <5>1 DEF LeftBy
      <4>2. CASE n < Len(exits[c])
        <5>1. exits'[c][n + 1].saw = exits[c][n + 1].saw /\ n < Len(exits'[c])
          BY <1>8, <2>2, <4>2
        <5> QED
          BY <4>2, <5>1 DEF LeftBy
      <4> QED
        BY <1>8, <2>2, <4>1, <4>2
    <3>2. exits'[c][n] = exits[c][n]
      BY <1>8, <2>2
    <3> QED
      BY <2>2, <3>1, <3>2 DEF Stands
  <2> QED
    BY <1>8, <2>1, <2>2
<1> QED
  BY <1>1, <1>9, <1>10

-----------------------------------------------------------------------------
(* The caller's cancellation keeps its name                                *)

LEMMA OwnKept ==
    ASSUME Typed, Keeps, UNCHANGED world, NEW c \in Chains, NEW e, OwnError(c, e),
           chain'[c].error = e
    PROVE  OwnError(c, chain[c].error)'
<1>1. TaskOf(c)' = TaskOf(c) /\ TaskOf(c) \in Chains
  BY TaskOfTyped DEF TaskOf, world
<1> QED
  BY <1>1 DEF OwnError, Keeps

LEMMA OwnErrorsKept ==
    ASSUME Typed, OwnErrors, Keeps, UNCHANGED world, NEW c \in Chains,
           \A d \in Chains \ {c} : chain'[d].error = chain[d].error,
           chain'[c].error = chain[c].error \/ OwnError(c, chain'[c].error)
    PROVE  OwnErrors'
<1>1. ASSUME NEW d \in Chains PROVE OwnError(d, chain[d].error)'
  <2>1. PICK e : e = chain'[d].error
    OBVIOUS
  <2>2. OwnError(d, e)
    <3>1. OwnError(d, chain[d].error)
      BY DEF OwnErrors
    <3>2. CASE chain'[d].error = chain[d].error
      BY <2>1, <3>1, <3>2
    <3>3. CASE d = c /\ OwnError(c, chain'[c].error)
      BY <2>1, <3>3
    <3> QED
      BY <3>2, <3>3
  <2> QED
    BY <2>1, <2>2, OwnKept
<1> QED
  BY <1>1 DEF OwnErrors

-----------------------------------------------------------------------------
(* The handlers are accounted for                                          *)

LEMMA HandlersSame ==
    ASSUME Typed, targets' = targets, \A h \in Handlers : chain'[h] = chain[h]
    PROVE  /\ Failed' = Failed /\ (Stopped' <=> Stopped)
           /\ \A h \in Handlers : (Done(h)' <=> Done(h)) /\ (Running(h)' <=> Running(h))
           /\ \A h \in Handlers : (Propagates(h)' <=> Propagates(h))
<1>1. targets \subseteq Handlers
  BY DEF Typed
<1>2. \A h \in Handlers : /\ (Done(h)' <=> Done(h)) /\ (Running(h)' <=> Running(h))
                           /\ (Propagates(h)' <=> Propagates(h))
  BY DEF Done, Running, Propagates
<1>3. Failed' = Failed
  BY <1>1, <1>2 DEF Failed
<1>4. Failed \subseteq Handlers
  BY <1>1 DEF Failed
<1> QED
  BY <1>2, <1>3, <1>4 DEF Stopped

\* The emit's own chain moves on.
LEMMA FanEmitter ==
    ASSUME Typed, FanOK, EmissionAssumption, targets' = targets, UNCHANGED world,
           \A h \in Handlers : chain'[h] = chain[h],
           \/ chain[Emitter].pc \in {"idle", "enter"} /\ chain'[Emitter].pc \in {"enter", "call"}
           \/ /\ chain[Emitter].pc \in {"idle", "enter", "call"}
              /\ chain'[Emitter].pc \in Slots \cup {"exit", "done"}
           \/ /\ chain[Emitter].pc = "waiting" /\ chain'[Emitter].pc = "cancelling"
              /\ pattern = "pubsub"
           \/ /\ chain'[Emitter].pc \in Slots \cup {"exit"}
              /\ \A h \in targets : Done(h) \/ (chain[h].pc = "queued" /\ Stopped)
              /\ chain'[Emitter].pc = "success" => Failed = {}
              /\ chain'[Emitter].pc = "failure" /\ targets # {} =>
                    Failed # {} /\ \A h \in Failed : ~Propagates(h)
           \/ /\ chain[Emitter].pc \in Slots \cup {"exit"}
              /\ chain'[Emitter].pc \in {chain[Emitter].pc, "complete", "exit", "done"}
           \/ chain'[Emitter].pc = chain[Emitter].pc
    PROVE  FanOK'
<1>1. /\ Failed' = Failed /\ (Stopped' <=> Stopped)
      /\ \A h \in Handlers : (Done(h)' <=> Done(h)) /\ (Running(h)' <=> Running(h))
      /\ \A h \in Handlers : (Propagates(h)' <=> Propagates(h))
  BY HandlersSame
<1>2. targets \subseteq Handlers /\ Failed \subseteq targets
  BY DEF Typed, Failed
<1>3. \A h \in Handlers \ targets' : chain'[h].pc = "idle"
  BY DEF FanOK
<1>4. chain'[Emitter].pc \in {"idle", "enter", "call"} => targets' = {}
  BY DEF FanOK, Slots
<1>5. chain'[Emitter].pc \in {"waiting", "cancelling"} => pattern # "other"
  BY DEF FanOK, Slots
<1>6. pattern = "request" =>
          /\ chain'[Emitter].pc # "cancelling"
          /\ targets' = {} \/ \E x \in Handlers : targets' = {x}
          /\ chain'[Emitter].pc = "waiting" => targets' # {}
  BY DEF FanOK, Slots
<1>7. chain'[Emitter].pc \in Slots \cup {"exit", "done"} =>
          \A h \in targets : Done(h) \/ (chain[h].pc = "queued" /\ Stopped)
  BY DEF FanOK, Slots
<1>8. chain'[Emitter].pc = "success" => Failed = {}
  BY <1>2 DEF FanOK, Slots
<1>9. (chain'[Emitter].pc = "failure" /\ targets # {}) =>
          Failed # {} /\ \A h \in Failed : ~Propagates(h)
  BY DEF FanOK, Slots
<1>10. (bus = "sync" /\ pattern = "pubsub") =>
          \A h \in targets : Running(h) =>
              ~Stopped /\ \A g \in targets \ {h} : ~Running(g)
  BY DEF FanOK
<1>11. bus' = bus /\ pattern' = pattern
  BY DEF world
<1>12. \A h \in targets' : h \in Handlers /\ chain'[h] = chain[h]
  BY <1>2
<1>13. /\ chain'[Emitter].pc \in Slots \cup {"exit", "done"} =>
            \A h \in targets' : Done(h)' \/ (chain'[h].pc = "queued" /\ Stopped')
       /\ chain'[Emitter].pc = "success" => Failed' = {}
       /\ (chain'[Emitter].pc = "failure" /\ targets' # {}) =>
            Failed' # {} /\ \A h \in Failed' : ~Propagates(h)'
  BY <1>1, <1>2, <1>7, <1>8, <1>9, <1>12
<1>14. (bus' = "sync" /\ pattern' = "pubsub") =>
          \A h \in targets' : Running(h)' =>
              ~Stopped' /\ \A g \in targets' \ {h} : ~Running(g)'
  BY <1>1, <1>2, <1>10, <1>11
<1> QED
  BY <1>3, <1>4, <1>5, <1>6, <1>11, <1>13, <1>14 DEF FanOK

\* A handler's chain moves on.
LEMMA FanHandler ==
    ASSUME Typed, FanOK, EmissionAssumption, targets' = targets, UNCHANGED world,
           NEW h \in Handlers, \A d \in Chains \ {h} : chain'[d] = chain[d],
           chain[h].pc \notin {"idle", "done"}, chain'[h].pc # "queued",
           chain[h].pc = "queued" =>
              /\ chain[Emitter].pc = "waiting" /\ ~Stopped /\ chain'[h].pc # "done"
              /\ \A g \in targets : Done(g) \/ chain[g].pc = "queued"
    PROVE  FanOK'
<1>1. h \in targets /\ h # Emitter /\ Emitter \in Chains /\ Handlers \subseteq Chains
        /\ targets \subseteq Handlers
  BY DEF FanOK, EmissionAssumption, Chains, Typed
<1>2. ~Done(h)
  BY DEF Done
<1>3. chain[Emitter].pc \notin {"idle", "enter", "call"} \cup Slots \cup {"exit", "done"}
  BY <1>1, <1>2 DEF FanOK, Slots
<1>4. chain'[Emitter] = chain[Emitter] /\ bus' = bus /\ pattern' = pattern
  BY <1>1 DEF world
<1>5. \A g \in Handlers \ {h} : chain'[g] = chain[g]
  BY <1>1
<1>6. \A g \in Handlers \ {h} : /\ (Done(g)' <=> Done(g)) /\ (Running(g)' <=> Running(g))
                                 /\ (Propagates(g)' <=> Propagates(g))
  BY <1>5 DEF Done, Running, Propagates
<1>7. \A g \in Handlers \ targets' : chain'[g].pc = "idle"
  BY <1>1, <1>5 DEF FanOK
<1>8. ASSUME bus = "sync", pattern = "pubsub", NEW g \in targets, Running(g)'
      PROVE  ~Stopped' /\ \A k \in targets \ {g} : ~Running(k)'
  <2>1. ~Stopped /\ \A k \in targets \ {h} : ~Running(k)
    <3>1. CASE chain[h].pc = "queued"
      BY <3>1 DEF Running
    <3>2. CASE chain[h].pc # "queued"
      <4>1. Running(h)
        BY <1>2, <3>2 DEF Running
      <4> QED
        BY <1>1, <1>8, <4>1 DEF FanOK
    <3> QED
      BY <3>1, <3>2
  <2>2. g = h
    BY <1>1, <1>6, <1>8, <2>1
  <2>3. ~Done(h)'
    BY <1>8, <2>2 DEF Running
  <2>4. ASSUME Stopped' PROVE FALSE
    <3>1. PICK k \in Failed' : Propagates(k)'
      BY <2>4 DEF Stopped
    <3>2. k \in targets /\ Done(k)' /\ k # h
      BY <2>3, <3>1 DEF Failed
    <3>3. chain'[k] = chain[k] /\ Done(k) /\ Propagates(k)
      BY <1>1, <1>5, <1>6, <3>1, <3>2
    <3>4. k \in Failed
      BY <3>1, <3>2, <3>3 DEF Failed
    <3> QED
      BY <2>1, <3>3, <3>4 DEF Stopped
  <2> QED
    BY <1>1, <1>6, <2>1, <2>2, <2>4
<1>9. /\ chain'[Emitter].pc \notin {"idle", "enter", "call"} \cup Slots \cup {"exit", "done"}
      /\ chain'[Emitter].pc \in {"waiting", "cancelling"} => pattern # "other"
      /\ pattern = "request" =>
          /\ chain'[Emitter].pc # "cancelling"
          /\ targets' = {} \/ \E x \in Handlers : targets' = {x}
          /\ chain'[Emitter].pc = "waiting" => targets' # {}
  BY <1>3, <1>4 DEF FanOK
<1>10. (bus' = "sync" /\ pattern' = "pubsub") =>
          \A g \in targets' : Running(g)' =>
              ~Stopped' /\ \A k \in targets' \ {g} : ~Running(k)'
  BY <1>4, <1>8
<1> QED
  BY <1>4, <1>7, <1>9, <1>10 DEF FanOK, Slots

\* The dispatch starts.
LEMMA FanStarts ==
    ASSUME Typed, FanOK, EmissionAssumption, NEW pc \in {"enter", "queued"}, Starts(pc),
           chain[Emitter].pc = "call", pattern # "other",
           bus = "sync" /\ pattern = "pubsub" => pc = "queued",
           pattern = "request" => \E x \in Handlers : registered = {x}
    PROVE  FanOK'
<1>1. \A h \in Handlers : chain[h].pc = "idle"
  BY DEF FanOK
<1>2. /\ targets' = registered /\ chain'[Emitter].pc = "waiting" /\ bus' = bus /\ pattern' = pattern
      /\ registered \subseteq Handlers
      /\ \A h \in Handlers : chain'[h].pc = IF h \in registered THEN pc ELSE "idle"
  BY <1>1 DEF Starts, Typed, world
<1>3. bus = "sync" /\ pattern = "pubsub" => \A h \in registered : ~Running(h)'
  BY <1>2 DEF Running
<1> QED
  BY <1>2, <1>3 DEF FanOK, Slots

-----------------------------------------------------------------------------
(* The inductive invariant                                                 *)

EmissionInv ==
    /\ Typed /\ TaskOK /\ OwnErrors /\ FanOK
    /\ \A c \in Chains : LayersOK(c) /\ Stands(c)

LEMMA InvInit == ASSUME EmissionAssumption, EmissionInit PROVE EmissionInv
<1>1. \A c \in Chains : chain[c] = Idle /\ exits[c] = <<>> /\ task[c] = [by |-> {}, due |-> FALSE]
  BY DEF EmissionInit
<1>2. Idle.pc = "idle" /\ Idle.entered = <<>> /\ Idle.error = NoError /\ Idle.todo = 0
  BY DEF Idle
<1>3. Idle \in Chain
  BY NoErrorIsTyped DEF Idle, Chain, PCs
<1>4. [by |-> {}, due |-> FALSE] \in Task
  BY DEF Task
<1>5. Typed
  <2>1. chain \in [Chains -> Chain]
    BY <1>3 DEF EmissionInit
  <2>2. exits \in [Chains -> Seq(ExitRecord)]
    BY DEF EmissionInit
  <2>3. task \in [Chains -> Task]
    BY <1>4 DEF EmissionInit
  <2> QED
    BY <2>1, <2>2, <2>3 DEF Typed, EmissionInit
<1>6. TaskOK
  BY <1>1 DEF TaskOK
<1>7. OwnErrors
  BY <1>1, <1>2, NoErrorIsTyped, CallersName DEF OwnErrors, OwnError
<1>8. FanOK
  <2>1. targets = {} /\ Emitter \in Chains /\ Handlers \subseteq Chains
    BY DEF EmissionInit, Chains
  <2> QED
    BY <1>1, <1>2, <2>1 DEF FanOK, Slots
<1>9. \A c \in Chains : LayersOK(c) /\ Stands(c)
  <2> SUFFICES ASSUME NEW c \in Chains PROVE LayersOK(c) /\ Stands(c)
    OBVIOUS
  <2>1. exits[c] = <<>> /\ Len(exits[c]) = 0 /\ chain[c].entered = <<>> /\ Len(chain[c].entered) = 0
    BY <1>1, <1>2
  <2> QED
    BY <1>1, <1>2, <2>1 DEF LayersOK, Stands
<1> QED
  BY <1>5, <1>6, <1>7, <1>8, <1>9 DEF EmissionInv

\* The emitter's chain, or a handler's, moves on before its first exit.
LEMMA InvAdvance ==
    ASSUME EmissionAssumption, EmissionInv, NEW c \in Chains, Advances(c),
           chain[c].pc \notin {"exit", "done"}, chain'[c].pc # "idle",
           chain'[c].pc = "done" => chain'[c].entered = <<>>, FanOK'
    PROVE  EmissionInv'
<1>1. Typed' /\ TaskOK' /\ Keeps /\ UNCHANGED world
  BY DEF Advances, Calm
<1>2. OwnErrors'
  BY <1>1, OwnErrorsKept DEF EmissionInv, Advances
<1>3. \A d \in Chains : LayersOK(d)' /\ Stands(d)'
  BY LayersAdvance DEF EmissionInv
<1> QED
  BY <1>1, <1>2, <1>3 DEF EmissionInv

\* A step of a handler's chain that starts before its end.
LEMMA InvHandler ==
    ASSUME EmissionAssumption, EmissionInv, NEW h \in Handlers, Advances(h),
           chain[h].pc \notin {"idle", "queued", "exit", "done"},
           chain'[h].pc \notin {"idle", "queued", "done"}
    PROVE  EmissionInv'
<1>1. h \in Chains
  BY DEF Chains
<1>2. FanOK'
  BY FanHandler DEF EmissionInv, Advances, Calm
<1> QED
  BY <1>1, <1>2, InvAdvance

\* A step of the emitter's chain other than one that starts the dispatch.
LEMMA EmitterAlone ==
    ASSUME EmissionAssumption, Advances(Emitter)
    PROVE  \A h \in Handlers : chain'[h] = chain[h]
BY DEF EmissionAssumption, Advances, Chains

\* The common steps of all chains.
LEMMA InvChain ==
    ASSUME EmissionAssumption, EmissionInv, NEW c \in Chains, ChainStep(c)
    PROVE  EmissionInv'
<1> USE DEF EmissionInv
<1>0. c = Emitter \/ c \in Handlers
  BY DEF Chains
<1>1. CASE Enter(c)
  <2>1. Advances(c) /\ chain'[c].pc \in {"enter", "exit"} /\ chain[c].pc = "enter"
    BY <1>1, EnterEffect DEF Enter
  <2>2. CASE c = Emitter
    <3>1. FanOK'
      BY <2>1, <2>2, EmitterAlone, FanEmitter DEF Advances, Calm
    <3> QED
      BY <2>1, <3>1, InvAdvance
  <2> QED
    BY <1>0, <2>1, <2>2, InvHandler
<1>2. CASE Before(c)
  <2>1. Advances(c) /\ chain'[c].pc \in {"call", "exit"} /\ chain[c].pc = "enter"
    BY <1>2, BeforeEffect DEF Before
  <2>2. CASE c = Emitter
    <3>1. FanOK'
      BY <2>1, <2>2, EmitterAlone, FanEmitter DEF Advances, Calm
    <3> QED
      BY <2>1, <3>1, InvAdvance
  <2> QED
    BY <1>0, <2>1, <2>2, InvHandler
<1>3. CASE Observe(c)
  <2>1. /\ Advances(c) /\ chain'[c].pc \in {chain[c].pc, "complete", "exit"}
        /\ chain[c].pc \in Slots
    BY <1>3, ObserveEffect DEF Observe
  <2>2. chain[c].pc \notin {"idle", "queued", "exit", "done"}
          /\ chain'[c].pc \notin {"idle", "queued", "done"}
    BY <2>1 DEF Slots
  <2>3. CASE c = Emitter
    <3>1. FanOK'
      BY <2>1, <2>3, EmitterAlone, FanEmitter DEF Advances, Calm
    <3> QED
      BY <2>1, <2>2, <3>1, InvAdvance
  <2> QED
    BY <1>0, <2>1, <2>2, <2>3, InvHandler
<1>4. CASE Exit(c)
  <2>1. PICK e \in Errors, own \in BOOLEAN : Leaves(c, e, own)
    BY <1>4, ExitEffect
  <2>2. \A d \in Chains : LayersOK(d)' /\ Stands(d)'
    BY <2>1, LayersLeave
  <2>3. Typed' /\ TaskOK' /\ Keeps /\ UNCHANGED <<world, targets>> /\ chain'[c].error = e
          /\ OwnError(c, e) /\ \A d \in Chains \ {c} : chain'[d] = chain[d]
    BY <2>1 DEF Leaves
  <2>4. OwnErrors'
    BY <2>3, OwnErrorsKept
  <2>5. chain[c].pc = "exit" /\ chain'[c].pc = "exit"
    BY <2>1 DEF Leaves
  <2>6. FanOK'
    <3>1. CASE c = Emitter
      <4>1. \A h \in Handlers : chain'[h] = chain[h]
        BY <2>3, <3>1 DEF EmissionAssumption, Chains
      <4> QED
        BY <2>3, <2>5, <3>1, <4>1, FanEmitter
    <3>2. CASE c \in Handlers
      BY <2>3, <2>5, <3>2, FanHandler
    <3> QED
      BY <1>0, <3>1, <3>2
  <2> QED
    BY <2>2, <2>3, <2>4, <2>6
<1>5. CASE Exited(c)
  <2>1. /\ Advances(c) /\ chain'[c].pc = "done" /\ chain'[c].error = chain[c].error
        /\ chain[c].entered = <<>> /\ chain'[c].entered = <<>> /\ chain[c].pc = "exit"
    BY <1>5, ExitedEffect DEF Exited
  <2>2. \A d \in Chains : LayersOK(d)' /\ Stands(d)'
    BY <2>1, LayersExited
  <2>3. Typed' /\ TaskOK' /\ Keeps /\ UNCHANGED <<world, targets>>
          /\ \A d \in Chains \ {c} : chain'[d] = chain[d]
    BY <2>1 DEF Advances, Calm
  <2>4. OwnErrors'
    BY <2>1, <2>3, OwnErrorsKept
  <2>5. FanOK'
    <3>1. CASE c = Emitter
      BY <2>1, <2>3, <3>1, EmitterAlone, FanEmitter
    <3>2. CASE c \in Handlers
      BY <2>1, <2>3, <3>2, FanHandler
    <3> QED
      BY <1>0, <3>1, <3>2
  <2> QED
    BY <2>2, <2>3, <2>4, <2>5
<1> QED
  BY <1>1, <1>2, <1>3, <1>4, <1>5 DEF ChainStep

LEMMA InvStarts ==
    ASSUME EmissionAssumption, EmissionInv, NEW pc \in {"enter", "queued"}, Starts(pc),
           chain[Emitter].pc = "call", pattern # "other",
           bus = "sync" /\ pattern = "pubsub" => pc = "queued",
           pattern = "request" => \E x \in Handlers : registered = {x}
    PROVE  EmissionInv'
<1>1. FanOK'
  BY FanStarts DEF EmissionInv
<1>2. \A h \in Handlers : chain[h].pc = "idle"
  BY DEF EmissionInv, FanOK
<1>3. \A d \in Chains : LayersOK(d)' /\ Stands(d)'
  BY <1>2, LayersStart DEF EmissionInv
<1>4. Typed' /\ UNCHANGED <<world, task>> /\ \A c \in Chains : chain'[c].error = chain[c].error
  BY DEF Starts
<1>5. TaskOK' /\ Keeps
  BY <1>4 DEF EmissionInv, TaskOK, Keeps, world
<1>6. OwnErrors'
  <2>1. Emitter \in Chains
    BY DEF Chains
  <2> QED
    BY <1>4, <1>5, <2>1, OwnErrorsKept DEF EmissionInv
<1> QED
  BY <1>1, <1>3, <1>4, <1>5, <1>6 DEF EmissionInv

LEMMA InvEmitter ==
    ASSUME EmissionAssumption, EmissionInv, Emit \/ EmitterStep
    PROVE  EmissionInv'
<1> USE DEF EmissionInv
<1>0. Emitter \in Chains
  BY DEF Chains
<1>1. CASE Emit
  <2>1. /\ Advances(Emitter) /\ chain'[Emitter].pc \in {"enter", "done"} /\ chain[Emitter].pc = "idle"
        /\ chain'[Emitter].entered = chain[Emitter].entered
    BY <1>1, EmitEffect DEF Emit
  <2>2. chain'[Emitter].entered = <<>>
    BY <1>0, <2>1 DEF LayersOK
  <2>3. FanOK'
    BY <2>1, EmitterAlone, FanEmitter DEF Advances, Calm
  <2> QED
    BY <1>0, <2>1, <2>2, <2>3, InvAdvance
<1>2. CASE FanOut
  BY <1>2, FanOutEffect, InvStarts DEF FanOut
<1>3. CASE RequestCall /\ Responders(registered)
  BY <1>3, RequestCallEffect, InvStarts DEF RequestCall
<1>4. CASE RequestCall /\ ~Responders(registered)
  <2>1. /\ Advances(Emitter) /\ chain'[Emitter].pc \in {"failure", "exit"}
        /\ chain[Emitter].pc = "call"
    BY <1>4, NotOneResponder DEF RequestCall
  <2>2. chain'[Emitter].pc \in Slots \cup {"exit", "done"}
    BY <2>1 DEF Slots
  <2>3. FanOK'
    BY <2>1, <2>2, EmitterAlone, FanEmitter DEF Advances, Calm
  <2> QED
    BY <1>0, <2>1, <2>3, InvAdvance
<1>5. CASE Dispatched
  <2>1. /\ Advances(Emitter) /\ chain'[Emitter].pc \in Slots \cup {"exit"}
        /\ chain'[Emitter].pc = "success" => Failed = {}
        /\ chain'[Emitter].pc = "failure" /\ targets # {} =>
                 Failed # {} /\ \A h \in Failed : ~Propagates(h)
        /\ \A h \in targets : Done(h)
    BY <1>5, DispatchedEffect
  <2>2. chain[Emitter].pc \in {"waiting", "cancelling"}
    BY <1>5 DEF Dispatched
  <2>3. FanOK'
    BY <2>1, EmitterAlone, FanEmitter DEF Advances, Calm
  <2>4. chain'[Emitter].pc \notin {"idle", "done"}
    BY <2>1 DEF Slots
  <2> QED
    BY <1>0, <2>1, <2>2, <2>3, <2>4, InvAdvance
<1>6. CASE CancelGather
  <2>1. /\ Advances(Emitter) /\ chain'[Emitter].pc = "cancelling"
        /\ chain[Emitter].pc = "waiting" /\ pattern = "pubsub"
    BY <1>6, CancelGatherEffect DEF CancelGather
  <2>2. FanOK'
    BY <2>1, EmitterAlone, FanEmitter DEF Advances, Calm
  <2> QED
    BY <1>0, <2>1, <2>2, InvAdvance
<1> QED
  BY <1>1, <1>2, <1>3, <1>4, <1>5, <1>6 DEF EmitterStep

LEMMA InvHandlers ==
    ASSUME EmissionAssumption, EmissionInv, NEW h \in Handlers, HandlerStep(h)
    PROVE  EmissionInv'
<1> USE DEF EmissionInv
<1>0. Emitter \in Chains /\ h \in Chains
  BY DEF Chains
<1>1. CASE Handle(h)
  <2>1. Advances(h) /\ chain'[h].pc \in Slots \cup {"exit"} /\ chain[h].pc = "call"
    BY <1>1, HandleEffect DEF Handle
  <2>2. chain'[h].pc \notin {"idle", "queued", "done"}
    BY <2>1 DEF Slots
  <2> QED
    BY <2>1, <2>2, InvHandler
<1>2. CASE FanOutNext(h)
  <2>1. /\ Advances(h) /\ chain'[h].pc = "enter" /\ chain[h].pc = "queued"
        /\ chain[Emitter].pc = "waiting" /\ ~Stopped
        /\ \A g \in targets : Done(g) \/ chain[g].pc = "queued"
    BY <1>2, FanOutNextEffect DEF FanOutNext, Stopped
  <2>2. FanOK'
    BY <2>1, FanHandler DEF Advances, Calm
  <2> QED
    BY <1>0, <2>1, <2>2, InvAdvance
<1>3. CASE FanOutRaises(h)
  <2>1. /\ Advances(Emitter) /\ chain'[Emitter].pc \in {"complete", "exit"}
        /\ chain[Emitter].pc = "waiting"
    BY <1>3, FanOutRaisesEffect DEF FanOutRaises
  <2>2. Stopped /\ bus = "sync" /\ pattern = "pubsub"
    BY <1>3 DEF FanOutRaises, Stopped
  <2>3. \A g \in targets : ~Running(g)
    BY <2>2 DEF FanOK
  <2>4. \A g \in targets : Done(g) \/ (chain[g].pc = "queued" /\ Stopped)
    BY <2>2, <2>3 DEF Running
  <2>5. chain'[Emitter].pc \in Slots \cup {"exit"}
          /\ chain'[Emitter].pc \notin {"success", "failure", "idle", "done"}
    BY <2>1 DEF Slots
  <2>6. FanOK'
    BY <2>1, <2>4, <2>5, EmitterAlone, FanEmitter DEF Advances, Calm
  <2> QED
    BY <1>0, <2>1, <2>5, <2>6, InvAdvance
<1> QED
  BY <1>1, <1>2, <1>3 DEF HandlerStep

\* Steps that leave every chain and its exits as they are.
LEMMA InvStill ==
    ASSUME EmissionAssumption, EmissionInv, Typed', TaskOK', Keeps,
           UNCHANGED <<world, targets, chain, exits>>
    PROVE  EmissionInv'
<1>1. Emitter \in Chains
  BY DEF Chains
<1>2. OwnErrors'
  BY <1>1, OwnErrorsKept DEF EmissionInv
<1>3. FanOK'
  BY FanEmitter DEF EmissionInv
<1>4. \A c \in Chains : LayersOK(c)' /\ Stands(c)'
  BY SameLayers DEF EmissionInv
<1> QED
  BY <1>2, <1>3, <1>4 DEF EmissionInv

LEMMA InvNext ==
    ASSUME EmissionAssumption, EmissionInv, [EmissionNext]_emissionVars
    PROVE  EmissionInv'
<1>1. CASE Emit \/ EmitterStep
  BY <1>1, InvEmitter
<1>2. CASE Cancel \/ \E c \in Chains : TimeOut(c)
  BY <1>2, CancelEffect, InvStill DEF EmissionInv, Calm
<1>3. ASSUME NEW c \in Chains, ChainStep(c) PROVE EmissionInv'
  BY <1>3, InvChain
<1>4. ASSUME NEW h \in Handlers, HandlerStep(h) PROVE EmissionInv'
  BY <1>4, InvHandlers
<1>5. ASSUME NEW h \in Handlers, RegisterHandler(h) \/ RemoveHandler(h) PROVE EmissionInv'
  <2>1. /\ registered' \subseteq Handlers
        /\ UNCHANGED <<world, targets, chain, exits, task>>
    BY <1>5 DEF RegisterHandler, RemoveHandler, EmissionInv, Typed
  <2>2. Typed' /\ TaskOK' /\ Keeps
    BY <2>1 DEF EmissionInv, Typed, TaskOK, Keeps, world
  <2> QED
    BY <2>1, <2>2, InvStill
<1>6. CASE UNCHANGED emissionVars
  <2>1. UNCHANGED <<world, registered, targets, chain, exits, task>>
    BY <1>6 DEF emissionVars, world
  <2>2. Typed' /\ TaskOK' /\ Keeps
    BY <2>1 DEF EmissionInv, Typed, TaskOK, Keeps, world
  <2> QED
    BY <2>1, <2>2, InvStill
<1> QED
  BY <1>1, <1>2, <1>3, <1>4, <1>5, <1>6 DEF EmissionNext

-----------------------------------------------------------------------------
(* The theorems                                                            *)

THEOREM Invariant == EmissionSpec => []EmissionInv
<1>1. EmissionInit => EmissionInv
  BY EmissionAssumption, InvInit
<1>2. EmissionInv /\ [EmissionNext]_emissionVars => EmissionInv'
  BY EmissionAssumption, InvNext
<1> QED
  BY <1>1, <1>2, PTL DEF EmissionSpec

\* Middleware is exited innermost first and once each, around the emit and around every
\* handler, whatever is raised or cancelled where.
THEOREM UnwindsInOrder == EmissionSpec => []UnwoundInnermostFirst
<1>1. ASSUME EmissionInv PROVE UnwoundInnermostFirst
  <2> SUFFICES ASSUME NEW c \in Chains
               PROVE  /\ \A i, j \in DOMAIN exits[c] :
                            i < j => exits[c][i].layer > exits[c][j].layer
                      /\ Done(c) => Len(exits[c]) = (IF exits[c] = <<>> THEN 0 ELSE exits[c][1].layer)
    BY DEF UnwoundInnermostFirst
  <2>1. /\ LayersOK(c) /\ exits[c] \in Seq(ExitRecord) /\ DOMAIN exits[c] = 1..Len(exits[c])
        /\ Len(exits[c]) \in Nat
    BY <1>1 DEF EmissionInv, Typed
  <2>2. PICK k \in Nat, n \in Nat : k = Len(exits[c]) /\ n = Len(chain[c].entered)
    <3>1. chain[c].entered \in Seq(Nat)
      BY <1>1 DEF EmissionInv, Typed, Chain
    <3> QED
      BY <2>1, <3>1
  <2>3. \A i \in 1..k : exits[c][i].layer = n + k - i + 1
    BY <2>1, <2>2 DEF LayersOK
  <2>4. \A i, j \in 1..k : i < j => exits[c][i].layer > exits[c][j].layer
    BY <2>3
  <2>5. ASSUME Done(c) PROVE k = (IF exits[c] = <<>> THEN 0 ELSE exits[c][1].layer)
    <3>1. n = 0
      BY <2>1, <2>2, <2>5 DEF LayersOK, Done
    <3>2. CASE k = 0
      BY <2>1, <2>2, <3>2
    <3>3. CASE k > 0
      <4>1. exits[c][1].layer = k
        BY <2>3, <3>1, <3>3
      <4> QED
        BY <2>1, <2>2, <3>3, <4>1
    <3> QED
      BY <3>2, <3>3
  <2> QED
    BY <2>1, <2>2, <2>4, <2>5
<1> QED
  BY <1>1, Invariant, PTL

\* No middleware makes a failed call succeed, and the caller's cancellation still cancels
\* unless a middleware raised an error of its own.
THEOREM ErrorsKept == EmissionSpec => []ErrorsStand
<1>1. ASSUME EmissionInv PROVE ErrorsStand
  <2>1. \A c \in Chains : Stands(c) /\ DOMAIN exits[c] = 1..Len(exits[c])
    BY <1>1 DEF EmissionInv, Typed
  <2> QED
    BY <2>1 DEF ErrorsStand, Stands
<1> QED
  BY <1>1, Invariant, PTL

\* The hooks of an emit observe what became of every handler it reached: none still runs, a
\* failed one fails the emit, and a failure that is no Exception is not reported as one.
THEOREM HandlersEndFirst == EmissionSpec => []HandlersAccounted
<1>1. ASSUME EmissionInv PROVE HandlersAccounted
  <2>1. FanOK
    BY <1>1 DEF EmissionInv
  <2>2. pattern = "request" => Cardinality(targets) <= 1
    <3>1. CASE targets = {}
      <4>1. Cardinality(targets) = 0
        BY <3>1, FS_EmptySet
      <4> QED
        BY <4>1
    <3>2. ASSUME NEW x \in Handlers, targets = {x} PROVE Cardinality(targets) <= 1
      <4>1. Cardinality(targets) = 1
        BY <3>2, FS_Singleton
      <4> QED
        BY <4>1
    <3> QED
      BY <2>1, <3>1, <3>2 DEF FanOK
  <2> QED
    BY <2>1, <2>2 DEF HandlersAccounted, FanOK, Stopped
<1> QED
  BY <1>1, Invariant, PTL
=============================================================================
