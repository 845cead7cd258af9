----------------------------- MODULE CloseStack -----------------------------
(***************************************************************************)
(* Closing the resources of an activation, last entered first              *)
(* (lifecycle/_stack.py): what each exit makes of the exception it is      *)
(* handed, what is recorded of it, and what the whole close ends in.  An   *)
(* error is its kind and the errors it stands for: itself, or the members  *)
(* of a group.  Tracebacks and messages are abstracted away.               *)
(***************************************************************************)
EXTENDS Integers, Sequences, SequencesExt

NoError == [kind |-> "none", of |-> {}]
Raised(kind, name) == [kind |-> kind, of |-> {name}]
IsException(e) == e.kind = "exception"  \* isinstance(e, Exception)

-----------------------------------------------------------------------------
(* One exit: the exception that propagates after it, or NoError            *)

Does == {"stops", "yields", "raises", "passes"}

\* _exit_generator: a generator that catches exc and returns suppresses it, one that yields
\* again is closed and reported.
ExitGenerator(does, own, exc) ==
    CASE does = "stops" -> NoError
      [] does = "yields" -> own
      [] does = "raises" -> own
      [] does = "passes" -> exc

\* _exit_sync of a context manager: a true __exit__ suppresses.
ExitManager(suppresses, exc) == IF suppresses THEN NoError ELSE exc

\* _exit_sync
ExitSync(own, exc) ==
    {ExitGenerator(does, own, exc) : does \in Does} \cup {ExitManager(s, exc) : s \in BOOLEAN}

\* _exit_async_generator and __aexit__: in its awaits it can also be cancelled.
ExitAsync(own, exc, cancelled) == ExitSync(own, exc) \cup cancelled

-----------------------------------------------------------------------------
(* The close                                                               *)

Untouched == [changed |-> FALSE, errors |-> <<>>]  \* pending is None

\* The start of close or aclose with n resources; `since` is a history: the errors raised since
\* the last one suppressed.
Stack(n, exc) == [left |-> n, exc |-> exc, received |-> exc, pending |-> Untouched,
                  since |-> exc.of]

\* Mutated form: the exception the exit was handed is forgotten.
Seed_Outcome(current, outcome) == <<outcome>>

\* _seed
Seed(current, outcome) == IF current = NoError THEN <<outcome>> ELSE <<current, outcome>>

\* _record
Record(pending, current, outcome) ==
    [changed |-> TRUE,
     errors |-> IF outcome = NoError THEN <<>>
                ELSE IF ~pending.changed THEN Seed(current, outcome)
                ELSE IF outcome \in ToSet(pending.errors) THEN pending.errors
                ELSE Append(pending.errors, outcome)]

\* One turn of the loop: an exit that ends in something else than it was handed is recorded.
Exited(stack, outcome) ==
    [stack EXCEPT
        !.left = @ - 1,
        !.exc = outcome,
        !.pending = IF outcome = stack.exc THEN @ ELSE Record(@, stack.exc, outcome),
        !.since = IF outcome = NoError THEN {} ELSE @ \cup outcome.of]

\* Several errors that are all Exceptions are CleanupErrors, others BaseCleanupErrors.
Group(errors) ==
    [kind |-> IF \A e \in errors : IsException(e) THEN "exception" ELSE "base",
     of |-> UNION {e.of : e \in errors}]

\* _settle, and the with statement around it: what propagates from the block in the end.
Settle(stack) ==
    LET errors == stack.pending.errors IN
    IF ~stack.pending.changed THEN stack.received
    ELSE IF errors = <<>> THEN NoError
    ELSE IF Len(errors) = 1 THEN errors[1]
    ELSE Group(ToSet(errors))
=============================================================================
