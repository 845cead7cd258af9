------------------------- MODULE OutboxTransactions -------------------------
(***************************************************************************)
(* Writing to an outbox: InMemoryOutboxStore.transaction and add of        *)
(* events/outbox.py.  Records emitted inside a transaction are staged in   *)
(* its list, reached through a ContextVar; a nested transaction hands its  *)
(* list to the one around it, the outermost to the store.  A task created  *)
(* inside a transaction runs in a copy of the context and stages in the    *)
(* same list.  Each step runs without an await, so it is atomic.           *)
(***************************************************************************)
EXTENDS FiniteSets

CONSTANTS
    Records,
    Contexts,       \* tasks: the first ones and those created inside a transaction
    Transactions,   \* bound: the transaction() blocks of one behaviour
    Structured,     \* does every task created inside a block end before the block
    None

VARIABLES
    kept,       \* the records the store has, in whatever status
    stagedVar,  \* the ContextVar _staged of each context: the list of a transaction, or None
    running,    \* the contexts that run
    staged,     \* the list of each transaction
    outer,      \* what transaction() found in the variable
    around,     \* the transaction itself and those around it
    owner,      \* the context the block runs in
    outcome,    \* "new", "open", then "clean" or "raised"
    emitted,    \* the records emitted
    within      \* the transactions each record was emitted inside

txVars == <<stagedVar, running, staged, outer, around, owner, outcome, emitted, within>>

\* The transactions code in context c runs inside, the innermost one's own included.
Around(c) == IF stagedVar[c] = None THEN {} ELSE around[stagedVar[c]]

TxInit ==
    /\ stagedVar = [c \in Contexts |-> None]
    /\ running = {}
    /\ staged = [t \in Transactions |-> {}]
    /\ outer = [t \in Transactions |-> None]
    /\ around = [t \in Transactions |-> {}]
    /\ owner = [t \in Transactions |-> None]
    /\ outcome = [t \in Transactions |-> "new"]
    /\ emitted = {}
    /\ within = [i \in Records |-> {}]

Run(c) ==
    /\ c \notin running
    /\ running' = running \cup {c}
    /\ UNCHANGED <<kept, stagedVar, staged, outer, around, owner, outcome, emitted, within>>

\* A task created in context c.
Fork(c, child) ==
    /\ c \in running /\ child \notin running
    /\ running' = running \cup {child}
    /\ stagedVar' = [stagedVar EXCEPT ![child] = stagedVar[c]]
    /\ UNCHANGED <<kept, staged, outer, around, owner, outcome, emitted, within>>

\* A task ends, all its own blocks left.
Finish(c) ==
    /\ c \in running
    /\ \A t \in Around(c) : ~(owner[t] = c /\ outcome[t] = "open")
    /\ running' = running \ {c}
    /\ stagedVar' = [stagedVar EXCEPT ![c] = None]
    /\ UNCHANGED <<kept, staged, outer, around, owner, outcome, emitted, within>>

Begin(c, t) ==
    /\ c \in running /\ outcome[t] = "new"
    /\ outer' = [outer EXCEPT ![t] = stagedVar[c]]
    /\ around' = [around EXCEPT ![t] = {t} \cup Around(c)]
    /\ owner' = [owner EXCEPT ![t] = c]
    /\ outcome' = [outcome EXCEPT ![t] = "open"]
    /\ stagedVar' = [stagedVar EXCEPT ![c] = t]
    /\ UNCHANGED <<kept, running, staged, emitted, within>>

Staging(t, S) == [staged EXCEPT ![t] = @ \cup S]

\* Mutated form: a write that overlooks the transaction.
Emit_Kept(c, i) ==
    /\ c \in running /\ i \notin emitted
    /\ emitted' = emitted \cup {i}
    /\ kept' = kept \cup {i}
    /\ within' = [within EXCEPT ![i] = Around(c)]
    /\ UNCHANGED <<stagedVar, running, staged, outer, around, owner, outcome>>

\* add: staged inside a transaction, kept straight away outside one.
Emit(c, i) ==
    /\ c \in running /\ i \notin emitted
    /\ emitted' = emitted \cup {i}
    /\ IF stagedVar[c] = None
       THEN kept' = kept \cup {i} /\ UNCHANGED <<staged, within>>
       ELSE /\ staged' = Staging(stagedVar[c], {i})
            /\ within' = [within EXCEPT ![i] = Around(c)]
            /\ UNCHANGED kept
    /\ UNCHANGED <<stagedVar, running, outer, around, owner, outcome>>

Inside(c, t) == stagedVar[c] = t /\ owner[t] = c /\ outcome[t] = "open"
AloneIn(c, t) == \A d \in Contexts \ {c} : t \notin Around(d)
\* Mutated form: the variable left at the ended block.
Reset_Forgotten(c, t) == stagedVar
Reset(c, t) == [stagedVar EXCEPT ![c] = outer[t]]

\* What the block staged goes to the block around it, or into the store.
HandOver(t) ==
    IF outer[t] = None
    THEN kept' = kept \cup staged[t] /\ UNCHANGED staged
    ELSE staged' = Staging(outer[t], staged[t]) /\ UNCHANGED kept

\* The block exits cleanly.
Exit(c, t) ==
    /\ Inside(c, t)
    /\ Structured => AloneIn(c, t)
    /\ outcome' = [outcome EXCEPT ![t] = "clean"]
    /\ stagedVar' = Reset(c, t)
    /\ HandOver(t)
    /\ UNCHANGED <<running, outer, around, owner, emitted, within>>

\* An exception leaves the block: its list is dropped.
Raise(c, t) ==
    /\ Inside(c, t)
    /\ Structured => AloneIn(c, t)
    /\ outcome' = [outcome EXCEPT ![t] = "raised"]
    /\ stagedVar' = Reset(c, t)
    /\ UNCHANGED <<kept, running, staged, outer, around, owner, emitted, within>>

TxNext ==
    \E c \in Contexts :
        \/ Run(c) \/ Finish(c)
        \/ \E child \in Contexts : Fork(c, child)
        \/ \E i \in Records : Emit(c, i)
        \/ \E t \in Transactions : Begin(c, t) \/ Exit(c, t) \/ Raise(c, t)

TxSpec == TxInit /\ kept = {} /\ [][TxNext]_<<kept, txVars>>

-----------------------------------------------------------------------------
\* Type correctness; a block's list is only reached once it was entered.
TxTypeOK ==
    /\ kept \subseteq emitted /\ emitted \subseteq Records
    /\ running \subseteq Contexts
    /\ stagedVar \in [Contexts -> Transactions \cup {None}]
    /\ staged \in [Transactions -> SUBSET emitted]
    /\ outer \in [Transactions -> Transactions \cup {None}]
    /\ around \in [Transactions -> SUBSET Transactions]
    /\ owner \in [Transactions -> Contexts \cup {None}]
    /\ outcome \in [Transactions -> {"new", "open", "clean", "raised"}]
    /\ within \in [Records -> SUBSET Transactions]
    /\ \A c \in Contexts : stagedVar[c] # None => outcome[stagedVar[c]] # "new"

\* "Records added inside transaction() are kept only if it exits cleanly": no record of a
\* block that raised, or of a block inside one, is ever in the store.
RolledBackNeverKept ==
    \A i \in kept : \A t \in within[i] : outcome[t] = "clean"

\* "it commits or rolls back with the data": once every block around an emission exited
\* cleanly, or there was none, the record is in the store.
CommittedIsKept ==
    \A i \in emitted : (\A t \in within[i] : outcome[t] = "clean") => i \in kept
=============================================================================
