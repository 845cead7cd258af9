----------------------------- MODULE ScopedMemo -----------------------------
(***************************************************************************)
(* What a scope of stratae.lifecycle promises to those who call its cached *)
(* functions, whatever slots, locks, claims and emptied storage implement  *)
(* it: an entry is computed by one call at a time and at most once per     *)
(* activation, its value is there for every later call as soon as the one  *)
(* that computed it returns, and nothing of an activation that is over is  *)
(* handed out again.  ScopeCache implements it.                            *)
(***************************************************************************)
EXTENDS Naturals, Sequences

CONSTANTS Callers, Entries, Activations, None

VARIABLES
    active,  \* the activation a new call is answered from, or None
    life,    \* each activation: "fresh", "live", "ended", "over"
    kept,    \* kept[a]: the entries whose value later calls in a will get
    made,    \* made[a][e]: values computed of e for a
    calls,   \* calls[t]: the calls t is inside, the running one last
    answer   \* what t's last finished call came to: "none", "value", "error"

memoVars == <<active, life, kept, made, calls, answer>>

Running(t) == calls[t][Len(calls[t])]

\* Some call computes e, for whatever activation.
UnderWay(e) ==
    \E t \in Callers : \E d \in DOMAIN calls[t] : calls[t][d].entry = e /\ calls[t][d].computing

Usable(a) == a # None /\ life[a] # "over"

Become(t, call) == calls' = [calls EXCEPT ![t][Len(calls[t])] = call]

\* The running call ends and its caller, if it is a computation, goes on.
Answer(t, kind) ==
    /\ UNCHANGED <<active, life, kept, made>>
    /\ answer' = [answer EXCEPT ![t] = kind]
    /\ calls' = [calls EXCEPT ![t] = SubSeq(@, 1, Len(@) - 1)]

-----------------------------------------------------------------------------
(* The callers                                                             *)

\* A call from outside, or from the computation under way in t.
Ask(t) ==
    /\ calls[t] # <<>> => Running(t).computing
    /\ answer' = IF calls[t] = <<>> THEN [answer EXCEPT ![t] = "none"] ELSE answer
    /\ UNCHANGED <<active, life, kept, made>>
    /\ \E e \in Entries :
          calls' = [calls EXCEPT ![t] = Append(@, [entry |-> e, act |-> active,
                                                   computing |-> FALSE])]

Waiting(t) == calls[t] # <<>> /\ ~Running(t).computing

\* A call that found nothing usable turns to the activation there is now.
Turn(t) ==
    /\ Waiting(t) /\ ~Usable(Running(t).act) /\ active # None
    /\ Become(t, [Running(t) EXCEPT !.act = active])
    /\ UNCHANGED <<active, life, kept, made, answer>>

\* A call is answered with a value only out of a usable activation that keeps it.
Serve(t) ==
    /\ Waiting(t) /\ Usable(Running(t).act)
    /\ Running(t).entry \in kept[Running(t).act]
    /\ Answer(t, "value")

\* The scope is not active, the activation ended, the call is a cycle or was cancelled.
Refuse(t) == Waiting(t) /\ Answer(t, "error")

\* One computation of an entry at a time, and none of an entry that is kept.
Begin(t) ==
    /\ Waiting(t) /\ Usable(Running(t).act)
    /\ Running(t).entry \notin kept[Running(t).act]
    /\ ~UnderWay(Running(t).entry)
    /\ Become(t, [Running(t) EXCEPT !.computing = TRUE])
    /\ UNCHANGED <<active, life, kept, made, answer>>

Working(t) == calls[t] # <<>> /\ Running(t).computing

\* The one value of the entry for this activation.
Make(t) ==
    LET call == Running(t) IN
    /\ Working(t) /\ made[call.act][call.entry] = 0
    /\ made' = [made EXCEPT ![call.act][call.entry] = 1]
    /\ UNCHANGED <<active, life, kept, calls, answer>>

Keep(t) ==
    LET call == Running(t) IN
    /\ Working(t) /\ Usable(call.act) /\ made[call.act][call.entry] = 1
    /\ kept' = [kept EXCEPT ![call.act] = @ \cup {call.entry}]
    /\ UNCHANGED <<active, life, made, calls, answer>>

\* The computing call returns its value, which a usable activation keeps by then, or
\* raises, in which case there is none and another call may try.
Finish(t) ==
    LET call == Running(t) IN
    /\ Working(t)
    /\ IF made[call.act][call.entry] = 1
       THEN /\ Usable(call.act) => call.entry \in kept[call.act]
            /\ Answer(t, "value")
       ELSE Answer(t, "error")

-----------------------------------------------------------------------------
(* The activations                                                         *)

Open(a) ==
    /\ life[a] = "fresh" /\ active = None
    /\ active' = a
    /\ life' = [life EXCEPT ![a] = "live"]
    /\ UNCHANGED <<kept, made, calls, answer>>

Leave(a) ==
    /\ active = a /\ life[a] = "live"
    /\ active' = None
    /\ life' = [life EXCEPT ![a] = "ended"]
    /\ UNCHANGED <<kept, made, calls, answer>>

Forget(a) ==
    /\ life[a] = "ended"
    /\ life' = [life EXCEPT ![a] = "over"]
    /\ kept' = [kept EXCEPT ![a] = {}]
    /\ UNCHANGED <<active, made, calls, answer>>

-----------------------------------------------------------------------------
MemoInit ==
    /\ active = None
    /\ life = [a \in Activations |-> "fresh"]
    /\ kept = [a \in Activations |-> {}]
    /\ made = [a \in Activations |-> [e \in Entries |-> 0]]
    /\ calls = [t \in Callers |-> <<>>]
    /\ answer = [t \in Callers |-> "none"]

\* Most steps of a mechanism concern nobody: they come first, so that TLC settles them at once.
MemoNext ==
    \/ UNCHANGED memoVars
    \/ \E t \in Callers :
          \/ Ask(t) \/ Turn(t) \/ Serve(t) \/ Refuse(t)
          \/ Begin(t) \/ Make(t) \/ Keep(t) \/ Finish(t)
    \/ \E a \in Activations : Open(a) \/ Leave(a) \/ Forget(a)

MemoSpec == MemoInit /\ [][MemoNext]_memoVars
=============================================================================
