------------------------------- MODULE Checks --------------------------------
(* The checks a call is guarded with (stratae.checks): `require` runs them in *)
(* order before the decorated function, in one of three modes; `any_of` and   *)
(* `all_of` make one check of several.  A check is a function, a coroutine    *)
(* function, or a plain callable that returns an awaitable.                   *)
EXTENDS Naturals, Sequences

Modes == {"all", "gather", "any"}
CheckKinds == {"sync", "async", "awaitable"}

(* A check as the guard runs it: itself ("one"), or a group of checks.        *)
CheckRecord == [group : {"one", "any", "all"}, parts : Seq(CheckKinds)]
IsCheck(c) == /\ c \in CheckRecord /\ c.parts # <<>>
              /\ c.group = "one" => Len(c.parts) = 1

IsGuard(g) == /\ g.mode \in Modes /\ g.async \in BOOLEAN
              /\ g.checks \in Seq(CheckRecord) /\ \A i \in DOMAIN g.checks : IsCheck(g.checks[i])

(* is_async_callable of a check: a group is async if any of its checks is.    *)
IsAsyncCheck(c) == \E i \in DOMAIN c.parts : c.parts[i] = "async"

(* _wrap_sync refuses an async check on a sync function when it decorates it. *)
Decorates(g) == g.async \/ \A i \in DOMAIN g.checks : ~IsAsyncCheck(g.checks[i])

(* Whether a check's parts are awaited: by the wrapper of the function for a  *)
(* check of its own, by the group's own wrapper for a group.                  *)
Awaits(g, c) == IF c.group = "one" THEN g.async ELSE IsAsyncCheck(c)

(* The progress of a guard: the check and the part it is at, what each part   *)
(* gave, and how the guard ended.                                             *)
NotStarted == [check |-> 1, part |-> 1, gave |-> <<>>, failed |-> 0, end |-> "no"]

(* The guard is over once a check settles it, or after the last one.          *)
Ended(p, end) == [p EXCEPT !.end = end]
Following(g, p) ==
  IF p.check < Len(g.checks) THEN [p EXCEPT !.check = @ + 1, !.part = 1]
  ELSE Ended(p, IF p.failed = 0 THEN "passed" ELSE "failed")

(* The check passed; in mode "any" the guard has.                             *)
Passed_Gathered(g, p) ==
  \* Mutated form: a success in mode "any" does not return.
  Following(g, p)
Passed(g, p) == IF g.mode = "any" THEN Ended(p, "passed") ELSE Following(g, p)

(* _settle: the failure is raised in mode "all", and gathered otherwise.      *)
Settle(g, p) == IF g.mode = "all" THEN Ended(p, "failed")
                ELSE Following(g, [p EXCEPT !.failed = @ + 1])

(* What a group does with one of its checks: check(mode="any" or "all").      *)
InGroup(g, c, p, gave) ==
  IF p.part < Len(c.parts) /\ gave = (IF c.group = "any" THEN "fail" ELSE "pass")
    THEN [p EXCEPT !.part = @ + 1]
    ELSE IF gave = "pass" THEN Passed(g, p) ELSE Settle(g, p)

(* What a part can give: it passes, fails, or is cancelled while it is        *)
(* awaited; one that returns an awaitable where none is awaited is misused.   *)
Gives(g, c, kind) ==
  IF kind = "awaitable" /\ ~Awaits(g, c) THEN {"misused"}
  ELSE {"pass", "fail"} \cup (IF kind # "sync" /\ Awaits(g, c) THEN {"cancel"} ELSE {})

(* check and check_async: one part runs.  AwaitableCheckError leaves the      *)
(* check that raises it at once, so it ends the guard, or fails the group.    *)
AfterPart(g, p, gave) ==
  LET c == g.checks[p.check]
      q == [p EXCEPT !.gave = Append(@, <<p.check, p.part, gave>>)] IN
  IF gave = "cancel" THEN Ended(q, "cancelled")
  ELSE IF gave = "misused"
    THEN IF c.group = "one" THEN Ended(q, "failed") ELSE Settle(g, q)
  ELSE InGroup(g, c, q, gave)

(* What refuses the call is the exception of a check itself: mode "all" lets   *)
(* it through, as a group "all" does; the others raise one that gathers them.  *)
FailsItself(g, p) ==
  /\ g.mode = "all" /\ g.checks[p.check].group # "any"
  /\ p.gave[Len(p.gave)][3] = "fail"

(* With no checks the function is returned unchanged.                         *)
Begun(g) == IF g.checks = <<>> THEN Ended(NotStarted, "passed") ELSE NotStarted

-----------------------------------------------------------------------------
(* What a guard promises, from what its checks gave alone.                    *)
GaveIn(p, i, what) == \E n \in DOMAIN p.gave : p.gave[n][1] = i /\ p.gave[n][3] = what
AllGave(g, p, i, what) ==
  \A j \in DOMAIN g.checks[i].parts : \E n \in DOMAIN p.gave : p.gave[n] = <<i, j, what>>
Holds(g, p, i) ==
  IF g.checks[i].group = "any" THEN GaveIn(p, i, "pass") ELSE AllGave(g, p, i, "pass")
Fails(g, p, i) ==
  IF g.checks[i].group = "any" THEN GaveIn(p, i, "misused") \/ AllGave(g, p, i, "fail")
  ELSE GaveIn(p, i, "fail") \/ GaveIn(p, i, "misused")

(* A guard that lets the function run, or refuses it, is right to: mode "any" *)
(* needs one check that holds, the others all of them; mode "gather" refuses  *)
(* only after every check has run, unless one was misused.                    *)
GuardSound(g, p) ==
  LET all == DOMAIN g.checks IN
  /\ p.end = "passed" => IF g.mode = "any" /\ all # {} THEN \E i \in all : Holds(g, p, i)
                         ELSE \A i \in all : Holds(g, p, i)
  /\ p.end = "failed" =>
       \/ \E i \in all : g.checks[i].group = "one" /\ GaveIn(p, i, "misused")
       \/ g.mode = "any" /\ \A i \in all : Fails(g, p, i)
       \/ g.mode = "all" /\ \E i \in all : Fails(g, p, i)
       \/ g.mode = "gather" /\ (\A i \in all : Holds(g, p, i) \/ Fails(g, p, i))
                            /\ \E i \in all : Fails(g, p, i)
=============================================================================
