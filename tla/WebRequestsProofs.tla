--------------------------- MODULE WebRequestsProofs ---------------------------
(***************************************************************************)
(* Proofs about WebRequests and Checks, for any requests served by any     *)
(* tasks in any of the ways IsServing admits, with any checks in any       *)
(* groups.                                                                 *)
(***************************************************************************)
EXTENDS WebRequests, Integers, TLAPS, SequenceTheorems

-----------------------------------------------------------------------------
(* A guard's progress                                                      *)

Gave == {"pass", "fail", "cancel", "misused"}
Progress == [check : Nat, part : Nat, gave : Seq(Nat \X Nat \X Gave), failed : Nat,
             end : {"no", "passed", "failed", "cancelled"}]

\* The first m checks have not settled the guard, and what it gathered of them is right.
SettledTo(g, p, m) ==
    /\ g.mode = "any" => /\ m > 0 => p.failed > 0
                         /\ \A i \in 1..m : Fails(g, p, i)
    /\ g.mode = "all" => p.failed = 0 /\ \A i \in 1..m : Holds(g, p, i)
    /\ g.mode = "gather" => /\ \A i \in 1..m : Holds(g, p, i) \/ Fails(g, p, i)
                            /\ p.failed = 0 => \A i \in 1..m : Holds(g, p, i)
                            /\ p.failed > 0 => \E i \in 1..m : Fails(g, p, i)

\* What a part of a check gives for the next one to run.
GoesOn(c) == IF c.group = "any" THEN "fail" ELSE "pass"

\* Where a guard is that has not ended.
At(g, p) ==
    /\ p.check \in 1..Len(g.checks) /\ p.part \in 1..Len(g.checks[p.check].parts)
    /\ SettledTo(g, p, p.check - 1)
    /\ \A j \in 1..(p.part - 1) :
          \E n \in DOMAIN p.gave : p.gave[n] = <<p.check, j, GoesOn(g.checks[p.check])>>

GuardOK(g, p) ==
    /\ p \in Progress /\ GuardSound(g, p)
    /\ p.end = "no" => At(g, p)

LEMMA GuardTyped ==
    ASSUME NEW g, IsGuard(g), NEW i \in 1..Len(g.checks)
    PROVE  /\ g.mode \in Modes /\ g.checks \in Seq(CheckRecord) /\ DOMAIN g.checks = 1..Len(g.checks)
           /\ g.checks[i].group \in {"one", "any", "all"}
           /\ g.checks[i].parts \in Seq(CheckKinds) /\ Len(g.checks[i].parts) \in Nat
           /\ DOMAIN g.checks[i].parts = 1..Len(g.checks[i].parts)
           /\ Len(g.checks[i].parts) > 0
           /\ g.checks[i].group = "one" => Len(g.checks[i].parts) = 1
<1>1. g.checks[i] \in CheckRecord /\ IsCheck(g.checks[i])
  BY DEF IsGuard
<1>2. g.checks[i].parts \in Seq(CheckKinds) /\ g.checks[i].parts # <<>>
  BY <1>1 DEF IsCheck, CheckRecord
<1>3. Len(g.checks[i].parts) > 0
  BY <1>2
<1> QED
  BY <1>1, <1>2, <1>3 DEF IsGuard, IsCheck, CheckRecord

\* What was given stays given.
LEMMA GivenStays ==
    ASSUME NEW g, NEW p \in Progress, NEW q \in Progress,
           \A n \in DOMAIN p.gave : n \in DOMAIN q.gave /\ q.gave[n] = p.gave[n],
           NEW i
    PROVE  /\ Holds(g, p, i) => Holds(g, q, i)
           /\ Fails(g, p, i) => Fails(g, q, i)
<1>1. \A what : GaveIn(p, i, what) => GaveIn(q, i, what)
  BY DEF GaveIn
<1>2. \A what : AllGave(g, p, i, what) => AllGave(g, q, i, what)
  BY DEF AllGave
<1> QED
  BY <1>1, <1>2 DEF Holds, Fails

LEMMA SettledStays ==
    ASSUME NEW g, NEW p \in Progress, NEW q \in Progress, NEW m \in Nat,
           \A n \in DOMAIN p.gave : n \in DOMAIN q.gave /\ q.gave[n] = p.gave[n],
           q.failed = p.failed, SettledTo(g, p, m)
    PROVE  SettledTo(g, q, m)
<1>1. \A i : (Holds(g, p, i) => Holds(g, q, i)) /\ (Fails(g, p, i) => Fails(g, q, i))
  BY GivenStays
<1> QED
  BY <1>1 DEF SettledTo

\* The next check begins, or the guard ends after the last one.
LEMMA FollowingOK ==
    ASSUME NEW g, IsGuard(g), NEW p \in Progress, p.end = "no",
           p.check \in 1..Len(g.checks), SettledTo(g, p, p.check)
    PROVE  GuardOK(g, Following(g, p))
<1> DEFINE m == p.check
<1>0. /\ g.mode \in Modes /\ DOMAIN g.checks = 1..Len(g.checks) /\ Len(g.checks) \in Nat
      /\ m \in Nat /\ m > 0
  BY GuardTyped DEF IsGuard, Progress
<1>1. CASE m < Len(g.checks)
  <2>1. PICK r : r = [p EXCEPT !.check = p.check + 1, !.part = 1]
    OBVIOUS
  <2>2. r \in Progress /\ r.check = m + 1 /\ r.part = 1 /\ r.gave = p.gave /\ r.failed = p.failed
          /\ r.end = "no"
    <3>1. PICK next \in Nat, one \in Nat : next = p.check + 1 /\ one = 1
      BY <1>0
    <3>2. r = [p EXCEPT !.check = next, !.part = one]
      BY <2>1, <3>1
    <3> HIDE DEF m
    <3>3. /\ r \in Progress /\ r.check = next /\ r.part = one
          /\ r.gave = p.gave /\ r.failed = p.failed /\ r.end = "no"
      BY <3>2 DEF Progress
    <3> QED
      BY <3>1, <3>3 DEF m
  <2>3. SettledTo(g, r, m)
    BY <1>0, <2>2, SettledStays
  <2>4. m + 1 \in 1..Len(g.checks) /\ m + 1 - 1 = m
    BY <1>0, <1>1
  <2>5. Len(g.checks[m + 1].parts) \in Nat /\ Len(g.checks[m + 1].parts) > 0
    BY <2>4, GuardTyped
  <2>6. At(g, r)
    BY <2>2, <2>3, <2>4, <2>5 DEF At
  <2>7. GuardSound(g, r)
    BY <2>2 DEF GuardSound
  <2> QED
    BY <1>1, <2>1, <2>2, <2>6, <2>7 DEF GuardOK, Following
<1>2. CASE ~(m < Len(g.checks))
  <2>1. m = Len(g.checks)
    BY <1>0, <1>2
  <2>2. PICK end : end = IF p.failed = 0 THEN "passed" ELSE "failed"
    OBVIOUS
  <2>3. PICK r : r = [p EXCEPT !.end = end]
    OBVIOUS
  <2>4. r \in Progress /\ r.gave = p.gave /\ r.failed = p.failed /\ r.end = end
    BY <2>2, <2>3 DEF Progress
  <2>5. SettledTo(g, r, m)
    BY <1>0, <2>4, SettledStays
  <2>6. p.failed \in Nat
    BY DEF Progress
  <2>7. GuardSound(g, r)
    BY <1>0, <2>1, <2>2, <2>4, <2>5, <2>6 DEF GuardSound, SettledTo, Modes
  <2>8. r.end # "no"
    BY <2>2, <2>4
  <2> QED
    BY <1>2, <2>2, <2>3, <2>4, <2>7, <2>8 DEF GuardOK, Following, Ended
<1> QED
  BY <1>1, <1>2

\* The check passed.
LEMMA PassedOK ==
    ASSUME NEW g, IsGuard(g), NEW p \in Progress, p.end = "no",
           p.check \in 1..Len(g.checks), SettledTo(g, p, p.check - 1), Holds(g, p, p.check)
    PROVE  GuardOK(g, Passed(g, p))
<1>0. /\ g.mode \in Modes /\ DOMAIN g.checks = 1..Len(g.checks) /\ Len(g.checks) \in Nat
      /\ p.check \in Nat /\ p.check > 0 /\ p.failed \in Nat
  BY GuardTyped DEF IsGuard, Progress
<1>1. CASE g.mode = "any"
  <2>1. PICK r : r = [p EXCEPT !.end = "passed"]
    OBVIOUS
  <2>2. r \in Progress /\ r.gave = p.gave /\ r.failed = p.failed /\ r.end = "passed"
    BY <2>1 DEF Progress
  <2>3. Holds(g, r, p.check)
    BY <2>2, GivenStays
  <2>4. GuardSound(g, r)
    BY <1>0, <1>1, <2>2, <2>3 DEF GuardSound
  <2> QED
    BY <1>1, <2>1, <2>2, <2>4 DEF GuardOK, Passed, Ended
<1>2. CASE g.mode # "any"
  <2>1. \A i \in 1..p.check : i = p.check \/ i \in 1..(p.check - 1)
    BY <1>0
  <2>2. \A i \in 1..(p.check - 1) : i \in 1..p.check
    BY <1>0
  <2>3. SettledTo(g, p, p.check)
    BY <1>0, <1>2, <2>1, <2>2 DEF SettledTo
  <2> QED
    BY <1>2, <2>3, FollowingOK DEF Passed
<1> QED
  BY <1>1, <1>2

\* The check failed.
LEMMA SettleOK ==
    ASSUME NEW g, IsGuard(g), NEW p \in Progress, p.end = "no",
           p.check \in 1..Len(g.checks), SettledTo(g, p, p.check - 1), Fails(g, p, p.check)
    PROVE  GuardOK(g, Settle(g, p))
<1>0. /\ g.mode \in Modes /\ DOMAIN g.checks = 1..Len(g.checks) /\ Len(g.checks) \in Nat
      /\ p.check \in Nat /\ p.check > 0 /\ p.failed \in Nat
  BY GuardTyped DEF IsGuard, Progress
<1>1. CASE g.mode = "all"
  <2>1. PICK r : r = [p EXCEPT !.end = "failed"]
    OBVIOUS
  <2>2. r \in Progress /\ r.gave = p.gave /\ r.failed = p.failed /\ r.end = "failed"
    BY <2>1 DEF Progress
  <2>3. Fails(g, r, p.check)
    BY <2>2, GivenStays
  <2>4. GuardSound(g, r)
    BY <1>0, <1>1, <2>2, <2>3 DEF GuardSound
  <2> QED
    BY <1>1, <2>1, <2>2, <2>4 DEF GuardOK, Settle, Ended
<1>2. CASE g.mode # "all"
  <2>1. PICK r : r = [p EXCEPT !.failed = p.failed + 1]
    OBVIOUS
  <2>2. /\ r \in Progress /\ r.check = p.check /\ r.gave = p.gave
        /\ r.failed = p.failed + 1 /\ r.end = "no"
    <3>1. PICK more \in Nat : more = p.failed + 1
      BY <1>0
    <3>2. r = [p EXCEPT !.failed = more]
      BY <2>1, <3>1
    <3>3. /\ r \in Progress /\ r.check = p.check /\ r.gave = p.gave
          /\ r.failed = more /\ r.end = "no"
      BY <3>2 DEF Progress
    <3> QED
      BY <3>1, <3>3
  <2>3. \A i : (Holds(g, p, i) => Holds(g, r, i)) /\ (Fails(g, p, i) => Fails(g, r, i))
    BY <2>2, GivenStays
  <2>4. \A i \in 1..p.check : i = p.check \/ i \in 1..(p.check - 1)
    BY <1>0
  <2>5. p.check \in 1..p.check /\ r.failed > 0 /\ r.failed # 0
    BY <1>0, <2>2
  <2>6. SettledTo(g, r, p.check)
    BY <1>2, <2>3, <2>4, <2>5 DEF SettledTo
  <2> QED
    BY <1>2, <2>1, <2>2, <2>6, FollowingOK DEF Settle
<1> QED
  BY <1>1, <1>2

\* A part ran: what the guard is after it.
LEMMA InGroupOK ==
    ASSUME NEW g, IsGuard(g), NEW q \in Progress, q.end = "no",
           q.check \in 1..Len(g.checks), q.part \in 1..Len(g.checks[q.check].parts),
           SettledTo(g, q, q.check - 1), NEW gave \in {"pass", "fail"},
           \A j \in 1..(q.part - 1) :
              \E n \in DOMAIN q.gave : q.gave[n] = <<q.check, j, GoesOn(g.checks[q.check])>>,
           \E n \in DOMAIN q.gave : q.gave[n] = <<q.check, q.part, gave>>
    PROVE  GuardOK(g, InGroup(g, g.checks[q.check], q, gave))
<1> DEFINE c == g.checks[q.check]
<1>0. /\ q.check \in Nat /\ q.check > 0 /\ q.part \in Nat /\ q.part > 0
      /\ c.group \in {"one", "any", "all"} /\ Len(c.parts) \in Nat
      /\ DOMAIN c.parts = 1..Len(c.parts) /\ q.part <= Len(c.parts)
  BY GuardTyped, SMTT(40) DEF Progress
<1>1. CASE q.part < Len(c.parts) /\ gave = GoesOn(c)
  <2>1. PICK next \in Nat : next = q.part + 1
    BY <1>0
  <2>2. PICK r : r = [q EXCEPT !.part = next]
    OBVIOUS
  <2>3. /\ r \in Progress /\ r.check = q.check /\ r.part = next
        /\ r.gave = q.gave /\ r.failed = q.failed /\ r.end = "no"
    BY <2>2 DEF Progress
  <2>4. SettledTo(g, r, r.check - 1)
    BY <1>0, <2>3, SettledStays
  <2>5. r.part \in 1..Len(c.parts)
    <3>1. PICK len \in Nat : len = Len(c.parts)
      BY <1>0
    <3>2. q.part < len
      BY <1>1, <3>1
    <3>3. next \in 1..len
      BY <1>0, <2>1, <3>2
    <3> QED
      BY <2>3, <3>1, <3>3
  <2>6. \A j \in 1..(next - 1) : j = q.part \/ j \in 1..(q.part - 1)
    BY <1>0, <2>1
  <2>7. \A j \in 1..(next - 1) : \E n \in DOMAIN q.gave : q.gave[n] = <<q.check, j, GoesOn(c)>>
    BY <1>1, <2>6
  <2>8. At(g, r)
    BY <2>3, <2>4, <2>5, <2>7 DEF At
  <2>9. GuardSound(g, r)
    BY <2>3 DEF GuardSound
  <2>10. InGroup(g, c, q, gave) = r
    <3>1. r = [q EXCEPT !.part = q.part + 1]
      BY <2>1, <2>2
    <3> QED
      BY <1>1, <3>1 DEF InGroup, GoesOn
  <2> QED
    BY <2>3, <2>8, <2>9, <2>10 DEF GuardOK
<1>2. CASE ~(q.part < Len(c.parts) /\ gave = GoesOn(c))
  <2>1. ASSUME gave = GoesOn(c)
        PROVE  AllGave(g, q, q.check, gave)
    <3>1. q.part = Len(c.parts)
      BY <1>0, <1>2, <2>1
    <3>2. \A j \in DOMAIN c.parts : j = q.part \/ j \in 1..(q.part - 1)
      BY <1>0, <3>1
    <3> QED
      BY <2>1, <3>2 DEF AllGave
  <2>2. GaveIn(q, q.check, gave)
    <3>1. PICK n \in DOMAIN q.gave : q.gave[n] = <<q.check, q.part, gave>>
      OBVIOUS
    <3>2. q.gave[n][1] = q.check /\ q.gave[n][3] = gave
      BY <3>1
    <3> QED
      BY <3>2 DEF GaveIn
  <2>3. CASE gave = "pass"
    <3>1. Holds(g, q, q.check)
      BY <2>1, <2>2, <2>3 DEF Holds, GoesOn
    <3>2. InGroup(g, c, q, gave) = Passed(g, q)
      BY <1>2, <2>3 DEF InGroup, GoesOn
    <3> QED
      BY <3>1, <3>2, PassedOK
  <2>4. CASE gave = "fail"
    <3>1. Fails(g, q, q.check)
      BY <2>1, <2>2, <2>4 DEF Fails, GoesOn
    <3>2. InGroup(g, c, q, gave) = Settle(g, q)
      BY <1>2, <2>4 DEF InGroup, GoesOn
    <3> QED
      BY <3>1, <3>2, SettleOK
  <2> QED
    BY <2>3, <2>4
<1> QED
  BY <1>1, <1>2

LEMMA AfterPartOK ==
    ASSUME NEW g, IsGuard(g), NEW p, GuardOK(g, p), p.end = "no", NEW gave \in Gave
    PROVE  GuardOK(g, AfterPart(g, p, gave))
<1> DEFINE c == g.checks[p.check]
<1>0. p \in Progress /\ At(g, p) /\ p.check \in Nat /\ p.part \in Nat /\ p.check > 0
        /\ p.gave \in Seq(Nat \X Nat \X Gave)
  <2>1. p \in Progress /\ At(g, p)
    BY DEF GuardOK
  <2>2. p.check \in Nat /\ p.part \in Nat /\ p.gave \in Seq(Nat \X Nat \X Gave)
    BY <2>1 DEF Progress
  <2>3. p.check > 0
    BY <2>1, <2>2 DEF At
  <2> QED
    BY <2>1, <2>2, <2>3
<1>1. PICK e : e = <<p.check, p.part, gave>>
  OBVIOUS
<1>2. e \in Nat \X Nat \X Gave
  BY <1>0, <1>1
<1>3. PICK s : s = Append(p.gave, e)
  OBVIOUS
<1>4. /\ s \in Seq(Nat \X Nat \X Gave)
      /\ \A n \in DOMAIN p.gave : n \in DOMAIN s /\ s[n] = p.gave[n]
      /\ Len(p.gave) + 1 \in DOMAIN s /\ s[Len(p.gave) + 1] = e
  BY <1>0, <1>2, <1>3, SMTT(40)
<1>5. PICK q : q = [p EXCEPT !.gave = s]
  OBVIOUS
<1>6. /\ q \in Progress /\ q.check = p.check /\ q.part = p.part /\ q.gave = s
      /\ q.failed = p.failed /\ q.end = "no"
  BY <1>0, <1>4, <1>5 DEF Progress
<1>7. q = [p EXCEPT !.gave = Append(p.gave, <<p.check, p.part, gave>>)]
  BY <1>1, <1>3, <1>5
<1>8. /\ q.check \in 1..Len(g.checks) /\ q.part \in 1..Len(g.checks[q.check].parts)
      /\ SettledTo(g, q, q.check - 1)
  <2>1. p.check - 1 \in Nat
    BY <1>0
  <2> QED
    BY <1>0, <1>4, <1>6, <2>1, SettledStays DEF At
<1>9. \E n \in DOMAIN q.gave : q.gave[n] = <<q.check, q.part, gave>>
  BY <1>1, <1>4, <1>6
<1>10. \A j \in 1..(q.part - 1) :
          \E n \in DOMAIN q.gave : q.gave[n] = <<q.check, j, GoesOn(c)>>
  BY <1>0, <1>4, <1>6 DEF At
<1>11. CASE gave = "cancel"
  <2>1. PICK r : r = [q EXCEPT !.end = "cancelled"]
    OBVIOUS
  <2>2. r \in Progress /\ r.end = "cancelled"
    BY <1>6, <2>1 DEF Progress
  <2>3. AfterPart(g, p, gave) = r
    BY <1>7, <1>11, <2>1 DEF AfterPart, Ended
  <2> QED
    BY <2>2, <2>3 DEF GuardOK, GuardSound
<1>12. CASE gave = "misused"
  <2>1. GaveIn(q, q.check, "misused")
    <3>1. PICK n \in DOMAIN q.gave : q.gave[n] = <<q.check, q.part, gave>>
      BY <1>9
    <3>2. q.gave[n][1] = q.check /\ q.gave[n][3] = gave
      BY <3>1
    <3> QED
      BY <1>12, <3>2 DEF GaveIn
  <2>2. CASE c.group = "one"
    <3>1. PICK r : r = [q EXCEPT !.end = "failed"]
      OBVIOUS
    <3>2. r \in Progress /\ r.end = "failed" /\ r.gave = q.gave
      BY <1>6, <3>1 DEF Progress
    <3>3. AfterPart(g, p, gave) = r
      BY <1>7, <1>12, <2>2, <3>1 DEF AfterPart, Ended
    <3>4. q.check \in DOMAIN g.checks /\ g.checks[q.check].group = "one"
      BY <1>6, <1>8, <2>2, GuardTyped
    <3>5. GaveIn(r, q.check, "misused")
      BY <2>1, <3>2 DEF GaveIn
    <3>6. GuardSound(g, r)
      BY <3>2, <3>4, <3>5 DEF GuardSound
    <3> QED
      BY <3>2, <3>3, <3>6 DEF GuardOK
  <2>3. CASE c.group # "one"
    <3>1. Fails(g, q, q.check)
      BY <2>1 DEF Fails
    <3>2. AfterPart(g, p, gave) = Settle(g, q)
      BY <1>7, <1>12, <2>3 DEF AfterPart
    <3> QED
      BY <1>6, <1>8, <3>1, <3>2, SettleOK
  <2> QED
    BY <2>2, <2>3
<1>13. CASE gave \in {"pass", "fail"}
  <2>1. AfterPart(g, p, gave) = InGroup(g, c, q, gave)
    BY <1>7, <1>13 DEF AfterPart
  <2>2. GuardOK(g, InGroup(g, g.checks[q.check], q, gave))
    BY <1>6, <1>8, <1>9, <1>10, <1>13, InGroupOK
  <2> QED
    BY <1>6, <2>1, <2>2
<1> QED
  BY <1>11, <1>12, <1>13 DEF Gave

LEMMA BegunOK ==
    ASSUME NEW g, IsGuard(g)
    PROVE  GuardOK(g, Begun(g))
<1>0. g.checks \in Seq(CheckRecord) /\ g.mode \in Modes /\ DOMAIN g.checks = 1..Len(g.checks)
  BY DEF IsGuard
<1>1. CASE g.checks = <<>>
  <2>1. PICK r : r = [NotStarted EXCEPT !.end = "passed"]
    OBVIOUS
  <2>2. r \in Progress /\ r.end = "passed"
    <3>1. PICK p : p = NotStarted
      OBVIOUS
    <3>2. p \in Progress
      BY <3>1 DEF NotStarted, Progress
    <3>3. r = [p EXCEPT !.end = "passed"]
      BY <2>1, <3>1
    <3> QED
      BY <3>2, <3>3 DEF Progress
  <2>3. DOMAIN g.checks = {}
    BY <1>1
  <2>4. GuardSound(g, r)
    BY <2>2, <2>3 DEF GuardSound
  <2> QED
    BY <1>1, <2>1, <2>2, <2>4 DEF GuardOK, Begun, Ended
<1>2. CASE g.checks # <<>>
  <2>1. PICK p : p = NotStarted
    OBVIOUS
  <2>2. p \in Progress /\ p.check = 1 /\ p.part = 1 /\ p.failed = 0 /\ p.end = "no"
    BY <2>1 DEF NotStarted, Progress
  <2>3. 1 \in 1..Len(g.checks) /\ Len(g.checks) \in Nat
    BY <1>0, <1>2
  <2>4. Len(g.checks[1].parts) > 0 /\ Len(g.checks[1].parts) \in Nat
    BY <2>3, GuardTyped
  <2>5. SettledTo(g, p, 0)
    BY <2>2 DEF SettledTo
  <2>6. At(g, p)
    BY <2>2, <2>3, <2>4, <2>5 DEF At
  <2>7. GuardSound(g, p)
    BY <2>2 DEF GuardSound
  <2> QED
    BY <1>2, <2>1, <2>2, <2>6, <2>7 DEF GuardOK, Begun
<1> QED
  BY <1>1, <1>2

-----------------------------------------------------------------------------
(* The route                                                               *)

PCs == {"idle", "received", "guarded", "endpoint", "unwinding", "handling", "sending",
        "closing", "leaving", "done"}
Raises == {"none", "http", "error", "cancel"}
Errors == Raises \cup {"cleanup", "send", "inactive"}
Ends == Seq([error : Errors, at : Nat])
HandlerEnds == Seq([error : Errors, at : Nat, left : Errors])

RouteTyped ==
    /\ pc \in [Requests -> PCs] /\ slot \in [Requests -> BOOLEAN]
    /\ scopeEnds \in [Requests -> Ends] /\ handlerEnds \in [Requests -> HandlerEnds]
    /\ error \in [Requests -> Errors] /\ raised \in [Requests -> Raises]
    /\ sent \in [Requests -> Nat]

\* What ScopesEndWithCause says of the scope's end, when it is e; and of the handler scope's.
EndedWell(r, e) ==
    /\ ~served.handler /\ raised[r] # NoError => e.error = raised[r]
    /\ served.kind = "route" /\ e.error = NoError => e.at = Sent
HandledWell(r, e) == e.error = raised[r] /\ e.at = 0

\* What left the handler scope, if the framework does not answer it, is what the request's
\* scope is closed with, and nothing is sent.
Carried(r) ==
    \A j \in 1..Len(handlerEnds[r]) :
       Unanswered(handlerEnds[r][j].left) =>
          /\ sent[r] = 0 /\ pc[r] \in {"handling", "closing", "leaving", "done"}
          /\ pc[r] \in {"handling", "closing"} => error[r] = handlerEnds[r][j].left
          /\ \A i \in 1..Len(scopeEnds[r]) : scopeEnds[r][i].error = handlerEnds[r][j].left

\* Where the request is tells what is still to be closed, and with what.
Place(r) ==
    /\ pc[r] \in {"idle", "received"} => ~slot[r]
    /\ pc[r] \in {"guarded", "endpoint", "unwinding"} => slot[r]
    /\ pc[r] \in {"idle", "received", "guarded", "endpoint"} => error[r] = NoError /\ raised[r] = NoError
    /\ pc[r] = "unwinding" => error[r] = raised[r]
    /\ pc[r] \in {"idle", "received", "guarded", "endpoint", "unwinding"} =>
          scopeEnds[r] = <<>> /\ handlerEnds[r] = <<>>
    /\ pc[r] \in {"idle", "received", "guarded", "endpoint", "unwinding", "handling"} => sent[r] = 0
    /\ pc[r] = "sending" => served.kind = "route" /\ error[r] = NoError
    /\ pc[r] \in {"handling", "sending"} => (served.handler => handlerEnds[r] # <<>>)
    /\ pc[r] \in {"handling", "sending", "closing"} =>
          /\ IF slot[r] THEN scopeEnds[r] = <<>> ELSE Len(scopeEnds[r]) = 1
          /\ (slot[r] /\ ~served.handler /\ raised[r] # NoError) =>
                served.kind = "class" /\ error[r] = raised[r]
    /\ pc[r] = "closing" /\ served.kind = "route" /\ error[r] = NoError => sent[r] = Sent
    /\ pc[r] \in {"leaving", "done"} => (Len(scopeEnds[r]) = 1 <=> error[r] # "inactive")
    /\ pc[r] \notin {"leaving", "done"} => error[r] # "inactive"

\* What is closed was closed once, and well.
Closed(r) ==
    /\ Len(scopeEnds[r]) <= 1 /\ Len(handlerEnds[r]) <= 1
    /\ \A i \in 1..Len(scopeEnds[r]) : EndedWell(r, scopeEnds[r][i])
    /\ \A i \in 1..Len(handlerEnds[r]) : HandledWell(r, handlerEnds[r][i])
    /\ sent[r] > 0 /\ served.handler => handlerEnds[r] # <<>>
    /\ Carried(r)

RouteInv == served \in Configurations /\ RouteTyped /\ \A r \in Requests : Place(r) /\ Closed(r)

LEMMA ServingTyped ==
    ASSUME served \in Configurations
    PROVE  /\ served.kind \in {"route", "class", "dependency"}
           /\ served.handler \in BOOLEAN /\ (served.handler => served.kind = "route")
           /\ IsGuard(served.guard)
           /\ served.errors \subseteq Raises
           /\ \A r \in Requests : Served(r) \in Requests
<1>1. IsServing(served)
  BY ServingAssumption
<1> QED
  BY <1>1 DEF IsServing, Served, Raises

Same(q) ==
    /\ pc'[q] = pc[q] /\ slot'[q] = slot[q] /\ scopeEnds'[q] = scopeEnds[q]
    /\ handlerEnds'[q] = handlerEnds[q] /\ error'[q] = error[q] /\ raised'[q] = raised[q]
    /\ sent'[q] = sent[q]

LEMMA RouteOther ==
    ASSUME NEW q \in Requests, Same(q), served' = served, Place(q), Closed(q)
    PROVE  Place(q)' /\ Closed(q)'
BY DEF Same, Place, Closed, Carried, EndedWell, HandledWell

\* It is enough to see to the request that takes the step.
LEMMA RouteOf ==
    ASSUME RouteInv, served' = served, RouteTyped', NEW r \in Requests,
           \A q \in Requests \ {r} : Same(q), Place(r)', Closed(r)'
    PROVE  RouteInv'
<1>1. \A q \in Requests \ {r} : Place(q)' /\ Closed(q)'
  BY RouteOther DEF RouteInv
<1> QED
  BY <1>1 DEF RouteInv

LEMMA EndsOne ==
    ASSUME NEW e \in Errors, NEW at \in Nat,
           NEW t, t = Append(<<>>, [error |-> e, at |-> at])
    PROVE  t \in Ends /\ Len(t) = 1 /\ t # <<>> /\ t[1].error = e /\ t[1].at = at
<1>1. PICK end : end = [error |-> e, at |-> at]
  OBVIOUS
<1>2. end \in [error : Errors, at : Nat] /\ end.error = e /\ end.at = at
  BY <1>1
<1> HIDE DEF Errors
<1>3. t \in Ends /\ Len(t) = 1 /\ t[1] = end
  BY <1>1, <1>2 DEF Ends
<1> QED
  BY <1>2, <1>3

\* A request's activation is closed with e, if it is still open.
LEMMA ClosesEffect ==
    ASSUME RouteTyped, NEW r \in Requests, NEW e \in Errors, Closes(r, e),
           slot[r] => scopeEnds[r] = <<>>
    PROVE  /\ slot' \in [Requests -> BOOLEAN] /\ scopeEnds' \in [Requests -> Ends]
           /\ error' \in [Requests -> Errors]
           /\ \A q \in Requests \ {r} : slot'[q] = slot[q] /\ scopeEnds'[q] = scopeEnds[q]
                                         /\ error'[q] = error[q]
           /\ ~slot'[r]
           /\ slot[r] => /\ Len(scopeEnds'[r]) = 1 /\ scopeEnds'[r][1].error = e
                         /\ scopeEnds'[r][1].at = sent[r] /\ error'[r] \in {e, "cleanup", "http"}
           /\ ~slot[r] => scopeEnds'[r] = scopeEnds[r] /\ error'[r] = e
<1>1. /\ slot \in [Requests -> BOOLEAN] /\ scopeEnds \in [Requests -> Ends]
      /\ error \in [Requests -> Errors] /\ sent[r] \in Nat /\ scopeEnds[r] \in Ends
  BY DEF RouteTyped
<1>2. CASE slot[r]
  <2>1. PICK t : t = Append(<<>>, [error |-> e, at |-> sent[r]])
    OBVIOUS
  <2>2. t \in Ends /\ Len(t) = 1 /\ t[1].error = e /\ t[1].at = sent[r]
    <3>1. sent[r] \in Nat
      BY <1>1
    <3> QED
      BY <2>1, <3>1, EndsOne
  <2>3. scopeEnds' = [scopeEnds EXCEPT ![r] = t]
    BY <1>2, <2>1 DEF Closes
  <2>4. PICK x \in {e, "cleanup", "http"} : error' = [error EXCEPT ![r] = x]
    BY <1>2 DEF Closes, After
  <2>5. x \in Errors
    BY <2>4 DEF Errors, Raises
  <2>6. slot' = [slot EXCEPT ![r] = FALSE]
    BY <1>2 DEF Closes
  <2> HIDE DEF Errors
  <2> QED
    BY <1>1, <1>2, <2>2, <2>3, <2>4, <2>5, <2>6
<1>3. CASE ~slot[r]
  BY <1>1, <1>3 DEF Closes
<1> QED
  BY <1>2, <1>3

LEMMA ReceiveRoute ==
    ASSUME RouteInv, NEW r \in Requests, Receive(r) PROVE RouteInv'
<1>1. RouteTyped /\ Place(r) /\ Closed(r)
  BY DEF RouteInv
<1>2. /\ pc[r] = "idle" /\ pc' = [pc EXCEPT ![r] = "received"] /\ served' = served
      /\ UNCHANGED route
  BY DEF Receive, Go
<1>3. RouteTyped' /\ (\A q \in Requests \ {r} : Same(q)) /\ pc'[r] = "received"
  BY <1>1, <1>2 DEF RouteTyped, PCs, Same, route
<1>4. Place(r)' /\ Closed(r)'
  BY <1>1, <1>2, <1>3 DEF Place, Closed, Carried, EndedWell, HandledWell, route
<1> QED
  BY <1>2, <1>3, <1>4, RouteOf

LEMMA LeaveRoute ==
    ASSUME RouteInv, NEW r \in Requests, Leave(r) PROVE RouteInv'
<1>1. RouteTyped /\ Place(r) /\ Closed(r)
  BY DEF RouteInv
<1>2. /\ pc[r] = "leaving" /\ pc' = [pc EXCEPT ![r] = "done"] /\ served' = served
      /\ UNCHANGED route
  BY DEF Leave, Go
<1>3. RouteTyped' /\ (\A q \in Requests \ {r} : Same(q)) /\ pc'[r] = "done"
  BY <1>1, <1>2 DEF RouteTyped, PCs, Same, route
<1>4. Place(r)' /\ Closed(r)'
  BY <1>1, <1>2, <1>3 DEF Place, Closed, Carried, EndedWell, HandledWell, route
<1> QED
  BY <1>2, <1>3, <1>4, RouteOf

LEMMA ActivateRoute ==
    ASSUME RouteInv, NEW r \in Requests, Activate(r) PROVE RouteInv'
<1>1. RouteTyped /\ Place(r) /\ Closed(r)
  BY DEF RouteInv
<1>2. /\ pc[r] = "received" /\ served' = served
      /\ scopeEnds' = scopeEnds /\ handlerEnds' = handlerEnds /\ raised' = raised /\ sent' = sent
  BY DEF Activate
<1>3. CASE slot' = [slot EXCEPT ![r] = TRUE] /\ Go(r, "guarded") /\ UNCHANGED error
  <2>1. /\ RouteTyped' /\ (\A q \in Requests \ {r} : Same(q))
        /\ pc'[r] = "guarded" /\ slot'[r] /\ error'[r] = error[r]
    BY <1>1, <1>2, <1>3 DEF RouteTyped, PCs, Same, Go
  <2>2. Place(r)' /\ Closed(r)'
    BY <1>1, <1>2, <2>1 DEF Place, Closed, Carried, EndedWell, HandledWell
  <2> QED
    BY <1>2, <2>1, <2>2, RouteOf
<1>4. CASE error' = [error EXCEPT ![r] = "inactive"] /\ Go(r, "leaving") /\ UNCHANGED slot
  <2>1. /\ RouteTyped' /\ (\A q \in Requests \ {r} : Same(q))
        /\ pc'[r] = "leaving" /\ slot'[r] = slot[r] /\ error'[r] = "inactive"
    BY <1>1, <1>2, <1>4 DEF RouteTyped, PCs, Same, Go, Errors
  <2>2. Len(scopeEnds[r]) = 0
    BY <1>1, <1>2 DEF Place
  <2>3. Place(r)' /\ Closed(r)'
    BY <1>1, <1>2, <2>1, <2>2 DEF Place, Closed, Carried, EndedWell, HandledWell, NoError
  <2> QED
    BY <1>2, <2>1, <2>3, RouteOf
<1> QED
  BY <1>3, <1>4 DEF Activate

LEMMA RefuseRoute ==
    ASSUME RouteInv, NEW r \in Requests, Refuse(r) PROVE RouteInv'
<1>1. RouteTyped /\ Place(r) /\ Closed(r)
  BY DEF RouteInv
<1>2. /\ pc[r] = "guarded" /\ pc' = [pc EXCEPT ![r] = "closing"] /\ served' = served
      /\ error' = [error EXCEPT ![r] = "http"] /\ slot' = slot
      /\ scopeEnds' = scopeEnds /\ handlerEnds' = handlerEnds /\ raised' = raised /\ sent' = sent
  BY DEF Refuse, Go
<1>3. /\ RouteTyped' /\ (\A q \in Requests \ {r} : Same(q))
      /\ pc'[r] = "closing" /\ error'[r] = "http"
  BY <1>1, <1>2 DEF RouteTyped, PCs, Same, Errors, Raises
<1>4. Place(r)' /\ Closed(r)'
  BY <1>1, <1>2, <1>3 DEF Place, Closed, Carried, EndedWell, HandledWell, NoError
<1> QED
  BY <1>2, <1>3, <1>4, RouteOf

\* The checks or the endpoint end.
LEMMA EndpointRoute ==
    ASSUME RouteInv, NEW r \in Requests, pc[r] \in {"guarded", "endpoint"},
           NEW e \in Raises, NEW to \in {"endpoint", "unwinding"}, to = "endpoint" => e = NoError,
           pc' = [pc EXCEPT ![r] = to], error' = [error EXCEPT ![r] = e],
           raised' = [raised EXCEPT ![r] = e],
           UNCHANGED <<served, slot, scopeEnds, handlerEnds, sent>>
    PROVE  RouteInv'
<1>1. RouteTyped /\ Place(r) /\ Closed(r)
  BY DEF RouteInv
<1>2. e \in Errors
  BY DEF Errors
<1>3. /\ RouteTyped' /\ (\A q \in Requests \ {r} : Same(q))
      /\ pc'[r] = to /\ error'[r] = e /\ raised'[r] = e
  <2> HIDE DEF Errors, Raises
  <2> QED
    BY <1>1, <1>2 DEF RouteTyped, PCs, Same
<1>4. scopeEnds[r] = <<>> /\ handlerEnds[r] = <<>> /\ Len(scopeEnds[r]) = 0 /\ Len(handlerEnds[r]) = 0
        /\ slot[r] /\ sent[r] = 0
  BY <1>1 DEF Place
<1>5. Closed(r)'
  BY <1>4 DEF Closed, Carried
<1>6. Place(r)'
  BY <1>3, <1>4 DEF Place, Raises, NoError
<1> QED
  BY <1>3, <1>5, <1>6, RouteOf

LEMMA GuardedRoute ==
    ASSUME RouteInv, NEW r \in Requests, Guarded(r),
           guard[r].end \in {"no", "passed", "failed", "cancelled"}
    PROVE  RouteInv'
<1>1. PICK e \in Raised(r) : /\ error' = [error EXCEPT ![r] = e]
                            /\ raised' = [raised EXCEPT ![r] = e]
  BY DEF Guarded
<1>2. e \in Raises /\ (guard[r].end = "passed" => e = NoError)
  <2>1. guard[r].end \in {"passed", "failed", "cancelled"}
    BY DEF Guarded
  <2> QED
    BY <1>1, <2>1 DEF Raised, Raises, NoError
<1>3. PICK to \in {"endpoint", "unwinding"} :
         pc' = [pc EXCEPT ![r] = to] /\ (to = "endpoint" => guard[r].end = "passed")
  BY DEF Guarded, Go
<1> QED
  BY <1>1, <1>2, <1>3, EndpointRoute DEF Guarded

LEMMA EndpointEnds ==
    ASSUME RouteInv, NEW r \in Requests, Endpoint(r)
    PROVE  RouteInv'
<1>1. PICK e \in {NoError} \cup served.errors : error' = [error EXCEPT ![r] = e]
  BY DEF Endpoint
<1>2. e \in Raises
  BY <1>1, ServingTyped DEF RouteInv, Raises, NoError
<1>3. error'[r] = e
  BY <1>1 DEF RouteInv, RouteTyped
<1>4. raised' = [raised EXCEPT ![r] = e] /\ pc[r] = "endpoint"
  BY <1>3 DEF Endpoint, Running
<1> QED
  BY <1>1, <1>2, <1>4, EndpointRoute DEF Endpoint, Go

LEMMA UnwindRoute ==
    ASSUME RouteInv, NEW r \in Requests, Unwind(r) PROVE RouteInv'
<1>1. RouteTyped /\ Place(r) /\ Closed(r) /\ served \in Configurations
  BY DEF RouteInv
<1>2. /\ pc[r] = "unwinding" /\ pc' = [pc EXCEPT ![r] = "handling"] /\ served' = served
      /\ raised' = raised /\ sent' = sent
  BY DEF Unwind, Go
<1>3. /\ slot[r] /\ error[r] = raised[r] /\ scopeEnds[r] = <<>> /\ handlerEnds[r] = <<>>
      /\ sent[r] = 0 /\ error[r] # "inactive" /\ Len(scopeEnds[r]) = 0 /\ Len(handlerEnds[r]) = 0
  BY <1>1, <1>2 DEF Place
<1>4. /\ error[r] \in Errors /\ raised[r] \in Raises /\ handlerEnds[r] \in HandlerEnds
  BY <1>1 DEF RouteTyped
<1>5. ASSUME served.handler, NEW x \in After(error[r]),
             error' = [error EXCEPT ![r] = x],
             handlerEnds' = [handlerEnds EXCEPT ![r] =
                Append(@, [error |-> error[r], at |-> sent[r], left |-> x])],
             UNCHANGED <<slot, scopeEnds>>
      PROVE  RouteInv'
  <2>1. PICK t : t = Append(<<>>, [error |-> error[r], at |-> sent[r], left |-> x])
    OBVIOUS
  <2>5. x \in Errors /\ x # "inactive"
    BY <1>3, <1>4, <1>5 DEF After, Errors, Raises
  <2>2. /\ t \in HandlerEnds /\ Len(t) = 1 /\ t # <<>>
        /\ t[1].error = error[r] /\ t[1].at = 0 /\ t[1].left = x
    <3>1. PICK end : end = [error |-> error[r], at |-> sent[r], left |-> x]
      OBVIOUS
    <3>2. /\ end \in [error : Errors, at : Nat, left : Errors]
          /\ end.error = error[r] /\ end.at = 0 /\ end.left = x
      BY <1>3, <1>4, <2>5, <3>1
    <3> HIDE DEF Errors
    <3>3. t \in HandlerEnds /\ Len(t) = 1 /\ t[1] = end
      BY <2>1, <3>1, <3>2 DEF HandlerEnds
    <3>4. t # <<>>
      BY <3>3
    <3>5. t[1].error = error[r] /\ t[1].at = 0 /\ t[1].left = x
      BY <3>2, <3>3
    <3> QED
      BY <3>3, <3>4, <3>5
  <2>3. handlerEnds' = [handlerEnds EXCEPT ![r] = t]
    BY <1>3, <1>5, <2>1
  <2>6. /\ RouteTyped' /\ (\A q \in Requests \ {r} : Same(q))
        /\ pc'[r] = "handling" /\ error'[r] = x /\ handlerEnds'[r] = t
    <3> HIDE DEF Errors, Ends, HandlerEnds
    <3> QED
      <4>1. slot' = slot /\ scopeEnds' = scopeEnds
        BY <1>5
      <4> QED
        BY <1>1, <1>2, <1>5, <2>2, <2>3, <2>5, <4>1 DEF RouteTyped, PCs, Same
  <2>7. Closed(r)'
    <3>1. \A i \in 1..Len(t) : i = 1
      BY <2>2
    <3>2. Carried(r)'
      BY <1>2, <1>3, <1>5, <2>2, <2>6, <3>1 DEF Carried
    <3> QED
      BY <1>2, <1>3, <1>5, <2>2, <2>6, <3>1, <3>2 DEF Closed, HandledWell
  <2>8. Place(r)'
    BY <1>2, <1>3, <1>5, <2>2, <2>5, <2>6 DEF Place
  <2> QED
    BY <1>2, <2>6, <2>7, <2>8, RouteOf
<1>6. ASSUME ~served.handler, served.kind # "class", error[r] # NoError \/ served.kind = "dependency",
             Closes(r, error[r]), UNCHANGED handlerEnds
      PROVE  RouteInv'
  <2>1. /\ slot' \in [Requests -> BOOLEAN] /\ scopeEnds' \in [Requests -> Ends]
        /\ error' \in [Requests -> Errors]
        /\ \A q \in Requests \ {r} : slot'[q] = slot[q] /\ scopeEnds'[q] = scopeEnds[q]
                                         /\ error'[q] = error[q]
        /\ ~slot'[r]
        /\ Len(scopeEnds'[r]) = 1 /\ scopeEnds'[r][1].error = error[r]
        /\ error'[r] \in {error[r], "cleanup", "http"}
    BY <1>1, <1>3, <1>4, <1>6, ClosesEffect
  <2>2. RouteTyped' /\ (\A q \in Requests \ {r} : Same(q)) /\ pc'[r] = "handling"
    BY <1>1, <1>2, <1>6, <2>1 DEF RouteTyped, PCs, Same
  <2>3. Closed(r)'
    <3>1. \A i \in 1..Len(scopeEnds'[r]) : i = 1
      BY <2>1
    <3>2. PICK end : end = scopeEnds'[r][1]
      OBVIOUS
    <3>3. EndedWell(r, end)'
      BY <1>2, <1>3, <1>6, <2>1, <3>2 DEF EndedWell
    <3>4. handlerEnds'[r] = <<>> /\ Len(handlerEnds'[r]) = 0 /\ sent'[r] = 0 /\ served' = served
      BY <1>2, <1>3, <1>6
    <3> QED
      BY <1>6, <2>1, <3>1, <3>2, <3>3, <3>4 DEF Closed, Carried
  <2>4. Place(r)'
    BY <1>2, <1>3, <1>6, <2>1, <2>2 DEF Place
  <2> QED
    BY <1>2, <2>2, <2>3, <2>4, RouteOf
<1>7. ASSUME ~served.handler, served.kind = "class" \/ error[r] = NoError,
             served.kind # "dependency", UNCHANGED <<slot, scopeEnds, error, handlerEnds>>
      PROVE  RouteInv'
  <2>1. RouteTyped' /\ (\A q \in Requests \ {r} : Same(q)) /\ pc'[r] = "handling"
    BY <1>1, <1>2, <1>7 DEF RouteTyped, PCs, Same
  <2>2. Place(r)' /\ Closed(r)'
    BY <1>2, <1>3, <1>7, <2>1 DEF Place, Closed, Carried
  <2> QED
    BY <1>2, <2>1, <2>2, RouteOf
<1> QED
  BY <1>5, <1>6, <1>7 DEF Unwind

LEMMA HandleRoute ==
    ASSUME RouteInv, NEW r \in Requests, Handle(r) PROVE RouteInv'
<1>1. RouteTyped /\ Place(r) /\ Closed(r) /\ error[r] \in Errors
  BY DEF RouteInv, RouteTyped
<1>2. PICK e : e = IF error[r] = "http" /\ served.kind # "class" THEN NoError ELSE error[r]
  OBVIOUS
<1>3. PICK to : to = IF e = NoError /\ served.kind = "route" THEN "sending" ELSE "closing"
  OBVIOUS
<1>4. /\ pc[r] = "handling" /\ pc' = [pc EXCEPT ![r] = to] /\ error' = [error EXCEPT ![r] = e]
      /\ UNCHANGED <<served, slot, scopeEnds, handlerEnds, raised, sent>>
  BY <1>2, <1>3 DEF Handle, Go
<1>5. e \in Errors /\ to \in PCs
  BY <1>1, <1>2, <1>3 DEF Errors, Raises, NoError, PCs
<1>6. /\ RouteTyped' /\ (\A q \in Requests \ {r} : Same(q))
      /\ pc'[r] = to /\ error'[r] = e
  <2> HIDE DEF Errors, PCs
  <2> QED
    BY <1>1, <1>4, <1>5 DEF RouteTyped, Same
<1>7. Closed(r)'
  <2>1. Carried(r)'
    <3> SUFFICES ASSUME NEW j \in 1..Len(handlerEnds[r]), Unanswered(handlerEnds[r][j].left)
                 PROVE  /\ sent[r] = 0 /\ to = "closing" /\ e = handlerEnds[r][j].left
                        /\ \A i \in 1..Len(scopeEnds[r]) :
                              scopeEnds[r][i].error = handlerEnds[r][j].left
      BY <1>4, <1>6 DEF Carried
    <3>1. /\ sent[r] = 0 /\ error[r] = handlerEnds[r][j].left
          /\ \A i \in 1..Len(scopeEnds[r]) : scopeEnds[r][i].error = handlerEnds[r][j].left
      BY <1>1, <1>4 DEF Closed, Carried
    <3> QED
      BY <1>2, <1>3, <3>1 DEF Unanswered, NoError
  <2> QED
    BY <1>1, <1>4, <2>1 DEF Closed, EndedWell, HandledWell
<1>8. Place(r)'
  BY <1>1, <1>2, <1>3, <1>4, <1>6 DEF Place, NoError
<1> QED
  BY <1>4, <1>6, <1>7, <1>8, RouteOf

LEMMA SendRoute ==
    ASSUME RouteInv, NEW r \in Requests, Send(r) PROVE RouteInv'
<1>1. RouteTyped /\ Place(r) /\ Closed(r) /\ sent[r] \in Nat
  BY DEF RouteInv, RouteTyped
<1>2. pc[r] = "sending" /\ UNCHANGED <<served, slot, scopeEnds, handlerEnds, raised>>
  BY DEF Send
<1>3. /\ served.kind = "route" /\ error[r] = NoError /\ (served.handler => handlerEnds[r] # <<>>)
      /\ slot[r] /\ ~served.handler => raised[r] = NoError
      /\ IF slot[r] THEN scopeEnds[r] = <<>> ELSE Len(scopeEnds[r]) = 1
  BY <1>1, <1>2 DEF Place
<1>4. ASSUME sent' = [sent EXCEPT ![r] = @ + 1], UNCHANGED <<pc, error>>
      PROVE  RouteInv'
  <2>1. PICK n \in Nat : n = sent[r] + 1
    BY <1>1
  <2>2. sent' = [sent EXCEPT ![r] = n]
    BY <1>4, <2>1
  <2>3. RouteTyped' /\ (\A q \in Requests \ {r} : Same(q)) /\ sent'[r] = n
    BY <1>1, <1>2, <1>4, <2>2 DEF RouteTyped, Same
  <2>4. Closed(r)'
    BY <1>1, <1>2, <1>3, <1>4 DEF Closed, Carried, EndedWell, HandledWell
  <2>5. Place(r)'
    BY <1>1, <1>2, <1>3, <1>4 DEF Place, NoError
  <2> QED
    BY <1>2, <2>3, <2>4, <2>5, RouteOf
<1>5. ASSUME sent[r] = Sent, Go(r, "closing"), UNCHANGED <<sent, error>>
      PROVE  RouteInv'
  <2>1. RouteTyped' /\ (\A q \in Requests \ {r} : Same(q)) /\ pc'[r] = "closing"
    BY <1>1, <1>2, <1>5 DEF RouteTyped, Same, Go, PCs
  <2>2. Closed(r)'
    BY <1>1, <1>2, <1>5 DEF Closed, Carried, EndedWell, HandledWell
  <2>3. Place(r)'
    BY <1>1, <1>2, <1>3, <1>5, <2>1 DEF Place, NoError
  <2> QED
    BY <1>2, <2>1, <2>2, <2>3, RouteOf
<1>6. ASSUME error' = [error EXCEPT ![r] = "send"], Go(r, "closing"), UNCHANGED sent
      PROVE  RouteInv'
  <2>1. RouteTyped' /\ (\A q \in Requests \ {r} : Same(q)) /\ pc'[r] = "closing" /\ error'[r] = "send"
    BY <1>1, <1>2, <1>6 DEF RouteTyped, Same, Go, PCs, Errors
  <2>2. Closed(r)'
    BY <1>1, <1>2, <1>6 DEF Closed, Carried, EndedWell, HandledWell
  <2>3. Place(r)'
    BY <1>1, <1>2, <1>3, <1>6, <2>1 DEF Place, NoError
  <2> QED
    BY <1>2, <2>1, <2>2, <2>3, RouteOf
<1> QED
  BY <1>4, <1>5, <1>6 DEF Send

LEMMA CloseRoute ==
    ASSUME RouteInv, NEW r \in Requests, Close(r) PROVE RouteInv'
<1>1. RouteTyped /\ Place(r) /\ Closed(r) /\ error[r] \in Errors
  BY DEF RouteInv, RouteTyped
<1>2. /\ pc[r] = "closing" /\ Closes(r, error[r]) /\ pc' = [pc EXCEPT ![r] = "leaving"]
      /\ UNCHANGED <<served, handlerEnds, raised, sent>>
  BY DEF Close, Go
<1>3. /\ IF slot[r] THEN scopeEnds[r] = <<>> ELSE Len(scopeEnds[r]) = 1
      /\ slot[r] /\ ~served.handler /\ raised[r] # NoError => error[r] = raised[r]
      /\ served.kind = "route" /\ error[r] = NoError => sent[r] = Sent
      /\ error[r] # "inactive"
  BY <1>1, <1>2 DEF Place
<1>4. /\ slot' \in [Requests -> BOOLEAN] /\ scopeEnds' \in [Requests -> Ends]
      /\ error' \in [Requests -> Errors]
      /\ \A q \in Requests \ {r} : slot'[q] = slot[q] /\ scopeEnds'[q] = scopeEnds[q]
                                      /\ error'[q] = error[q]
      /\ ~slot'[r]
      /\ slot[r] => /\ Len(scopeEnds'[r]) = 1 /\ scopeEnds'[r][1].error = error[r]
                    /\ scopeEnds'[r][1].at = sent[r] /\ error'[r] \in {error[r], "cleanup", "http"}
      /\ ~slot[r] => scopeEnds'[r] = scopeEnds[r] /\ error'[r] = error[r]
  BY <1>1, <1>2, <1>3, ClosesEffect
<1>5. RouteTyped' /\ (\A q \in Requests \ {r} : Same(q)) /\ pc'[r] = "leaving"
  BY <1>1, <1>2, <1>4 DEF RouteTyped, PCs, Same
<1>6. Len(scopeEnds'[r]) = 1 /\ error'[r] # "inactive"
  BY <1>3, <1>4
<1>7. Closed(r)'
  <2>1. CASE slot[r]
    <3>1. PICK end : end = scopeEnds'[r][1]
      OBVIOUS
    <3>2. \A i \in 1..Len(scopeEnds'[r]) : i = 1
      BY <1>6
    <3>3. EndedWell(r, end)'
      BY <1>2, <1>3, <1>4, <2>1, <3>1 DEF EndedWell
    <3>4. Carried(r)'
      <4> SUFFICES ASSUME NEW j \in 1..Len(handlerEnds[r]), Unanswered(handlerEnds[r][j].left)
                   PROVE  /\ sent[r] = 0 /\ end.error = handlerEnds[r][j].left
        BY <1>2, <1>5, <3>1, <3>2 DEF Carried
      <4>1. sent[r] = 0 /\ error[r] = handlerEnds[r][j].left
        BY <1>1, <1>2 DEF Closed, Carried
      <4> QED
        BY <1>4, <2>1, <3>1, <4>1
    <3>5. /\ Len(handlerEnds[r]) <= 1
          /\ \A i \in 1..Len(handlerEnds[r]) : HandledWell(r, handlerEnds[r][i])'
          /\ sent'[r] > 0 /\ served'.handler => handlerEnds'[r] # <<>>
      BY <1>1, <1>2 DEF Closed, HandledWell
    <3>6. \A i \in 1..Len(scopeEnds'[r]) : EndedWell(r, scopeEnds[r][i])'
      BY <1>2, <3>1, <3>2, <3>3 DEF EndedWell
    <3> QED
      BY <1>2, <1>6, <3>4, <3>5, <3>6 DEF Closed
  <2>2. CASE ~slot[r]
    BY <1>1, <1>2, <1>4, <1>5, <2>2 DEF Closed, Carried, EndedWell, HandledWell
  <2> QED
    BY <2>1, <2>2
<1>8. Place(r)'
  BY <1>2, <1>5, <1>6 DEF Place
<1> QED
  BY <1>2, <1>5, <1>7, <1>8, RouteOf

LEMMA RouteUnchanged ==
    ASSUME RouteInv, UNCHANGED <<served, pc, route>>
    PROVE  RouteInv'
BY DEF RouteInv, RouteTyped, Place, Closed, Carried, EndedWell, HandledWell, route

LEMMA RouteInit == Init => RouteInv
<1> SUFFICES ASSUME Init PROVE RouteInv
  OBVIOUS
<1>1. <<>> \in Ends /\ <<>> \in HandlerEnds /\ Len(<<>>) = 0
  BY DEF Ends, HandlerEnds
<1>2. "none" \in Errors /\ "none" \in Raises /\ "idle" \in PCs
  BY DEF Errors, Raises, PCs
<1>3. RouteTyped
  <2> HIDE DEF Ends, HandlerEnds, Errors, Raises, PCs
  <2> QED
    BY <1>1, <1>2 DEF Init, RouteTyped, NoError
<1>4. \A r \in Requests : Place(r) /\ Closed(r)
  BY <1>1 DEF Init, Place, Closed, Carried, NoError
<1> QED
  BY <1>3, <1>4 DEF RouteInv, Init

-----------------------------------------------------------------------------
(* The chains of messages                                                  *)

Envelopes == [message : Nat, correlation : Nat, causation : Nat]
Messages == [message : Nat, correlation : Nat, causation : Nat, by : Nat]
Handlings == [envelope : Envelopes, before : Envelopes]

ChainTyped ==
    /\ chain \in [Requests -> Seq(Messages)] /\ current \in [Requests -> Envelopes]
    /\ handling \in [Requests -> Seq(Handlings)] /\ ids \in Nat /\ ids > 0
    /\ pc \in [Requests -> PCs]

InProgress(r) == pc[r] \notin {"idle", "done"}
Named(r) == served.trust /\ served.header[r] = "caller"

\* What is being handled for a request is a stack: each message was emitted while the one
\* below it was current, and the one on top is current in the request's task.
Stacked(r) ==
    /\ ~InProgress(r) => handling[r] = <<>>
    /\ pc[r] = "idle" => chain[r] = <<>>
    /\ InProgress(r) => /\ handling[r] # <<>> /\ chain[r] # <<>>
                        /\ current[Served(r)] = handling[r][Len(handling[r])].envelope
    /\ pc[r] # "endpoint" => Len(handling[r]) <= 1
    /\ \A i \in 1..Len(handling[r]) :
          /\ handling[r][i].envelope.message > 0
          /\ handling[r][i].envelope.correlation = chain[r][1].correlation
          /\ i > 1 => handling[r][i].before = handling[r][i - 1].envelope

\* The chain's messages follow their causes; it is the caller's or has an id of its own.
Follows(r) ==
    /\ \A i \in 1..Len(chain[r]) :
          /\ chain[r][i].correlation = chain[r][1].correlation
          /\ chain[r][i].causation = chain[r][i].by
    /\ chain[r] # <<>> =>
          \/ Named(r) /\ chain[r][1].correlation = Caller
          \/ Caller < chain[r][1].correlation /\ chain[r][1].correlation < ids

\* A task serves one request at a time, and two requests have one chain only if the caller
\* gave it.
Alone(r, q) == Served(r) = Served(q) => ~InProgress(r) \/ ~InProgress(q)
Apart(r, q) ==
    (chain[r] # <<>> /\ chain[q] # <<>> /\ chain[r][1].correlation = chain[q][1].correlation) =>
        chain[r][1].correlation = Caller

ChainInv ==
    /\ served \in Configurations /\ ChainTyped
    /\ \A r \in Requests : Stacked(r) /\ Follows(r)
    /\ \A r, q \in Requests : r # q => Alone(r, q) /\ Apart(r, q)

\* A request of which nothing changes.
LEMMA OtherChain ==
    ASSUME NEW q \in Requests, Stacked(q), Follows(q), ids \in Nat, ids' \in Nat, ids' >= ids,
           chain[q] \in Seq(Messages),
           chain'[q] = chain[q], handling'[q] = handling[q], pc'[q] = pc[q], served' = served,
           InProgress(q) => current'[Served(q)] = current[Served(q)]
    PROVE  Stacked(q)' /\ Follows(q)'
<1>1. Stacked(q)'
  BY DEF Stacked, InProgress, Served
<1>2. chain[q] # <<>> => chain[q][1] \in Messages
  OBVIOUS
<1>3. chain[q] # <<>> => chain[q][1].correlation \in Nat
  BY <1>2 DEF Messages
<1>4. Follows(q)'
  BY <1>3 DEF Follows, Named
<1> QED
  BY <1>1, <1>4

\* It is enough to see to the request that takes the step.
LEMMA ChainOf ==
    ASSUME ChainInv, served' = served, ChainTyped', ids' >= ids, NEW r \in Requests,
           \A q \in Requests \ {r} :
              /\ chain'[q] = chain[q] /\ handling'[q] = handling[q] /\ pc'[q] = pc[q]
              /\ InProgress(q) => current'[Served(q)] = current[Served(q)]
              /\ Alone(r, q)' /\ Apart(r, q)',
           Stacked(r)', Follows(r)'
    PROVE  ChainInv'
<1>1. ASSUME NEW q \in Requests \ {r} PROVE Stacked(q)' /\ Follows(q)'
  BY OtherChain DEF ChainInv, ChainTyped
<1>2. ASSUME NEW q \in Requests, NEW s \in Requests, q # s PROVE Alone(q, s)' /\ Apart(q, s)'
  <2>1. CASE q = r
    BY <1>2, <2>1
  <2>2. CASE s = r
    <3>1. q \in Requests \ {r}
      BY <1>2, <2>2
    <3>2. Alone(r, q)' /\ Apart(r, q)'
      BY <3>1
    <3> QED
      BY <2>2, <3>2 DEF Alone, Apart
  <2>3. CASE q # r /\ s # r
    <3>1. Alone(q, s) /\ Apart(q, s)
      BY <1>2 DEF ChainInv
    <3> QED
      BY <2>3, <3>1 DEF Alone, Apart, InProgress, Served
  <2> QED
    BY <2>1, <2>2, <2>3
<1> QED
  BY <1>1, <1>2 DEF ChainInv

LEMMA ChainQuiet ==
    ASSUME ChainInv, NEW r \in Requests, UNCHANGED <<served, envelopes>>,
           InProgress(r), Len(handling[r]) <= 1, NEW to \in PCs \ {"idle", "done"},
           pc' = [pc EXCEPT ![r] = to]
    PROVE  ChainInv'
<1>1. ChainTyped /\ Stacked(r) /\ Follows(r)
  BY DEF ChainInv
<1>2. /\ chain' = chain /\ handling' = handling /\ current' = current /\ ids' = ids
      /\ served' = served
  BY DEF envelopes
<1>3. pc' \in [Requests -> PCs] /\ pc'[r] = to /\ \A q \in Requests \ {r} : pc'[q] = pc[q]
  <2> HIDE DEF PCs
  <2> QED
    BY <1>1 DEF ChainTyped
<1>4. ChainTyped' /\ ids' >= ids
  BY <1>1, <1>2, <1>3 DEF ChainTyped
<1>5. Stacked(r)' /\ Follows(r)'
  BY <1>1, <1>2, <1>3 DEF Stacked, Follows, InProgress, Served, Named
<1>6. \A q \in Requests \ {r} : Alone(r, q)' /\ Apart(r, q)'
  <2>1. \A q \in Requests \ {r} : Alone(r, q) /\ Apart(r, q)
    BY DEF ChainInv
  <2> QED
    BY <1>2, <1>3, <2>1 DEF Alone, Apart, InProgress, Served
<1> QED
  BY <1>2, <1>3, <1>4, <1>5, <1>6, ChainOf

LEMMA ChainUnchanged ==
    ASSUME ChainInv, UNCHANGED <<served, pc, envelopes>>
    PROVE  ChainInv'
<1>1. /\ chain' = chain /\ handling' = handling /\ current' = current /\ ids' = ids
      /\ served' = served /\ pc' = pc
  BY DEF envelopes
<1>2. ChainTyped'
  BY <1>1 DEF ChainInv, ChainTyped
<1>3. \A r \in Requests : Stacked(r)' /\ Follows(r)'
  BY <1>1 DEF ChainInv, Stacked, Follows, InProgress, Served, Named
<1>4. \A r, q \in Requests : r # q => Alone(r, q)' /\ Apart(r, q)'
  BY <1>1 DEF ChainInv, Alone, Apart, InProgress, Served
<1> QED
  BY <1>1, <1>2, <1>3, <1>4 DEF ChainInv

LEMMA ChainInit == Init => ChainInv
<1> SUFFICES ASSUME Init PROVE ChainInv
  OBVIOUS
<1>1. NoEnvelope \in Envelopes
  BY DEF NoEnvelope, Envelopes
<1>2. ChainTyped
  <2>1. "idle" \in PCs
    BY DEF PCs
  <2> HIDE DEF PCs, Envelopes, Messages, Handlings
  <2> QED
    BY <1>1, <2>1 DEF Init, ChainTyped
<1>3. \A r \in Requests : pc[r] = "idle" /\ chain[r] = <<>> /\ handling[r] = <<>>
                           /\ Len(chain[r]) = 0 /\ Len(handling[r]) = 0
  BY DEF Init
<1> QED
  BY <1>2, <1>3 DEF ChainInv, Init, Stacked, Follows, Alone, Apart, InProgress

\* The task that takes up a request serves no other one.
LEMMA ReceiveChain ==
    ASSUME ChainInv, NEW r \in Requests, Receive(r) PROVE ChainInv'
<1>1. ChainTyped /\ Stacked(r) /\ ids \in Nat /\ ids > 0 /\ served \in Configurations
  BY DEF ChainInv, ChainTyped
<1>2. Served(r) \in Requests /\ \A q \in Requests : Served(q) \in Requests
  BY <1>1, ServingTyped
<1>3. current[Served(r)] \in Envelopes
  BY <1>1, <1>2 DEF ChainTyped
<1>4. PICK c \in Nat : /\ c = Correlation(r)
                       /\ (c = Caller /\ Named(r)) \/ c = ids + 1
  BY <1>1 DEF Correlation, Caller, Named
<1>5. PICK e : e = [message |-> ids, correlation |-> Correlation(r), causation |-> 0]
  OBVIOUS
<1>6. e \in Envelopes /\ e.message = ids /\ e.correlation = c /\ e.causation = 0
  BY <1>1, <1>4, <1>5 DEF Envelopes
<1>7. PICK m : m = Message(e, 0)
  OBVIOUS
<1>8. m \in Messages /\ m.correlation = c /\ m.causation = 0 /\ m.by = 0
  BY <1>1, <1>6, <1>7 DEF Messages, Message
<1>9. PICK h : h = [envelope |-> e, before |-> current[Served(r)]]
  OBVIOUS
<1>10. h \in Handlings /\ h.envelope = e
  BY <1>3, <1>6, <1>9 DEF Handlings
<1>11. /\ pc[r] = "idle" /\ pc' = [pc EXCEPT ![r] = "received"] /\ served' = served
       /\ \A q \in Requests \ {r} : Served(q) = Served(r) => ~InProgress(q)
       /\ chain' = [chain EXCEPT ![r] = <<m>>]
       /\ handling' = [handling EXCEPT ![r] = <<h>>]
       /\ current' = [current EXCEPT ![Served(r)] = e]
       /\ ids' = ids + 2
  BY <1>5, <1>7, <1>9 DEF Receive, Go, InProgress
<1>12. /\ chain' \in [Requests -> Seq(Messages)] /\ chain'[r] = <<m>>
       /\ handling' \in [Requests -> Seq(Handlings)] /\ handling'[r] = <<h>>
       /\ current' \in [Requests -> Envelopes] /\ current'[Served(r)] = e
       /\ pc' \in [Requests -> PCs] /\ pc'[r] = "received"
       /\ \A q \in Requests \ {r} : /\ chain'[q] = chain[q] /\ handling'[q] = handling[q]
                                    /\ pc'[q] = pc[q]
                                    /\ InProgress(q) => current'[Served(q)] = current[Served(q)]
  <2>1. "received" \in PCs
    BY DEF PCs
  <2>2. <<m>> \in Seq(Messages) /\ <<h>> \in Seq(Handlings)
    BY <1>8, <1>10
  <2> HIDE DEF PCs, Messages, Envelopes, Handlings
  <2> QED
    BY <1>1, <1>2, <1>6, <1>11, <2>1, <2>2 DEF ChainTyped
<1>13. ids' \in Nat /\ ids' > 0 /\ ids' >= ids /\ ids' = ids + 2
  BY <1>1, <1>11
<1>14. ChainTyped'
  BY <1>12, <1>13 DEF ChainTyped
<1>15. /\ Len(chain'[r]) = 1 /\ chain'[r][1] = m /\ chain'[r] # <<>>
       /\ Len(handling'[r]) = 1 /\ handling'[r][1] = h /\ handling'[r] # <<>>
  BY <1>12
<1>16. Stacked(r)'
  <2>1. current'[Served(r)'] = e
    BY <1>11, <1>12 DEF Served
  <2> QED
    BY <1>1, <1>6, <1>8, <1>10, <1>12, <1>15, <2>1 DEF Stacked, InProgress
<1>17. Follows(r)'
  <2>1. (c = Caller /\ Named(r)') \/ (Caller < c /\ c < ids')
    BY <1>1, <1>4, <1>11, <1>13 DEF Named, Caller
  <2> QED
    BY <1>8, <1>15, <2>1 DEF Follows
<1>18. ASSUME NEW q \in Requests \ {r} PROVE Alone(r, q)' /\ Apart(r, q)'
  <2>1. Alone(r, q)'
    BY <1>11, <1>12 DEF Alone, InProgress, Served
  <2>2. Apart(r, q)'
    <3>1. Follows(q) /\ chain'[q] = chain[q]
      BY <1>12, <1>18 DEF ChainInv
    <3>2. chain[q] # <<>> => chain[q][1].correlation \in Nat
      <4>1. chain[q] \in Seq(Messages)
        BY <1>1 DEF ChainTyped
      <4>2. chain[q] # <<>> => chain[q][1] \in Messages
        BY <4>1
      <4> QED
        BY <4>2 DEF Messages
    <3>3. chain[q] # <<>> => chain[q][1].correlation # ids + 1
      BY <1>1, <3>1, <3>2 DEF Follows, Caller
    <3> QED
      BY <1>4, <1>8, <1>15, <3>1, <3>3 DEF Apart
  <2> QED
    BY <2>1, <2>2
<1> QED
  BY <1>11, <1>12, <1>13, <1>14, <1>16, <1>17, <1>18, ChainOf

\* A message is emitted and its handler begins.
LEMMA EmitChain ==
    ASSUME ChainInv, NEW r \in Requests, Emit(r) PROVE ChainInv'
<1>1. /\ ChainTyped /\ Stacked(r) /\ Follows(r) /\ ids \in Nat /\ ids > 0
      /\ served \in Configurations
  BY DEF ChainInv, ChainTyped
<1>2. Served(r) \in Requests /\ \A q \in Requests : Served(q) \in Requests
  BY <1>1, ServingTyped
<1>3. pc[r] = "endpoint" /\ InProgress(r)
  BY DEF Emit, Running, InProgress
<1>4. PICK now : now = current[Served(r)]
  OBVIOUS
<1>5. PICK n \in Nat : n = Len(handling[r])
  BY <1>1 DEF ChainTyped
<1>6. /\ handling[r] \in Seq(Handlings) /\ handling[r] # <<>> /\ n \in 1..Len(handling[r])
      /\ now = handling[r][n].envelope /\ now \in Envelopes
      /\ chain[r] \in Seq(Messages) /\ chain[r] # <<>>
  BY <1>1, <1>2, <1>3, <1>4, <1>5 DEF ChainTyped, Stacked
<1>7. now.message > 0 /\ now.correlation = chain[r][1].correlation
        /\ now.message \in Nat /\ now.correlation \in Nat
  BY <1>1, <1>6 DEF Stacked, Envelopes
<1>8. now # NoEnvelope
  BY <1>7 DEF NoEnvelope
<1>9. PICK e : e = Child(now)
  OBVIOUS
<1>10. e \in Envelopes /\ e.message = ids /\ e.correlation = now.correlation
         /\ e.causation = now.message
  BY <1>1, <1>7, <1>9 DEF Child, Envelopes
<1>11. PICK m : m = Message(e, now.message)
  OBVIOUS
<1>12. m \in Messages /\ m.correlation = now.correlation /\ m.causation = now.message
         /\ m.by = now.message
  BY <1>7, <1>10, <1>11 DEF Messages, Message, Envelopes
<1>13. PICK h : h = [envelope |-> e, before |-> now]
  OBVIOUS
<1>14. h \in Handlings /\ h.envelope = e /\ h.before = now
  BY <1>6, <1>10, <1>13 DEF Handlings
<1>15. Last(handling[r]).envelope.message = now.message
  BY <1>5, <1>6 DEF Last
<1>16. /\ served' = served /\ pc' = pc
       /\ chain' = [chain EXCEPT ![r] = Append(chain[r], m)]
       /\ handling' = [handling EXCEPT ![r] = Append(handling[r], h)]
       /\ current' = [current EXCEPT ![Served(r)] = e]
       /\ ids' = ids + 2
  BY <1>4, <1>8, <1>9, <1>11, <1>13, <1>15 DEF Emit
<1>17. \A q \in Requests \ {r} : Served(q) = Served(r) => ~InProgress(q)
  BY <1>3 DEF ChainInv, Alone
<1>18. PICK ms, hs : ms = Append(chain[r], m) /\ hs = Append(handling[r], h)
  OBVIOUS
<1>19. /\ ms \in Seq(Messages) /\ ms # <<>> /\ Len(ms) = Len(chain[r]) + 1
       /\ Len(chain[r]) \in Nat /\ Len(chain[r]) > 0 /\ ms[Len(chain[r]) + 1] = m
       /\ \A i \in 1..Len(chain[r]) : ms[i] = chain[r][i]
  BY <1>6, <1>12, <1>18
<1>20. /\ hs \in Seq(Handlings) /\ hs # <<>> /\ Len(hs) = n + 1 /\ hs[n + 1] = h
       /\ \A i \in 1..n : hs[i] = handling[r][i]
  BY <1>5, <1>6, <1>14, <1>18
<1>21. /\ chain' \in [Requests -> Seq(Messages)] /\ chain'[r] = ms
       /\ handling' \in [Requests -> Seq(Handlings)] /\ handling'[r] = hs
       /\ current' \in [Requests -> Envelopes] /\ current'[Served(r)] = e
       /\ \A q \in Requests \ {r} : /\ chain'[q] = chain[q] /\ handling'[q] = handling[q]
                                    /\ pc'[q] = pc[q]
                                    /\ InProgress(q) => current'[Served(q)] = current[Served(q)]
  <2> HIDE DEF Messages, Envelopes, Handlings
  <2>1. chain' = [chain EXCEPT ![r] = ms] /\ handling' = [handling EXCEPT ![r] = hs]
    BY <1>16, <1>18
  <2>2. current' = [current EXCEPT ![Served(r)] = e] /\ pc' = pc
    BY <1>16
  <2> QED
    BY <1>1, <1>2, <1>10, <1>17, <1>19, <1>20, <2>1, <2>2 DEF ChainTyped
<1>22. ids' \in Nat /\ ids' > 0 /\ ids' >= ids
  BY <1>1, <1>16
<1>23. ChainTyped'
  BY <1>1, <1>16, <1>21, <1>22 DEF ChainTyped
<1>24. 1 \in 1..Len(chain[r]) /\ ms[1] = chain[r][1]
  BY <1>19
<1>25. Stacked(r)'
  <2>1. Served(r)' = Served(r) /\ pc'[r] = "endpoint"
    BY <1>3, <1>16 DEF Served
  <2>2. ASSUME NEW i \in 1..Len(hs)
        PROVE  /\ hs[i].envelope.message > 0
               /\ hs[i].envelope.correlation = ms[1].correlation
               /\ i > 1 => hs[i].before = hs[i - 1].envelope
    <3>1. CASE i \in 1..n
      <4>1. i > 1 => i - 1 \in 1..n
        BY <3>1
      <4>2. hs[i] = handling[r][i] /\ (i > 1 => hs[i - 1] = handling[r][i - 1])
        BY <1>20, <3>1, <4>1
      <4> QED
        BY <1>1, <1>5, <1>24, <3>1, <4>2 DEF Stacked
    <3>2. CASE i = n + 1
      <4>1. hs[i] = h /\ i - 1 = n /\ hs[n] = handling[r][n]
        BY <1>5, <1>6, <1>20, <3>2
      <4> QED
        BY <1>1, <1>6, <1>7, <1>10, <1>14, <1>24, <4>1
    <3> QED
      BY <1>20, <3>1, <3>2
  <2>3. hs[Len(hs)].envelope = e
    BY <1>14, <1>20
  <2> QED
    BY <1>19, <1>20, <1>21, <2>1, <2>2, <2>3 DEF Stacked, InProgress
<1>26. Follows(r)'
  <2>1. ASSUME NEW i \in 1..Len(ms)
        PROVE  ms[i].correlation = ms[1].correlation /\ ms[i].causation = ms[i].by
    <3>1. CASE i \in 1..Len(chain[r])
      BY <1>1, <1>19, <1>24, <3>1 DEF Follows
    <3>2. CASE i = Len(chain[r]) + 1
      BY <1>7, <1>12, <1>19, <1>24, <3>2
    <3> QED
      BY <1>19, <3>1, <3>2
  <2>2. Named(r)' \/ ~Named(r)
    BY <1>16 DEF Named
  <2>3. ms[1].correlation \in Nat
    BY <1>7, <1>24
  <2>4. \/ Named(r) /\ ms[1].correlation = Caller
        \/ Caller < ms[1].correlation /\ ms[1].correlation < ids
    BY <1>1, <1>6, <1>24 DEF Follows
  <2>5. Caller < ms[1].correlation /\ ms[1].correlation < ids => ms[1].correlation < ids'
    BY <1>1, <1>16, <2>3
  <2> QED
    BY <1>21, <2>1, <2>2, <2>4, <2>5 DEF Follows
<1>27. ASSUME NEW q \in Requests \ {r} PROVE Alone(r, q)' /\ Apart(r, q)'
  <2>1. Alone(r, q) /\ Apart(r, q)
    BY DEF ChainInv
  <2>2. chain'[q] = chain[q] /\ chain'[r] = ms
    BY <1>21, <1>27
  <2> QED
    BY <1>6, <1>16, <1>24, <2>1, <2>2 DEF Alone, Apart, InProgress, Served
<1> QED
  BY <1>16, <1>21, <1>22, <1>23, <1>25, <1>26, <1>27, ChainOf

\* A handler ends: what was current before it is current again.
LEMMA RestoredChain ==
    ASSUME ChainInv, NEW r \in Requests, InProgress(r), served' = served,
           current' = Restored(r), handling' = [handling EXCEPT ![r] = Front(@)],
           UNCHANGED <<chain, ids>>, pc' \in [Requests -> PCs],
           \A q \in Requests \ {r} : pc'[q] = pc[q],
           \/ Len(handling[r]) > 1 /\ pc'[r] = pc[r]
           \/ Len(handling[r]) <= 1 /\ pc'[r] = "done"
    PROVE  ChainInv'
<1>1. /\ ChainTyped /\ Stacked(r) /\ Follows(r) /\ ids \in Nat /\ ids > 0
      /\ served \in Configurations
  BY DEF ChainInv, ChainTyped
<1>2. Served(r) \in Requests /\ \A q \in Requests : Served(q) \in Requests
  BY <1>1, ServingTyped
<1>3. PICK n \in Nat : n = Len(handling[r])
  BY <1>1 DEF ChainTyped
<1>4. /\ handling[r] \in Seq(Handlings) /\ handling[r] # <<>> /\ n \in 1..n /\ chain[r] # <<>>
      /\ handling[r][n] \in Handlings
  BY <1>1, <1>3 DEF ChainTyped, Stacked
<1>5. PICK before \in Envelopes : before = handling[r][n].before
  BY <1>4 DEF Handlings
<1>6. current' = [current EXCEPT ![Served(r)] = before]
  BY <1>3, <1>5 DEF Restored, Last
<1>7. PICK hs : hs = Front(handling[r])
  OBVIOUS
<1>8. /\ hs \in Seq(Handlings) /\ Len(hs) = n - 1
      /\ \A i \in 1..(n - 1) : hs[i] = handling[r][i]
  <2>1. hs = SubSeq(handling[r], 1, n - 1)
    BY <1>3, <1>7 DEF Front
  <2>2. n - 1 \in 0..n
    BY <1>4
  <2> QED
    BY <1>3, <1>4, <2>1, <2>2, SubSeqProperties
<1>9. \A q \in Requests \ {r} : Served(q) = Served(r) => ~InProgress(q)
  BY DEF ChainInv, Alone
<1>10. /\ handling' \in [Requests -> Seq(Handlings)] /\ handling'[r] = hs
       /\ current' \in [Requests -> Envelopes] /\ current'[Served(r)] = before
       /\ \A q \in Requests \ {r} : /\ handling'[q] = handling[q]
                                    /\ InProgress(q) => current'[Served(q)] = current[Served(q)]
  <2> HIDE DEF Handlings, Envelopes
  <2>1. handling' = [handling EXCEPT ![r] = hs]
    BY <1>7
  <2> QED
    BY <1>1, <1>2, <1>6, <1>8, <1>9, <2>1 DEF ChainTyped
<1>11. ChainTyped' /\ ids' >= ids
  BY <1>1, <1>10 DEF ChainTyped
<1>12. Follows(r)'
  BY <1>1 DEF Follows, Named
<1>13. Stacked(r)'
  <2>1. \A i \in 1..(n - 1) : i \in 1..n /\ (i > 1 => i - 1 \in 1..(n - 1))
    BY <1>4
  <2>2. \A i \in 1..Len(hs) :
          /\ hs[i].envelope.message > 0
          /\ hs[i].envelope.correlation = chain[r][1].correlation
          /\ i > 1 => hs[i].before = hs[i - 1].envelope
    BY <1>1, <1>3, <1>8, <2>1, SMTT(40) DEF Stacked
  <2>3. CASE n > 1 /\ pc'[r] = pc[r]
    <3>1. n - 1 \in 1..(n - 1) /\ hs # <<>>
      BY <1>8, <2>3
    <3>2. before = handling[r][n - 1].envelope
      BY <1>1, <1>3, <1>4, <1>5, <2>3 DEF Stacked
    <3>3. before = hs[Len(hs)].envelope
      BY <1>8, <3>1, <3>2
    <3>4. current'[Served(r)'] = before
      BY <1>10 DEF Served
    <3>5. pc[r] = "endpoint"
      BY <1>1, <1>3, <2>3 DEF Stacked
    <3> QED
      BY <1>4, <1>10, <2>2, <2>3, <3>1, <3>3, <3>4, <3>5 DEF Stacked, InProgress
  <2>4. CASE n <= 1 /\ pc'[r] = "done"
    <3>1. n = 1 /\ hs = <<>> /\ Len(hs) = 0
      BY <1>4, <1>8, <2>4
    <3> QED
      BY <1>10, <2>2, <2>4, <3>1 DEF Stacked, InProgress
  <2> QED
    BY <1>3, <2>3, <2>4
<1>14. \A q \in Requests \ {r} : Alone(r, q)' /\ Apart(r, q)'
  <2>1. \A q \in Requests \ {r} : Alone(r, q) /\ Apart(r, q)
    BY DEF ChainInv
  <2> QED
    BY <2>1 DEF Alone, Apart, InProgress, Served
<1> QED
  BY <1>10, <1>11, <1>12, <1>13, <1>14, ChainOf

-----------------------------------------------------------------------------
(* The guards of the requests                                              *)

\* Nothing is emitted for a request before its guard has passed.
Guards(r) ==
    /\ pc[r] \in {"idle", "received"} => guard[r] = NotStarted
    /\ pc[r] \notin {"idle", "received"} => GuardOK(served.guard, guard[r])
    /\ pc[r] = "endpoint" => guard[r].end = "passed"
    /\ pc[r] \in {"idle", "received", "guarded"} => Len(chain[r]) <= 1
    /\ Len(chain[r]) > 1 => guard[r].end = "passed"

GuardInv ==
    /\ served \in Configurations /\ guard \in [Requests -> Progress]
    /\ chain \in [Requests -> Seq(Messages)] /\ pc \in [Requests -> PCs]
    /\ \A r \in Requests : Guards(r)

LEMMA GuardsOther ==
    ASSUME NEW q \in Requests, Guards(q), served' = served,
           pc'[q] = pc[q], guard'[q] = guard[q], chain'[q] = chain[q]
    PROVE  Guards(q)'
BY DEF Guards

LEMMA GuardsUnchanged ==
    ASSUME GuardInv, UNCHANGED <<served, pc, guard, chain>>
    PROVE  GuardInv'
BY GuardsOther DEF GuardInv

\* A request goes on, with its guard and its chain as they are.
LEMMA GuardsGo ==
    ASSUME GuardInv, NEW r \in Requests, pc[r] \notin {"idle", "received"},
           NEW to \in PCs \ {"idle", "received", "guarded"},
           to = "endpoint" => guard[r].end = "passed",
           pc' = [pc EXCEPT ![r] = to], UNCHANGED <<served, guard, chain>>
    PROVE  GuardInv'
<1>1. pc' \in [Requests -> PCs] /\ pc'[r] = to /\ \A q \in Requests \ {r} : pc'[q] = pc[q]
  <2> HIDE DEF PCs
  <2> QED
    BY DEF GuardInv
<1>2. Guards(r)'
  BY <1>1 DEF GuardInv, Guards
<1>3. \A q \in Requests \ {r} : Guards(q)'
  BY <1>1, GuardsOther DEF GuardInv
<1> QED
  BY <1>1, <1>2, <1>3 DEF GuardInv

LEMMA GuardsReceive ==
    ASSUME GuardInv, NEW r \in Requests, Receive(r), ChainTyped'
    PROVE  GuardInv'
<1>1. PICK m : chain' = [chain EXCEPT ![r] = <<m>>]
  BY DEF Receive
<1>2. /\ chain' \in [Requests -> Seq(Messages)] /\ pc' \in [Requests -> PCs]
      /\ guard' = guard /\ served' = served
  BY DEF Receive, ChainTyped
<1>3. /\ chain'[r] = <<m>> /\ Len(chain'[r]) = 1 /\ pc[r] = "idle" /\ pc'[r] = "received"
      /\ \A q \in Requests \ {r} : chain'[q] = chain[q] /\ pc'[q] = pc[q]
  BY <1>1 DEF Receive, Go, GuardInv
<1>4. Guards(r)'
  BY <1>2, <1>3 DEF GuardInv, Guards
<1>5. \A q \in Requests \ {r} : Guards(q)'
  BY <1>2, <1>3, GuardsOther DEF GuardInv
<1> QED
  BY <1>2, <1>4, <1>5 DEF GuardInv

LEMMA GuardsEmit ==
    ASSUME GuardInv, NEW r \in Requests, Emit(r), ChainTyped'
    PROVE  GuardInv'
<1>1. PICK s : chain' = [chain EXCEPT ![r] = s]
  BY DEF Emit
<1>2. /\ chain' \in [Requests -> Seq(Messages)] /\ pc' = pc
      /\ guard' = guard /\ served' = served /\ pc[r] = "endpoint"
  BY DEF Emit, ChainTyped, Running
<1>3. \A q \in Requests \ {r} : chain'[q] = chain[q]
  BY <1>1 DEF GuardInv
<1>4. Guards(r)'
  BY <1>2 DEF GuardInv, Guards
<1>5. \A q \in Requests \ {r} : Guards(q)'
  BY <1>2, <1>3, GuardsOther DEF GuardInv
<1> QED
  BY <1>2, <1>4, <1>5 DEF GuardInv

LEMMA GuardsActivate ==
    ASSUME GuardInv, NEW r \in Requests, Activate(r)
    PROVE  GuardInv'
<1>1. PICK g : g = Begun(served.guard)
  OBVIOUS
<1>2. GuardOK(served.guard, g) /\ g \in Progress
  BY <1>1, ServingTyped, BegunOK DEF GuardInv, GuardOK
<1>3. PICK to \in {"guarded", "leaving"} : pc' = [pc EXCEPT ![r] = to]
  BY DEF Activate, Go
<1>4. /\ pc[r] = "received" /\ guard' = [guard EXCEPT ![r] = g] /\ served' = served
      /\ chain' = chain
  BY <1>1 DEF Activate, envelopes
<1>5. /\ pc' \in [Requests -> PCs] /\ pc'[r] = to /\ guard' \in [Requests -> Progress]
      /\ guard'[r] = g
      /\ \A q \in Requests \ {r} : pc'[q] = pc[q] /\ guard'[q] = guard[q]
  <2>1. to \in PCs
    BY <1>3 DEF PCs
  <2> HIDE DEF PCs, Progress
  <2> QED
    BY <1>2, <1>3, <1>4, <2>1 DEF GuardInv
<1>6. Guards(r)'
  <2>1. ~(Len(chain[r]) > 1)
    BY <1>4 DEF GuardInv, Guards
  <2>2. Len(chain[r]) <= 1
    BY <1>4 DEF GuardInv, Guards
  <2> QED
    BY <1>2, <1>3, <1>4, <1>5, <2>1, <2>2 DEF Guards
<1>7. \A q \in Requests \ {r} : Guards(q)'
  BY <1>4, <1>5, GuardsOther DEF GuardInv
<1> QED
  BY <1>4, <1>5, <1>6, <1>7 DEF GuardInv

LEMMA GuardsCheck ==
    ASSUME GuardInv, NEW r \in Requests, Check(r)
    PROVE  GuardInv'
<1>1. /\ pc[r] = "guarded" /\ guard[r].end = "no" /\ GuardOK(served.guard, guard[r])
      /\ IsGuard(served.guard) /\ Len(chain[r]) <= 1
  BY ServingTyped DEF Check, GuardInv, Guards
<1>2. PICK gave \in Gave : guard' = [guard EXCEPT ![r] = AfterPart(served.guard, @, gave)]
  <2>1. \A c, kind : Gives(served.guard, c, kind) \subseteq Gave
    BY DEF Gives, Gave
  <2> QED
    BY <2>1 DEF Check
<1>3. PICK g : g = AfterPart(served.guard, guard[r], gave)
  OBVIOUS
<1>4. GuardOK(served.guard, g) /\ g \in Progress
  BY <1>1, <1>3, AfterPartOK DEF GuardOK
<1>5. /\ guard' = [guard EXCEPT ![r] = g] /\ served' = served /\ pc' = pc
      /\ chain' = chain
  BY <1>2, <1>3 DEF Check, envelopes
<1>6. /\ guard' \in [Requests -> Progress] /\ guard'[r] = g
      /\ \A q \in Requests \ {r} : guard'[q] = guard[q]
  <2> HIDE DEF Progress
  <2> QED
    BY <1>4, <1>5 DEF GuardInv
<1>7. Guards(r)'
  <2>1. ~(Len(chain[r]) > 1)
    BY <1>1 DEF GuardInv
  <2> QED
    BY <1>1, <1>4, <1>5, <1>6, <2>1 DEF Guards
<1>8. \A q \in Requests \ {r} : Guards(q)'
  BY <1>5, <1>6, GuardsOther DEF GuardInv
<1> QED
  BY <1>5, <1>6, <1>7, <1>8 DEF GuardInv

LEMMA GuardsInit == Init => GuardInv
<1> SUFFICES ASSUME Init PROVE GuardInv
  OBVIOUS
<1>1. NotStarted \in Progress
  BY DEF NotStarted, Progress
<1>2. "idle" \in PCs
  BY DEF PCs
<1>3. /\ guard \in [Requests -> Progress] /\ chain \in [Requests -> Seq(Messages)]
      /\ pc \in [Requests -> PCs]
  <2> HIDE DEF PCs, Progress, Messages
  <2> QED
    BY <1>1, <1>2 DEF Init
<1>4. \A r \in Requests : Guards(r)
  BY DEF Init, Guards
<1> QED
  BY <1>3, <1>4 DEF GuardInv, Init

-----------------------------------------------------------------------------
(* The inductive invariant and what follows from it                        *)

RequestsInv == RouteInv /\ ChainInv /\ GuardInv

LEMMA StepKeeps ==
    ASSUME RequestsInv, NEW r \in Requests, Step(r)
    PROVE  RequestsInv'
<1>0. /\ RouteInv /\ ChainInv /\ GuardInv /\ Stacked(r) /\ Guards(r)
      /\ pc \in [Requests -> PCs] /\ handling[r] \in Seq(Handlings)
  BY DEF RequestsInv, ChainInv, GuardInv, ChainTyped
<1>1. CASE Receive(r)
  <2>1. RouteInv' /\ ChainInv'
    BY <1>0, <1>1, ReceiveRoute, ReceiveChain
  <2> QED
    BY <1>0, <1>1, <2>1, GuardsReceive DEF ChainInv, RequestsInv
<1>2. CASE Emit(r)
  <2>1. RouteInv' /\ ChainInv'
    BY <1>0, <1>2, RouteUnchanged, EmitChain DEF Emit
  <2> QED
    BY <1>0, <1>2, <2>1, GuardsEmit DEF ChainInv, RequestsInv
<1>3. CASE Handled(r)
  <2>1. RouteInv'
    BY <1>0, <1>3, RouteUnchanged DEF Handled
  <2>2. ChainInv'
    <3>1. /\ InProgress(r) /\ served' = served /\ current' = Restored(r)
          /\ handling' = [handling EXCEPT ![r] = Front(@)] /\ chain' = chain /\ ids' = ids
          /\ pc' = pc /\ Len(handling[r]) > 1
      BY <1>3 DEF Handled, Running, InProgress
    <3> QED
      BY <1>0, <3>1, RestoredChain
  <2>3. GuardInv'
    BY <1>0, <1>3, GuardsUnchanged DEF Handled
  <2> QED
    BY <2>1, <2>2, <2>3 DEF RequestsInv
<1>4. CASE Leave(r)
  <2>1. RouteInv'
    BY <1>0, <1>4, LeaveRoute
  <2>2. /\ InProgress(r) /\ served' = served /\ current' = Restored(r)
        /\ handling' = [handling EXCEPT ![r] = Front(@)] /\ chain' = chain /\ ids' = ids
        /\ guard' = guard /\ pc[r] = "leaving" /\ pc' = [pc EXCEPT ![r] = "done"]
    BY <1>4 DEF Leave, InProgress, Go
  <2>3. "done" \in PCs \ {"idle", "received", "guarded"}
    BY DEF PCs
  <2>4. pc' \in [Requests -> PCs] /\ pc'[r] = "done" /\ \A q \in Requests \ {r} : pc'[q] = pc[q]
    <3> HIDE DEF PCs
    <3> QED
      BY <1>0, <2>2, <2>3
  <2>5. Len(handling[r]) <= 1
    BY <1>0, <2>2 DEF Stacked
  <2>6. ChainInv'
    BY <1>0, <2>2, <2>4, <2>5, RestoredChain
  <2>7. GuardInv'
    BY <1>0, <2>2, <2>3, GuardsGo
  <2> QED
    BY <2>1, <2>6, <2>7 DEF RequestsInv
<1>5. CASE Activate(r)
  <2>1. RouteInv' /\ GuardInv'
    BY <1>0, <1>5, ActivateRoute, GuardsActivate
  <2>2. PICK to \in {"guarded", "leaving"} : pc' = [pc EXCEPT ![r] = to]
    BY <1>5 DEF Activate, Go
  <2>3. to \in PCs \ {"idle", "done"} /\ InProgress(r) /\ Len(handling[r]) <= 1
    BY <1>0, <1>5, <2>2 DEF Activate, PCs, InProgress, Stacked
  <2>4. UNCHANGED <<served, envelopes>>
    BY <1>5 DEF Activate
  <2> QED
    BY <1>0, <2>1, <2>2, <2>3, <2>4, ChainQuiet DEF RequestsInv
<1>6. CASE Check(r)
  <2>1. RouteInv' /\ ChainInv'
    BY <1>0, <1>6, RouteUnchanged, ChainUnchanged DEF Check
  <2> QED
    BY <1>0, <1>6, <2>1, GuardsCheck DEF RequestsInv
<1>7. ASSUME RouteInv', UNCHANGED <<served, guard, envelopes>>,
             pc[r] \notin {"idle", "received", "done"}, Len(handling[r]) <= 1,
             NEW to \in {"endpoint", "unwinding", "handling", "sending", "closing", "leaving"},
             to = "endpoint" => guard[r].end = "passed", Go(r, to)
      PROVE  RequestsInv'
  <2>1. to \in PCs \ {"idle", "done"} /\ to \in PCs \ {"idle", "received", "guarded"}
          /\ InProgress(r) /\ pc' = [pc EXCEPT ![r] = to]
    BY <1>7 DEF PCs, InProgress, Go
  <2>2. chain' = chain
    BY <1>7 DEF envelopes
  <2>3. ChainInv'
    BY <1>0, <1>7, <2>1, ChainQuiet
  <2>4. GuardInv'
    BY <1>0, <1>7, <2>1, <2>2, GuardsGo
  <2> QED
    BY <1>7, <2>3, <2>4 DEF RequestsInv
<1>8. CASE Refuse(r)
  <2>1. RouteInv' /\ Len(handling[r]) <= 1 /\ pc[r] = "guarded"
    BY <1>0, <1>8, RefuseRoute DEF Refuse, Stacked
  <2>2. Go(r, "closing") /\ UNCHANGED <<served, guard, envelopes>>
    BY <1>8 DEF Refuse
  <2> QED
    BY <1>7, <2>1, <2>2
<1>9. CASE Guarded(r)
  <2>1. guard[r] \in Progress
    BY <1>0 DEF GuardInv
  <2>2. guard[r].end \in {"no", "passed", "failed", "cancelled"}
    BY <2>1 DEF Progress
  <2>3. RouteInv' /\ Len(handling[r]) <= 1 /\ pc[r] = "guarded"
    BY <1>0, <1>9, <2>2, GuardedRoute DEF Guarded, Stacked
  <2>4. PICK to \in {"endpoint", "unwinding"} :
           Go(r, to) /\ (to = "endpoint" => guard[r].end = "passed")
    BY <1>9 DEF Guarded
  <2>5. UNCHANGED <<served, guard, envelopes>>
    BY <1>9 DEF Guarded
  <2> QED
    BY <1>7, <2>3, <2>4, <2>5
<1>10. CASE Endpoint(r)
  <2>1. RouteInv' /\ Len(handling[r]) <= 1 /\ pc[r] = "endpoint"
    <3>1. RouteInv'
      BY <1>0, <1>10, EndpointEnds
    <3>2. Len(handling[r]) = 1 /\ pc[r] = "endpoint"
      BY <1>10 DEF Endpoint, Running
    <3> QED
      BY <3>1, <3>2
  <2>2. Go(r, "unwinding") /\ UNCHANGED <<served, guard, envelopes>>
    BY <1>10 DEF Endpoint
  <2> QED
    BY <1>7, <2>1, <2>2
<1>11. CASE Unwind(r)
  <2>1. RouteInv' /\ Len(handling[r]) <= 1 /\ pc[r] = "unwinding"
    BY <1>0, <1>11, UnwindRoute DEF Unwind, Stacked
  <2>2. Go(r, "handling") /\ UNCHANGED <<served, guard, envelopes>>
    BY <1>11 DEF Unwind
  <2> QED
    BY <1>7, <2>1, <2>2
<1>12. CASE Handle(r)
  <2>1. RouteInv' /\ Len(handling[r]) <= 1 /\ pc[r] = "handling"
    BY <1>0, <1>12, HandleRoute DEF Handle, Stacked
  <2>2. PICK to \in {"sending", "closing"} : Go(r, to)
    BY <1>12 DEF Handle
  <2>3. UNCHANGED <<served, guard, envelopes>>
    BY <1>12 DEF Handle
  <2> QED
    BY <1>7, <2>1, <2>2, <2>3
<1>13. CASE Send(r)
  <2>1. RouteInv' /\ Len(handling[r]) <= 1 /\ pc[r] = "sending"
    BY <1>0, <1>13, SendRoute DEF Send, Stacked
  <2>2. UNCHANGED <<served, guard, envelopes>> /\ (Go(r, "closing") \/ pc' = pc)
    BY <1>13 DEF Send
  <2>3. CASE pc' = pc
    <3>1. ChainInv'
      BY <1>0, <2>2, <2>3, ChainUnchanged
    <3>2. GuardInv'
      BY <1>0, <2>2, <2>3, GuardsUnchanged DEF envelopes
    <3> QED
      BY <2>1, <3>1, <3>2 DEF RequestsInv
  <2>4. CASE Go(r, "closing")
    BY <1>7, <2>1, <2>2, <2>4
  <2> QED
    BY <2>2, <2>3, <2>4
<1>14. CASE Close(r)
  <2>1. RouteInv' /\ Len(handling[r]) <= 1 /\ pc[r] = "closing"
    BY <1>0, <1>14, CloseRoute DEF Close, Stacked
  <2>2. Go(r, "leaving") /\ UNCHANGED <<served, guard, envelopes>>
    BY <1>14 DEF Close
  <2> QED
    BY <1>7, <2>1, <2>2
<1> QED
  BY <1>1, <1>2, <1>3, <1>4, <1>5, <1>6, <1>8, <1>9, <1>10, <1>11, <1>12, <1>13, <1>14 DEF Step

\* What follows is read off this invariant.
THEOREM Invariant == Spec => []RequestsInv
<1>1. Init => RequestsInv
  BY RouteInit, ChainInit, GuardsInit DEF RequestsInv
<1>2. RequestsInv /\ [Next]_vars => RequestsInv'
  <2> SUFFICES ASSUME RequestsInv, [Next]_vars PROVE RequestsInv'
    OBVIOUS
  <2>1. CASE Next
    BY <2>1, StepKeeps DEF Next
  <2>2. CASE UNCHANGED vars
    BY <2>2, RouteUnchanged, ChainUnchanged, GuardsUnchanged DEF vars, envelopes, RequestsInv
  <2> QED
    BY <2>1, <2>2
<1> QED
  BY <1>1, <1>2, PTL DEF Spec

\* Whatever the endpoint, its checks, the client or the cleanup do, and whatever of it the
\* framework answers, a scope is closed once, by one of the two sides that may close it, with
\* what the endpoint or its checks raised, or with what left the handler scope around them.
THEOREM ScopesEnd == Spec => []ScopesEndWithCause
<1>1. RequestsInv => ScopesEndWithCause
  <2> SUFFICES ASSUME RequestsInv, NEW r \in Requests
               PROVE  LET ends == scopeEnds[r]  handled == handlerEnds[r] IN
                      /\ Len(ends) <= 1 /\ Len(handled) <= 1
                      /\ pc[r] = "done" => (Len(ends) = 1 <=> error[r] # "inactive")
                      /\ \A i \in DOMAIN ends :
                           /\ ~served.handler /\ raised[r] # NoError => ends[i].error = raised[r]
                           /\ \A j \in DOMAIN handled :
                                Unanswered(handled[j].left) => ends[i].error = handled[j].left
                           /\ served.kind = "route" /\ ends[i].error = NoError => ends[i].at = Sent
                      /\ sent[r] > 0 /\ served.handler => handled # <<>>
                      /\ \A j \in DOMAIN handled :
                           /\ handled[j].error = raised[r] /\ handled[j].at = 0
                           /\ Unanswered(handled[j].left) => sent[r] = 0
    BY DEF ScopesEndWithCause
  <2>1. Place(r) /\ Closed(r) /\ scopeEnds[r] \in Ends /\ handlerEnds[r] \in HandlerEnds
    BY DEF RequestsInv, RouteInv, RouteTyped
  <2>2. DOMAIN scopeEnds[r] = 1..Len(scopeEnds[r]) /\ DOMAIN handlerEnds[r] = 1..Len(handlerEnds[r])
    BY <2>1 DEF Ends, HandlerEnds
  <2>3. ASSUME NEW j \in DOMAIN handlerEnds[r], Unanswered(handlerEnds[r][j].left)
        PROVE  /\ sent[r] = 0
               /\ \A i \in DOMAIN scopeEnds[r] : scopeEnds[r][i].error = handlerEnds[r][j].left
    BY <2>1, <2>2, <2>3 DEF Closed, Carried
  <2> QED
    BY <2>1, <2>2, <2>3 DEF Place, Closed, EndedWell, HandledWell
<1> QED
  BY <1>1, Invariant, PTL

\* Checks decide, in any number, order, mode and grouping.
THEOREM ChecksDecide == Spec => []ChecksGuard
<1>1. RequestsInv => ChecksGuard
  <2> SUFFICES ASSUME RequestsInv, NEW r \in Requests
               PROVE  /\ GuardSound(served.guard, guard[r])
                      /\ chain[r] # <<>> /\ Len(chain[r]) > 1 => guard[r].end = "passed"
    BY DEF ChecksGuard
  <2>1. Guards(r)
    BY DEF RequestsInv, GuardInv
  <2>2. GuardSound(served.guard, NotStarted)
    BY DEF GuardSound, NotStarted
  <2> QED
    BY <2>1, <2>2 DEF Guards, GuardOK
<1> QED
  BY <1>1, Invariant, PTL

\* Messages follow their causes, whatever requests share a task, one after the other.
THEOREM CausesFollowed == Spec => []ChainsFollowCauses
<1>1. RequestsInv => ChainsFollowCauses
  <2> SUFFICES ASSUME RequestsInv, NEW r \in Requests
               PROVE  /\ \A i \in DOMAIN chain[r] :
                            /\ chain[r][i].correlation = chain[r][1].correlation
                            /\ chain[r][i].causation = chain[r][i].by
                      /\ \A q \in Requests \ {r} :
                            chain[r] # <<>> /\ chain[q] # <<>>
                              /\ chain[r][1].correlation = chain[q][1].correlation
                            => /\ served.trust /\ served.header[r] = "caller"
                               /\ served.header[q] = "caller"
    BY DEF ChainsFollowCauses
  <2>1. Follows(r) /\ chain[r] \in Seq(Messages) /\ DOMAIN chain[r] = 1..Len(chain[r])
    BY DEF RequestsInv, ChainInv, ChainTyped
  <2>2. ASSUME NEW q \in Requests \ {r}, chain[r] # <<>>, chain[q] # <<>>,
               chain[r][1].correlation = chain[q][1].correlation
        PROVE  Named(r) /\ Named(q)
    <3>1. Follows(q) /\ Apart(r, q)
      BY DEF RequestsInv, ChainInv
    <3>2. chain[r][1].correlation = Caller /\ chain[q][1].correlation = Caller
      BY <2>2, <3>1 DEF Apart
    <3>3. ~(Caller < Caller)
      BY DEF Caller
    <3> QED
      BY <2>1, <2>2, <3>1, <3>2, <3>3 DEF Follows
  <2> QED
    BY <2>1, <2>2 DEF Follows, Named
<1> QED
  BY <1>1, Invariant, PTL
=============================================================================
