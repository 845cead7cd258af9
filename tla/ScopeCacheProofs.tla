--------------------------- MODULE ScopeCacheProofs ---------------------------
(***************************************************************************)
(* Proofs about ScopeCache, for any number of callers, entries and         *)
(* activations.  The inductive invariant IInv says where a claim is held   *)
(* (the frames between taking it and popping it), that a caller holds no   *)
(* entry twice, and where the one successful computation of an entry can   *)
(* be: in the cache, or still with the claimant about to store it.         *)
(* EnteredOK and DependOK follow a resource from its entry to its exit and *)
(* to those built from it; CyclesOK says that waiting goes one way.        *)
(* ResultOK adds what a claimant is about to return: with it, every step   *)
(* is a step of ScopedMemo or one that its callers cannot see.             *)
(***************************************************************************)
EXTENDS ScopeCache, TLAPS, WellFoundedInduction, SequenceTheorems

Holds(t, d) == frame[t][d].pc \in Computing

\* Every frame of a stack but the running one is computing; the rest are unused.
InPlace(f, d, n) ==
    /\ d < n => f.pc = "compute"
    /\ d > n => f.pc = "idle"
    /\ d <= n => f.pc # "idle" /\ f.entry \in Entries
    /\ f.pc \in Computing \cup {"lock", "wait", "reread"} => f.act \in Activations

StackOK == \A t \in Callers, d \in Depths : InPlace(frame[t][d], d, depth[t])

\* A computing frame owns the claim on its entry, and a caller has one frame per claim.
ClaimsHeld ==
    \A t \in Callers, d \in Depths :
        Holds(t, d) =>
            /\ claim[frame[t][d].entry] = t
            /\ \A i \in Depths \ {d} :
                  Holds(t, i) => frame[t][i].entry # frame[t][d].entry

\* Before its success a claimed computation has made nothing yet.
NothingMade ==
    \A t \in Callers, d \in Depths :
        frame[t][d].pc \in {"compute", "register", "append"}
            => made[frame[t][d].act][frame[t][d].entry] = 0

\* What was made for storage that is not emptied is cached, or about to be.
MadeIsCached ==
    \A a \in Activations, e \in Entries :
        made[a][e] # 0 /\ ~Emptied(a) /\ e \notin cached[a]
            => \E t \in Callers, d \in Depths :
                  frame[t][d].pc = "store" /\ frame[t][d].act = a /\ frame[t][d].entry = e

\* The scope's variable holds an activation nothing has ended yet.
CurrentIsLive == \A a \in Activations : current = a => phase[a] = "live"

IInv ==
    /\ TypeOK
    /\ StackOK
    /\ CurrentIsLive
    /\ ClaimsHeld
    /\ NothingMade
    /\ MadeIsCached
    /\ ComputedOnce
    /\ EndedNotRefilled

USE DEF Depths

-----------------------------------------------------------------------------
(* What the three ways of changing a stack do to it                        *)

\* The fields of a frame that the invariants look at.
SameCall(f, g) == f.pc = g.pc /\ f.act = g.act /\ f.entry = g.entry

LEMMA TopIsFrame ==
    ASSUME TypeOK, NEW t \in Callers, depth[t] > 0
    PROVE  depth[t] \in Depths /\ Top(t) \in Frame
BY ConstantsAssumption DEF TypeOK, Top

LEMMA SetTopEffect ==
    ASSUME TypeOK, NEW t \in Callers, depth[t] > 0, NEW f \in Frame, SetTop(t, f)
    PROVE  /\ frame' \in [Callers -> [Depths -> Frame]]
           /\ frame'[t][depth[t]] = f
           /\ \A u \in Callers, d \in Depths :
                 u # t \/ d # depth[t] => frame'[u][d] = frame[u][d]
BY TopIsFrame DEF TypeOK, SetTop

LEMMA ReturnEffect ==
    ASSUME TypeOK, NEW t \in Callers, depth[t] > 0, Top(t).entry \in Entries,
           NEW kind \in Outcomes, Return(t, kind)
    PROVE  /\ frame' \in [Callers -> [Depths -> Frame]]
           /\ depth' = [depth EXCEPT ![t] = depth[t] - 1]
           /\ depth' \in [Callers -> 0..MaxDepth]
           /\ outcome' \in [Callers -> Outcomes]
           /\ frame'[t][depth[t]] = NoFrame
           /\ \A u \in Callers, d \in Depths :
                 u # t \/ d # depth[t] => SameCall(frame'[u][d], frame[u][d])
<1> DEFINE d == depth[t]
           Got(f) == IF kind = "value" /\ f.act = Top(t).act
                     THEN [f EXCEPT !.used = @ \cup {Top(t).entry}] ELSE f
           new == [i \in Depths |-> CASE i = d -> NoFrame
                                      [] i = d - 1 -> Got(frame[t][i])
                                      [] OTHER -> frame[t][i]]
<1>1. d \in Depths /\ Top(t) \in Frame
  BY TopIsFrame
<1>2. frame' = [frame EXCEPT ![t] = new]
  BY DEF Return
<1>0. \A i \in Depths : frame[t][i] \in Frame
  <2> HIDE DEF Got, new, d
  <2> QED  BY ZenonT(40) DEF TypeOK
<1>3. NoFrame \in Frame
  BY DEF NoFrame, Frame, PCs, Outcomes
<1>4. ASSUME NEW f \in Frame
      PROVE  Got(f) \in Frame /\ SameCall(Got(f), f)
  BY <1>1 DEF Frame, SameCall
<1>5. new \in [Depths -> Frame]
  <2> SUFFICES ASSUME NEW i \in Depths
               PROVE  new[i] \in Frame
    OBVIOUS
  <2>1. frame[t][i] \in Frame
    BY <1>0
  <2> HIDE DEF Got
  <2> QED
    BY <2>1, <1>3, <1>4, <1>1
<1>6. \A i \in Depths : i # d => SameCall(new[i], frame[t][i])
  <2> SUFFICES ASSUME NEW i \in Depths, i # d
               PROVE  SameCall(new[i], frame[t][i])
    OBVIOUS
  <2>1. frame[t][i] \in Frame
    BY <1>0
  <2>2. SameCall(frame[t][i], frame[t][i])
    BY DEF SameCall
  <2> HIDE DEF Got
  <2> QED
    BY <2>1, <2>2, <1>4, <1>1
<1>7. new[d] = NoFrame
  BY <1>1
<1> HIDE DEF new
<1>8. frame' \in [Callers -> [Depths -> Frame]] /\ frame'[t] = new
      /\ \A u \in Callers : u # t => frame'[u] = frame[u]
  BY <1>2, <1>5 DEF TypeOK
<1>9. /\ depth' = [depth EXCEPT ![t] = depth[t] - 1]
      /\ depth' \in [Callers -> 0..MaxDepth]
      /\ outcome' \in [Callers -> Outcomes]
  BY <1>1, ConstantsAssumption DEF Return, TypeOK
<1> QED
  BY <1>6, <1>7, <1>8, <1>9 DEF SameCall

LEMMA OpenedIsFrame ==
    ASSUME TypeOK, NEW e \in Entries
    PROVE  /\ Opened(e) \in Frame
           /\ Opened(e).pc = "read" /\ Opened(e).entry = e /\ Opened(e).act = current
BY ConstantsAssumption DEF TypeOK, Opened, NoFrame, Frame, PCs, Outcomes

\* A function updated at two different points.
LEMMA TwoUpdates ==
    ASSUME NEW D, NEW F, NEW g \in [D -> F], NEW i \in D, NEW j \in D, i # j,
           NEW x \in F, NEW y \in F, NEW h, h = [g EXCEPT ![i] = x, ![j] = y]
    PROVE  /\ h \in [D -> F] /\ h[i] = x /\ h[j] = y
           /\ \A k \in D \ {i, j} : h[k] = g[k]
OBVIOUS

\* A dependency call pushes a frame above the running one.
LEMMA PushEffect ==
    ASSUME TypeOK, NEW t \in Callers, NEW e \in Entries, depth[t] > 0, depth[t] < MaxDepth,
           frame' = [frame EXCEPT ![t][depth[t]].todo = @ \ {e},
                                  ![t][depth[t] + 1] = Opened(e)]
    PROVE  /\ frame' \in [Callers -> [Depths -> Frame]]
           /\ depth[t] + 1 \in Depths
           /\ frame'[t][depth[t] + 1] = Opened(e)
           /\ \A u \in Callers, d \in Depths :
                 u # t \/ d # depth[t] + 1 => SameCall(frame'[u][d], frame[u][d])
<1> DEFINE d == depth[t]
           lower == [Top(t) EXCEPT !.todo = @ \ {e}]
<1>1. d \in Depths /\ d + 1 \in Depths /\ Top(t) \in Frame
  BY TopIsFrame, ConstantsAssumption DEF TypeOK
<1>2. lower \in Frame /\ SameCall(lower, Top(t))
  BY <1>1 DEF Frame, SameCall
<1>3. Opened(e) \in Frame
  BY OpenedIsFrame
<1>4. frame' = [frame EXCEPT ![t] = [frame[t] EXCEPT ![d] = lower, ![d + 1] = Opened(e)]]
  BY <1>1 DEF TypeOK, Top
<1> HIDE DEF lower, d
<1>5. frame'[t] = [frame[t] EXCEPT ![d] = lower, ![d + 1] = Opened(e)]
      /\ \A u \in Callers : u # t => frame'[u] = frame[u]
  BY <1>4 DEF TypeOK
<1>6. frame[t] \in [Depths -> Frame]
  BY DEF TypeOK
<1>7. frame'[t] \in [Depths -> Frame] /\ frame'[t][d + 1] = Opened(e) /\ frame'[t][d] = lower
      /\ \A i \in Depths \ {d, d + 1} : frame'[t][i] = frame[t][i]
  <2>1. d # d + 1
    BY <1>1
  <2>2. Opened(e) \in Frame /\ lower \in Frame /\ d \in Depths /\ d + 1 \in Depths
    BY <1>1, <1>2, <1>3
  <2>3. PICK h : h = frame'[t]
    OBVIOUS
  <2>4. h = [frame[t] EXCEPT ![d] = lower, ![d + 1] = Opened(e)]
    BY <1>5, <2>3
  <2>5. /\ h \in [Depths -> Frame] /\ h[d] = lower /\ h[d + 1] = Opened(e)
        /\ \A k \in Depths \ {d, d + 1} : h[k] = frame[t][k]
    BY <1>6, <2>1, <2>2, <2>4, TwoUpdates
  <2> QED
    BY <2>3, <2>5
<1>8. frame' \in [Callers -> [Depths -> Frame]]
  BY <1>4, <1>5, <1>7 DEF TypeOK
<1>9. frame[t][d] = Top(t)
  BY DEF d, Top
<1>10. \A u \in Callers, k \in Depths : u # t => SameCall(frame'[u][k], frame[u][k])
  BY <1>5 DEF SameCall
<1>11. \A k \in Depths : k # d + 1 => SameCall(frame'[t][k], frame[t][k])
  <2>1. SameCall(frame'[t][d], frame[t][d])
    BY <1>2, <1>7, <1>9
  <2>2. \A k \in Depths \ {d, d + 1} : SameCall(frame'[t][k], frame[t][k])
    BY <1>7 DEF SameCall
  <2> QED
    BY <2>1, <2>2
<1>12. d + 1 \in Depths /\ frame'[t][d + 1] = Opened(e)
  BY <1>1, <1>7
<1> QED
  BY <1>8, <1>10, <1>11, <1>12 DEF d

-----------------------------------------------------------------------------
(* The stacks stay well formed                                             *)

LEMMA SameCallInPlace ==
    ASSUME NEW f, NEW g, SameCall(f, g), NEW d, NEW n, InPlace(g, d, n)
    PROVE  InPlace(f, d, n)
BY DEF SameCall, InPlace

LEMMA StackSet ==
    ASSUME TypeOK, StackOK, NEW t \in Callers, depth[t] > 0, UNCHANGED depth,
           NEW f \in Frame, SetTop(t, f), InPlace(f, depth[t], depth[t])
    PROVE  StackOK'
<1>1. depth[t] \in Depths
  BY TopIsFrame
<1>2. /\ frame'[t][depth[t]] = f
      /\ \A u \in Callers, d \in Depths : u # t \/ d # depth[t] => frame'[u][d] = frame[u][d]
  BY SetTopEffect
<1>3. SUFFICES ASSUME NEW u \in Callers, NEW d \in Depths
               PROVE  InPlace(frame'[u][d], d, depth[u])
  BY DEF StackOK, InPlace
<1>4. InPlace(frame[u][d], d, depth[u])
  BY DEF StackOK
<1> QED
  BY <1>2, <1>4

LEMMA StackReturn ==
    ASSUME TypeOK, StackOK, NEW t \in Callers, depth[t] > 0,
           NEW kind \in Outcomes, Return(t, kind)
    PROVE  StackOK'
<1>1. depth[t] \in Depths /\ InPlace(Top(t), depth[t], depth[t])
  BY TopIsFrame DEF StackOK, Top
<1>2. Top(t).entry \in Entries
  BY <1>1 DEF InPlace
<1>3. /\ depth' = [depth EXCEPT ![t] = depth[t] - 1]
      /\ frame'[t][depth[t]] = NoFrame
      /\ \A u \in Callers, d \in Depths :
            u # t \/ d # depth[t] => SameCall(frame'[u][d], frame[u][d])
  BY <1>2, ReturnEffect
<1>4. depth \in [Callers -> 0..MaxDepth]
  BY DEF TypeOK
<1>5. SUFFICES ASSUME NEW u \in Callers, NEW d \in Depths
               PROVE  InPlace(frame'[u][d], d, depth'[u])
  BY DEF StackOK, InPlace
<1>6. InPlace(frame[u][d], d, depth[u])
  BY DEF StackOK
<1>7. CASE u = t /\ d = depth[t]
  BY <1>1, <1>3, <1>4, <1>7 DEF InPlace, NoFrame, Computing
<1>8. CASE u = t /\ d # depth[t]
  <2>1. InPlace(frame[t][d], d, depth[t] - 1)
    BY <1>1, <1>4, <1>6, <1>8 DEF InPlace
  <2> QED
    BY <1>3, <1>4, <1>8, <2>1, SameCallInPlace
<1>9. CASE u # t
  BY <1>3, <1>4, <1>6, <1>9, SameCallInPlace
<1> QED
  BY <1>7, <1>8, <1>9

\* Opened(e) is the frame of a call that has only read the storage variable.
LEMMA OpenedInPlace ==
    ASSUME TypeOK, NEW e \in Entries, NEW d \in Depths
    PROVE  InPlace(Opened(e), d, d)
BY OpenedIsFrame DEF InPlace, Computing

LEMMA StackPush ==
    ASSUME TypeOK, StackOK, NEW t \in Callers, NEW d \in Depths, d = depth[t] + 1,
           depth[t] > 0 => Top(t).pc = "compute", NEW e \in Entries,
           depth' = [depth EXCEPT ![t] = d], frame'[t][d] = Opened(e),
           \A u \in Callers, i \in Depths :
              u # t \/ i # d => SameCall(frame'[u][i], frame[u][i])
    PROVE  StackOK'
<1>1. depth \in [Callers -> 0..MaxDepth]
  BY DEF TypeOK
<1>2. SUFFICES ASSUME NEW u \in Callers, NEW i \in Depths
               PROVE  InPlace(frame'[u][i], i, depth'[u])
  BY DEF StackOK, InPlace
<1>3. InPlace(frame[u][i], i, depth[u])
  BY DEF StackOK
<1>4. CASE u = t /\ i = d
  BY <1>1, <1>4, OpenedInPlace
<1>5. CASE u = t /\ i # d
  <2>1. i = depth[t] => frame[t][i].pc = "compute"
    BY <1>1 DEF Top
  <2>2. InPlace(frame[t][i], i, d)
    BY <1>1, <1>3, <1>5, <2>1 DEF InPlace
  <2> QED
    BY <1>1, <1>5, <2>2, SameCallInPlace
<1>6. CASE u # t
  BY <1>1, <1>3, <1>6, SameCallInPlace
<1> QED
  BY <1>4, <1>5, <1>6

\* A step of the scope's activation leaves the stacks alone.
LEMMA StackSame ==
    ASSUME StackOK, UNCHANGED <<frame, depth>>
    PROVE  StackOK'
BY DEF StackOK, InPlace

-----------------------------------------------------------------------------
(* Type correctness                                                        *)

\* The running call is in place, and its activation is one of the scope's.
LEMMA TopInPlace ==
    ASSUME TypeOK, StackOK, NEW t \in Callers, depth[t] > 0
    PROVE  /\ Top(t) \in Frame /\ Top(t).entry \in Entries
           /\ InPlace(Top(t), depth[t], depth[t])
           /\ Top(t).pc \in Computing \cup {"lock", "wait", "reread"}
                 => Top(t).act \in Activations
<1>1. depth[t] \in Depths /\ Top(t) \in Frame
  BY TopIsFrame
<1>2. InPlace(Top(t), depth[t], depth[t])
  BY <1>1 DEF StackOK, Top
<1> QED
  BY <1>1, <1>2 DEF InPlace

\* One more of what an entry's counter counts.
LEMMA CountedOnce ==
    ASSUME NEW m \in [Activations -> [Entries -> Nat]], NEW a \in Activations, NEW e \in Entries
    PROVE  [m EXCEPT ![a][e] = @ + 1] \in [Activations -> [Entries -> Nat]]
OBVIOUS

LEMMA IncEffect ==
    ASSUME NEW m \in [Activations -> [Entries -> Nat]], NEW f,
           f.act \in Activations, f.entry \in Entries
    PROVE  /\ Inc(m, f) \in [Activations -> [Entries -> Nat]]
           /\ Inc(m, f)[f.act][f.entry] = m[f.act][f.entry] + 1
           /\ \A a \in Activations, e \in Entries :
                 a # f.act \/ e # f.entry => Inc(m, f)[a][e] = m[a][e]
<1> PICK b \in Activations, d \in Entries : b = f.act /\ d = f.entry
  OBVIOUS
<1>1. Inc(m, f) = [m EXCEPT ![b][d] = @ + 1]
  BY DEF Inc
<1>2. [m EXCEPT ![b][d] = @ + 1] \in [Activations -> [Entries -> Nat]]
  BY CountedOnce
<1>3. \A a \in Activations, e \in Entries :
         [m EXCEPT ![b][d] = @ + 1][a][e] = IF a = b /\ e = d THEN m[a][e] + 1 ELSE m[a][e]
  OBVIOUS
<1> QED
  BY <1>1, <1>2, <1>3

LEMMA TypeInit == Init => TypeOK /\ StackOK
<1> SUFFICES ASSUME Init PROVE TypeOK /\ StackOK
  OBVIOUS
<1>1. NoFrame \in Frame /\ NoFrame.pc = "idle"
  BY DEF NoFrame, Frame, PCs, Outcomes
<1>2. TypeOK
  BY <1>1, ConstantsAssumption DEF Init, TypeOK, Phases, Outcomes
<1>3. StackOK
  BY <1>1 DEF Init, StackOK, InPlace, Computing
<1> QED
  BY <1>2, <1>3

\* Where a step leaves frame and depth well typed, only the other variables are left.
LEMMA SetTopKeeps ==
    ASSUME TypeOK, StackOK, NEW t \in Callers, depth[t] > 0, UNCHANGED depth,
           NEW pc \in PCs \ {"idle"}, Go(t, pc),
           pc \in Computing \cup {"lock", "wait", "reread"} => Top(t).act \in Activations
    PROVE  StackOK' /\ frame' \in [Callers -> [Depths -> Frame]]
<1> DEFINE f == [Top(t) EXCEPT !.pc = pc]
<1>1. Top(t) \in Frame /\ Top(t).entry \in Entries
  BY TopInPlace
<1>2. f \in Frame /\ f.pc = pc /\ f.entry = Top(t).entry /\ f.act = Top(t).act
  BY <1>1 DEF Frame
<1>3. SetTop(t, f)
  BY DEF Go
<1> HIDE DEF f
<1>4. InPlace(f, depth[t], depth[t])
  BY <1>1, <1>2, TopIsFrame DEF InPlace
<1> QED
  BY <1>2, <1>3, <1>4, StackSet, SetTopEffect

LEMMA ReturnKeeps ==
    ASSUME TypeOK, StackOK, NEW t \in Callers, depth[t] > 0,
           NEW kind \in Outcomes, Return(t, kind)
    PROVE  /\ StackOK'
           /\ frame' \in [Callers -> [Depths -> Frame]]
           /\ depth' \in [Callers -> 0..MaxDepth]
           /\ outcome' \in [Callers -> Outcomes]
BY TopInPlace, ReturnEffect, StackReturn

\* Steps of a caller before it holds the claim.
LEMMA TypeBefore ==
    ASSUME TypeOK, StackOK, NEW t \in Callers,
           Call(t) \/ CallDependency(t) \/ Read(t) \/ Reread(t)
    PROVE  TypeOK' /\ StackOK'
<1> USE DEF storageVars, ghostVars
<1>1. CASE Call(t)
  <2>1. PICK e \in Entries : frame' = [frame EXCEPT ![t][1] = Opened(e)]
    BY <1>1 DEF Call
  <2>2. depth[t] = 0 /\ depth' = [depth EXCEPT ![t] = 1] /\ 1 \in Depths
    BY <1>1, ConstantsAssumption DEF Call
  <2>3. Opened(e) \in Frame
    BY OpenedIsFrame
  <2>4. /\ frame' \in [Callers -> [Depths -> Frame]] /\ frame'[t][1] = Opened(e)
        /\ \A u \in Callers, i \in Depths : u # t \/ i # 1 => frame'[u][i] = frame[u][i]
    BY <2>1, <2>2, <2>3 DEF TypeOK
  <2>5. StackOK'
    <3>1. \A u \in Callers, i \in Depths : u # t \/ i # 1 => SameCall(frame'[u][i], frame[u][i])
      BY <2>4 DEF SameCall
    <3>2. PICK d \in Depths : d = 1
      BY <2>2
    <3>3. d = depth[t] + 1 /\ ~(depth[t] > 0) /\ depth' = [depth EXCEPT ![t] = d]
      BY <2>2, <3>2
    <3>4. /\ frame'[t][d] = Opened(e)
          /\ \A u \in Callers, i \in Depths : u # t \/ i # d => SameCall(frame'[u][i], frame[u][i])
      BY <2>4, <3>1, <3>2
    <3> QED
      BY <3>3, <3>4, StackPush
  <2> QED
    BY <1>1, <2>2, <2>4, <2>5 DEF Call, TypeOK, Outcomes
<1>2. CASE CallDependency(t)
  <2>1. PICK e \in Top(t).todo :
           frame' = [frame EXCEPT ![t][depth[t]].todo = @ \ {e}, ![t][depth[t] + 1] = Opened(e)]
    BY <1>2 DEF CallDependency
  <2>2. /\ depth[t] > 0 /\ depth[t] < MaxDepth /\ Top(t).pc = "compute"
        /\ depth' = [depth EXCEPT ![t] = depth[t] + 1]
    BY <1>2 DEF CallDependency, At
  <2>3. e \in Entries
    BY <2>1, <2>2, TopInPlace DEF Frame
  <2>4. /\ frame' \in [Callers -> [Depths -> Frame]]
        /\ depth[t] + 1 \in Depths
        /\ frame'[t][depth[t] + 1] = Opened(e)
        /\ \A u \in Callers, d \in Depths :
              u # t \/ d # depth[t] + 1 => SameCall(frame'[u][d], frame[u][d])
    BY <2>1, <2>2, <2>3, PushEffect
  <2>5. StackOK'
    BY <2>2, <2>3, <2>4, StackPush
  <2>6. depth' \in [Callers -> 0..MaxDepth]
    BY <2>2, <2>4 DEF TypeOK
  <2> QED
    BY <1>2, <2>4, <2>5, <2>6 DEF CallDependency, TypeOK
<1>3. CASE Read(t)
  <2>1. depth[t] > 0 /\ Top(t).pc = "read"
    BY <1>3 DEF Read, At
  <2>2. StackOK' /\ frame' \in [Callers -> [Depths -> Frame]]
        /\ depth' \in [Callers -> 0..MaxDepth] /\ outcome' \in [Callers -> Outcomes]
    <3>1. CASE \E kind \in Outcomes : Return(t, kind)
      BY <2>1, <3>1, ReturnKeeps
    <3>2. CASE Readable(Top(t).act) /\ Miss(t)
      <4>1. Top(t).act \in Activations
        BY <2>1, <3>2, TopInPlace DEF Readable, Frame
      <4> QED
        BY <2>1, <3>2, <4>1, SetTopKeeps DEF Miss, PCs, TypeOK
    <3>3. CASE /\ current # None /\ UNCHANGED <<depth, outcome>>
               /\ SetTop(t, [Top(t) EXCEPT !.act = current, !.pc = "reread"])
      <4> DEFINE f == [Top(t) EXCEPT !.act = current, !.pc = "reread"]
      <4>1. Top(t) \in Frame /\ Top(t).entry \in Entries /\ current \in Activations
        BY <2>1, <3>3, TopInPlace DEF TypeOK
      <4>2. f \in Frame /\ f.pc = "reread" /\ f.entry \in Entries /\ f.act \in Activations
        BY <4>1 DEF Frame, PCs
      <4>3. SetTop(t, f)
        BY <3>3
      <4> HIDE DEF f
      <4>4. InPlace(f, depth[t], depth[t])
        BY <2>1, <4>2, TopIsFrame DEF InPlace
      <4> QED
        BY <2>1, <3>3, <4>2, <4>3, <4>4, StackSet, SetTopEffect DEF TypeOK
    <3> QED
      BY <1>3, <3>1, <3>2, <3>3 DEF Read, Outcomes
  <2> QED
    BY <1>3, <2>2 DEF Read, TypeOK
<1>4. CASE Reread(t)
  <2>1. depth[t] > 0 /\ Top(t).pc = "reread" /\ Top(t).act \in Activations
    BY <1>4, TopInPlace DEF Reread, At
  <2>2. StackOK' /\ frame' \in [Callers -> [Depths -> Frame]]
        /\ depth' \in [Callers -> 0..MaxDepth] /\ outcome' \in [Callers -> Outcomes]
    <3>1. CASE \E kind \in Outcomes : Return(t, kind)
      BY <2>1, <3>1, ReturnKeeps
    <3>2. CASE Miss(t)
      BY <2>1, <3>2, SetTopKeeps DEF Miss, PCs, TypeOK
    <3> QED
      BY <1>4, <3>1, <3>2 DEF Reread, Outcomes
  <2> QED
    BY <1>4, <2>2 DEF Reread, TypeOK
<1> QED
  BY <1>1, <1>2, <1>3, <1>4

\* Steps of a caller at the claim, and of one that holds it.
LEMMA TypeClaimed ==
    ASSUME TypeOK, StackOK, NEW t \in Callers,
           TryClaim(t) \/ Wake(t) \/ CancelWait(t) \/ Fail(t) \/ Compute(t) \/ Register(t)
             \/ AppendContext(t) \/ Store(t) \/ Unclaim(t)
    PROVE  TypeOK' /\ StackOK'
<1> USE DEF storageVars, ghostVars
<1> DEFINE Typed == /\ StackOK' /\ frame' \in [Callers -> [Depths -> Frame]]
                    /\ depth' \in [Callers -> 0..MaxDepth]
                    /\ outcome' \in [Callers -> Outcomes]
           Claimant == /\ Top(t).entry \in Entries /\ Top(t).act \in Activations
                       /\ Top(t).used \in SUBSET Entries
<1>a. ASSUME depth[t] > 0, NEW kind \in Outcomes, Return(t, kind)
      PROVE  Typed
  BY <1>a, ReturnKeeps
<1>b. ASSUME depth[t] > 0, NEW pc \in PCs \ {"idle"}, Go(t, pc), Top(t).act \in Activations,
             UNCHANGED <<depth, outcome>>
      PROVE  Typed
  BY <1>b, SetTopKeeps DEF TypeOK
<1>c. ASSUME depth[t] > 0, Top(t).act \in Activations, NEW kind \in Outcomes,
             SetTop(t, [Top(t) EXCEPT !.pc = "unclaim", !.result = kind]),
             UNCHANGED <<depth, outcome>>
      PROVE  Typed
  <2> DEFINE f == [Top(t) EXCEPT !.pc = "unclaim", !.result = kind]
  <2>1. f \in Frame /\ f.pc = "unclaim" /\ f.entry \in Entries /\ f.act \in Activations
    BY <1>c, TopInPlace DEF Frame, PCs, Computing
  <2>2. SetTop(t, f)
    BY <1>c
  <2> HIDE DEF f
  <2>3. InPlace(f, depth[t], depth[t])
    BY <1>c, <2>1, TopIsFrame DEF InPlace
  <2> QED
    BY <1>c, <2>1, <2>2, <2>3, StackSet, SetTopEffect DEF TypeOK
<1>d. ASSUME depth[t] > 0, Top(t).pc \in Computing \cup {"lock", "wait"}
      PROVE  Claimant
  BY <1>d, TopInPlace DEF Frame
<1> HIDE DEF Typed
<1>1. CASE TryClaim(t)
  <2>1. depth[t] > 0 /\ Claimant
    BY <1>1, <1>d DEF TryClaim, Watch, At
  <2>2. Typed
    BY <1>1, <1>a, <1>b, <2>1 DEF TryClaim, Watch, Outcomes, PCs, Computing
  <2>3. /\ claim' \in [Entries -> Callers \cup {None}] /\ watchers' \in [Entries -> SUBSET Callers]
        /\ \A e \in Entries : claim'[e] = None => watchers'[e] = {}
    <3>1. \/ UNCHANGED <<claim, watchers>>
          \/ claim' = [claim EXCEPT ![Top(t).entry] = t] /\ UNCHANGED watchers
          \/ /\ watchers' = [watchers EXCEPT ![Top(t).entry] = @ \cup {t}]
             /\ UNCHANGED claim /\ claim[Top(t).entry] # None
      BY <1>1 DEF TryClaim, Watch
    <3>2. /\ claim \in [Entries -> Callers \cup {None}] /\ watchers \in [Entries -> SUBSET Callers]
          /\ \A e \in Entries : claim[e] = None => watchers[e] = {}
      BY DEF TypeOK
    <3>3. Top(t).entry \in Entries /\ t # None
      BY <2>1, ConstantsAssumption
    <3> HIDE DEF Claimant
    <3> QED
      BY <3>1, <3>2, <3>3
  <2> QED
    BY <1>1, <2>2, <2>3 DEF TryClaim, Watch, TypeOK, Typed
<1>2. CASE Wake(t)
  <2>1. depth[t] > 0 /\ Claimant
    BY <1>2, <1>d DEF Wake, At
  <2>2. Typed
    BY <1>2, <1>a, <1>b, <2>1 DEF Wake, Outcomes, PCs
  <2> QED
    BY <1>2, <2>2 DEF Wake, TypeOK, Typed
<1>3. CASE CancelWait(t)
  <2>1. depth[t] > 0 /\ Claimant
    BY <1>3, <1>d DEF CancelWait, At
  <2>2. Typed
    BY <1>3, <1>a, <2>1 DEF CancelWait, Outcomes
  <2>3. /\ watchers' \in [Entries -> SUBSET Callers]
        /\ \A e \in Entries : claim'[e] = None => watchers'[e] = {}
    BY <1>3, <2>1 DEF CancelWait, TypeOK
  <2> QED
    BY <1>3, <2>2, <2>3 DEF CancelWait, TypeOK, Typed
<1>4. CASE Fail(t)
  <2>1. depth[t] > 0 /\ Claimant
    BY <1>4, <1>d DEF Fail, At, Computing
  <2>2. Typed
    BY <1>4, <1>c, <2>1 DEF Fail, Outcomes
  <2>3. failures' \in 0..MaxFailures
    BY <1>4, ConstantsAssumption DEF Fail, TypeOK
  <2> QED
    BY <1>4, <2>2, <2>3 DEF Fail, TypeOK, Typed
<1>5. CASE Compute(t)
  <2>1. depth[t] > 0 /\ Claimant
    BY <1>5, <1>d DEF Compute, At, Computing
  <2>2. Typed
    BY <1>5, <1>b, <2>1 DEF Compute, PCs, Computing
  <2>3. made' \in [Activations -> [Entries -> Nat]] /\ entered' \in [Activations -> [Entries -> Nat]]
    <3>1. \/ made' = Inc(made, Top(t)) /\ UNCHANGED entered
          \/ entered' = Inc(entered, Top(t)) /\ UNCHANGED made
      BY <1>5 DEF Compute
    <3>2. made \in [Activations -> [Entries -> Nat]] /\ entered \in [Activations -> [Entries -> Nat]]
      BY DEF TypeOK
    <3> QED
      BY <2>1, <3>1, <3>2, IncEffect
  <2> QED
    BY <1>5, <2>2, <2>3 DEF Compute, TypeOK, Typed
<1>6. CASE Register(t)
  <2>1. depth[t] > 0 /\ Claimant
    BY <1>6, <1>d DEF Register, At, Computing
  <2>2. Typed
    BY <1>6, <1>b, <1>c, <2>1 DEF Register, PCs, Computing, Outcomes
  <2>3. exited' \in [Activations -> [Entries -> Nat]]
    <3>1. exited' = Inc(exited, Top(t)) \/ UNCHANGED exited
      BY <1>6 DEF Register
    <3>2. exited \in [Activations -> [Entries -> Nat]]
      BY DEF TypeOK
    <3> QED
      BY <2>1, <3>1, <3>2, IncEffect
  <2> QED
    BY <1>6, <2>2, <2>3 DEF Register, TypeOK, Typed
<1>9. CASE AppendContext(t)
  <2>1. depth[t] > 0 /\ Claimant
    BY <1>9, <1>d DEF AppendContext, At, Computing
  <2>2. Typed
    BY <1>9, <1>b, <1>c, <2>1 DEF AppendContext, PCs, Computing, Outcomes
  <2>3. /\ made' \in [Activations -> [Entries -> Nat]]
        /\ contexts' \in [Activations -> Seq(Entries)]
        /\ uses' \in [Activations -> [Entries -> SUBSET Entries]]
    <3> DEFINE f == Top(t)
    <3>1. made' = Inc(made, f) \/ UNCHANGED made
      BY <1>9 DEF AppendContext
    <3>2. \/ contexts' = [contexts EXCEPT ![f.act] = Append(@, f.entry)]
             /\ uses' = [uses EXCEPT ![f.act][f.entry] = f.used]
          \/ UNCHANGED <<contexts, uses>>
      BY <1>9 DEF AppendContext
    <3>3. /\ made \in [Activations -> [Entries -> Nat]]
          /\ contexts \in [Activations -> Seq(Entries)]
          /\ uses \in [Activations -> [Entries -> SUBSET Entries]]
      BY DEF TypeOK
    <3>4. made' \in [Activations -> [Entries -> Nat]]
      <4>1. Inc(made, f) \in [Activations -> [Entries -> Nat]]
        BY <2>1, <3>3, IncEffect
      <4> QED
        BY <3>1, <3>3, <4>1
    <3>5. PICK a \in Activations, e \in Entries, used \in SUBSET Entries :
             a = f.act /\ e = f.entry /\ used = f.used
      BY <2>1
    <3>6. \/ contexts' = [contexts EXCEPT ![a] = Append(@, e)]
             /\ uses' = [uses EXCEPT ![a][e] = used]
          \/ UNCHANGED <<contexts, uses>>
      BY <3>2, <3>5
    <3> HIDE DEF Claimant, f
    <3>7. CASE UNCHANGED <<contexts, uses>>
      BY <3>3, <3>4, <3>7
    <3>8. CASE contexts' = [contexts EXCEPT ![a] = Append(@, e)]
               /\ uses' = [uses EXCEPT ![a][e] = used]
      <4>1. contexts' \in [Activations -> Seq(Entries)]
        <5>1. Append(contexts[a], e) \in Seq(Entries)
          BY <3>3
        <5> QED
          BY <3>3, <3>8, <5>1
      <4>2. uses' \in [Activations -> [Entries -> SUBSET Entries]]
        BY <3>3, <3>8
      <4> QED
        BY <3>4, <4>1, <4>2
    <3> QED
      BY <3>6, <3>7, <3>8
  <2> QED
    BY <1>9, <2>2, <2>3 DEF AppendContext, TypeOK, Typed
<1>7. CASE Store(t)
  <2>1. depth[t] > 0 /\ Claimant
    BY <1>7, <1>d DEF Store, At, Computing
  <2>2. Typed
    BY <1>7, <1>c, <2>1 DEF Store, Outcomes
  <2>3. cached' \in [Activations -> SUBSET Entries]
    BY <1>7, <2>1 DEF Store, StoreSlot, TypeOK
  <2> QED
    BY <1>7, <2>2, <2>3 DEF Store, TypeOK, Typed
<1>8. CASE Unclaim(t)
  <2>1. depth[t] > 0 /\ Claimant
    BY <1>8, <1>d DEF Unclaim, At, Computing
  <2>2. Top(t).result \in Outcomes
    BY <2>1, TopIsFrame DEF Frame
  <2>3. Typed
    BY <1>8, <1>a, <2>1, <2>2 DEF Unclaim
  <2>4. /\ claim' \in [Entries -> Callers \cup {None}] /\ watchers' \in [Entries -> SUBSET Callers]
        /\ \A e \in Entries : claim'[e] = None => watchers'[e] = {}
    BY <1>8, <2>1 DEF Unclaim, PopClaim, TypeOK
  <2> QED
    BY <1>8, <2>3, <2>4 DEF Unclaim, TypeOK, Typed
<1> QED
  BY <1>1, <1>2, <1>3, <1>4, <1>5, <1>6, <1>7, <1>8, <1>9

\* Steps of the scope's activation.
LEMMA TypeScope ==
    ASSUME TypeOK, StackOK, NEW a \in Activations,
           Activate(a) \/ End(a) \/ Clear(a) \/ ExitNext(a) \/ Drained(a)
    PROVE  TypeOK' /\ StackOK'
<1> USE DEF ghostVars
<1>1. CASE Activate(a)
  BY <1>1, StackSame DEF Activate, TypeOK, Phases
<1>2. CASE End(a)
  BY <1>2, StackSame DEF End, TypeOK, Phases
<1>3. CASE Clear(a)
  BY <1>3, StackSame DEF Clear, BeingRecorded, TypeOK, Phases
<1>4. CASE ExitNext(a)
  <2>1. contexts[a] \in Seq(Entries)
    BY DEF TypeOK
  <2>2. contexts' \in [Activations -> Seq(Entries)]
    <3>1. contexts[a] # <<>> /\ Popped(contexts[a])[2] = SubSeq(contexts[a], 1, Len(contexts[a]) - 1)
      BY <1>4 DEF ExitNext, Popped
    <3>2. Popped(contexts[a])[2] \in Seq(Entries)
      BY <2>1, <3>1
    <3>3. contexts' = [contexts EXCEPT ![a] = Popped(contexts[a])[2]]
      BY <1>4 DEF ExitNext
    <3> QED
      BY <3>2, <3>3 DEF TypeOK
  <2>3. exited' \in [Activations -> [Entries -> Nat]]
    <3>1. Popped(contexts[a])[1] \in Entries
      BY <1>4, <2>1 DEF ExitNext, Popped
    <3>2. exited' = [exited EXCEPT ![a][Popped(contexts[a])[1]] = @ + 1]
      BY <1>4 DEF ExitNext
    <3> QED
      BY <3>1, <3>2, CountedOnce DEF TypeOK
  <2> QED
    BY <1>4, <2>2, <2>3, StackSame DEF ExitNext, Popped, TypeOK, Phases
<1>5. CASE Drained(a)
  BY <1>5, StackSame DEF Drained, TypeOK, Phases
<1> QED
  BY <1>1, <1>2, <1>3, <1>4, <1>5

LEMMA TypeNext ==
    ASSUME TypeOK, StackOK, [Next]_vars
    PROVE  TypeOK' /\ StackOK'
<1>1. CASE UNCHANGED vars
  BY <1>1, StackSame DEF vars, TypeOK, ghostVars, storageVars
<1>2. ASSUME NEW t \in Callers, Call(t) \/ Step(t) \/ CancelWait(t) \/ Fail(t)
      PROVE  TypeOK' /\ StackOK'
  BY <1>2, TypeBefore, TypeClaimed DEF Step
<1>3. ASSUME NEW a \in Activations, Activate(a) \/ End(a) \/ Closing(a)
      PROVE  TypeOK' /\ StackOK'
  BY <1>3, TypeScope DEF Closing
<1> QED
  BY <1>1, <1>2, <1>3 DEF Next

\* Every variable keeps its type, a caller's frames stay a stack of which all but the
\* top are computing, and nobody waits on a claim that no computation holds.
THEOREM TypeCorrect == Spec => []TypeOK
<1>1. Init => TypeOK /\ StackOK
  BY TypeInit
<1>2. (TypeOK /\ StackOK) /\ [Next]_vars => (TypeOK /\ StackOK)'
  BY TypeNext
<1> QED
  BY <1>1, <1>2, PTL DEF Spec

-----------------------------------------------------------------------------
(* The claims                                                              *)

\* All frames but one keep the fields the invariants look at.
OthersSame(t, p) ==
    \A u \in Callers, d \in Depths : u # t \/ d # p => SameCall(frame'[u][d], frame[u][d])

\* A frame in use has an entry, and an activation once it has left its first read.
LEMMA FrameInUse ==
    ASSUME TypeOK, StackOK, NEW u \in Callers, NEW d \in Depths, frame[u][d].pc # "idle"
    PROVE  /\ frame[u][d].entry \in Entries
           /\ Holds(u, d) => frame[u][d].act \in Activations
<1>1. InPlace(frame[u][d], d, depth[u])
  BY DEF StackOK
<1>2. depth[u] \in 0..MaxDepth
  BY DEF TypeOK
<1> QED
  BY <1>1, <1>2, ConstantsAssumption DEF InPlace, Holds

\* A step keeps ClaimsHeld when every holder after it held the same entry before it and
\* its claim was not touched.
LEMMA HoldersKept ==
    ASSUME ClaimsHeld,
           \A u \in Callers, d \in Depths :
              Holds(u, d)' => /\ Holds(u, d)
                             /\ frame'[u][d].entry = frame[u][d].entry
                             /\ claim'[frame[u][d].entry] = claim[frame[u][d].entry]
    PROVE  ClaimsHeld'
<1> SUFFICES ASSUME NEW u \in Callers, NEW d \in Depths, Holds(u, d)'
             PROVE  /\ claim'[frame'[u][d].entry] = u
                    /\ \A i \in Depths \ {d} :
                          Holds(u, i)' => frame'[u][i].entry # frame'[u][d].entry
  BY DEF ClaimsHeld, Holds
<1>1. Holds(u, d) /\ claim'[frame'[u][d].entry] = u
  BY DEF ClaimsHeld
<1>2. ASSUME NEW i \in Depths \ {d}, Holds(u, i)'
      PROVE  frame'[u][i].entry # frame'[u][d].entry
  BY <1>1, <1>2 DEF ClaimsHeld
<1> QED
  BY <1>1, <1>2

\* A caller's step that leaves the claims alone and moves its running call.
LEMMA SetTopClaims ==
    ASSUME TypeOK, StackOK, ClaimsHeld, NEW t \in Callers, depth[t] > 0, UNCHANGED claim,
           NEW f \in Frame, SetTop(t, f), f.entry = Top(t).entry,
           f.pc \in Computing => Top(t).pc \in Computing
    PROVE  ClaimsHeld'
<1>1. /\ frame'[t][depth[t]] = f
      /\ \A u \in Callers, d \in Depths : u # t \/ d # depth[t] => frame'[u][d] = frame[u][d]
  BY SetTopEffect
<1>2. ASSUME NEW u \in Callers, NEW d \in Depths, Holds(u, d)'
      PROVE  Holds(u, d) /\ frame'[u][d].entry = frame[u][d].entry
  BY <1>1, <1>2 DEF Holds, Top
<1> QED
  BY <1>2, HoldersKept

\* A call that ends where no claim is held, or whose own claim is the only one touched.
LEMMA ReturnClaims ==
    ASSUME TypeOK, StackOK, ClaimsHeld, NEW t \in Callers, depth[t] > 0,
           NEW kind \in Outcomes, Return(t, kind),
           \/ UNCHANGED claim
           \/ Top(t).pc = "unclaim" /\ claim' = [claim EXCEPT ![Top(t).entry] = None]
    PROVE  ClaimsHeld'
<1>1. Top(t).entry \in Entries /\ depth[t] \in Depths
  BY TopInPlace, TopIsFrame
<1>2. frame'[t][depth[t]] = NoFrame /\ OthersSame(t, depth[t])
  BY <1>1, ReturnEffect DEF OthersSame
<1>3. SUFFICES ASSUME NEW u \in Callers, NEW d \in Depths, Holds(u, d)'
               PROVE  /\ Holds(u, d)
                      /\ frame'[u][d].entry = frame[u][d].entry
                      /\ claim'[frame[u][d].entry] = claim[frame[u][d].entry]
  BY HoldersKept
<1>4. u # t \/ d # depth[t]
  BY <1>2, <1>3 DEF Holds, NoFrame, Computing
<1>5. Holds(u, d) /\ frame'[u][d].entry = frame[u][d].entry
  BY <1>2, <1>3, <1>4 DEF OthersSame, SameCall, Holds
<1>6. CASE UNCHANGED claim
  BY <1>5, <1>6
<1>7. CASE Top(t).pc = "unclaim" /\ claim' = [claim EXCEPT ![Top(t).entry] = None]
  <2>1. Holds(t, depth[t])
    BY <1>7 DEF Holds, Top, Computing
  <2>2. frame[u][d].entry # Top(t).entry
    BY <1>1, <1>4, <1>5, <2>1 DEF ClaimsHeld, Top
  <2> QED
    BY <1>5, <1>7, <2>2 DEF TypeOK
<1> QED
  BY <1>6, <1>7

\* Taking a free claim.
LEMMA TakeClaims ==
    ASSUME TypeOK, StackOK, ClaimsHeld, NEW t \in Callers, depth[t] > 0,
           claim[Top(t).entry] = None, Go(t, "compute"),
           claim' = [claim EXCEPT ![Top(t).entry] = t]
    PROVE  ClaimsHeld'
<1> DEFINE f == [Top(t) EXCEPT !.pc = "compute"]
<1>1. Top(t).entry \in Entries /\ depth[t] \in Depths /\ Top(t) \in Frame
  BY TopInPlace, TopIsFrame
<1>2. f \in Frame /\ f.entry = Top(t).entry
  BY <1>1 DEF Frame, PCs, Computing
<1>3. /\ frame'[t][depth[t]] = f
      /\ \A u \in Callers, d \in Depths : u # t \/ d # depth[t] => frame'[u][d] = frame[u][d]
  BY <1>2, SetTopEffect DEF Go
<1> HIDE DEF f
<1>4. claim'[Top(t).entry] = t /\ \A e \in Entries \ {Top(t).entry} : claim'[e] = claim[e]
  BY <1>1 DEF TypeOK
<1>5. ASSUME NEW u \in Callers, NEW d \in Depths, Holds(u, d), u # t \/ d # depth[t]
      PROVE  /\ frame[u][d].entry # Top(t).entry /\ frame[u][d].entry \in Entries
             /\ claim'[frame[u][d].entry] = u
  <2>1. claim[frame[u][d].entry] = u /\ u # None
    BY <1>5, ConstantsAssumption DEF ClaimsHeld
  <2>2. frame[u][d].entry \in Entries
    BY <1>5, FrameInUse DEF Holds, Computing
  <2> QED
    BY <1>4, <2>1, <2>2
<1> SUFFICES ASSUME NEW u \in Callers, NEW d \in Depths, Holds(u, d)'
             PROVE  /\ claim'[frame'[u][d].entry] = u
                    /\ \A i \in Depths \ {d} :
                          Holds(u, i)' => frame'[u][i].entry # frame'[u][d].entry
  BY DEF ClaimsHeld, Holds
<1>6. CASE u = t /\ d = depth[t]
  <2>1. frame'[u][d].entry = Top(t).entry
    BY <1>2, <1>3, <1>6
  <2>2. ASSUME NEW i \in Depths \ {d}, Holds(u, i)'
        PROVE  frame'[u][i].entry # Top(t).entry
    BY <1>3, <1>5, <1>6, <2>2 DEF Holds
  <2> QED
    BY <1>4, <1>6, <2>1, <2>2
<1>7. CASE u # t \/ d # depth[t]
  <2>1. frame'[u][d] = frame[u][d] /\ Holds(u, d)
    BY <1>3, <1>7 DEF Holds
  <2>2. ASSUME NEW i \in Depths \ {d}, Holds(u, i)'
        PROVE  frame'[u][i].entry # frame[u][d].entry
    <3>1. CASE u = t /\ i = depth[t]
      BY <1>2, <1>3, <1>5, <1>7, <2>1, <3>1
    <3>2. CASE u # t \/ i # depth[t]
      BY <1>3, <2>1, <2>2, <3>2 DEF Holds, ClaimsHeld
    <3> QED
      BY <3>1, <3>2
  <2> QED
    BY <1>5, <1>7, <2>1, <2>2
<1> QED
  BY <1>6, <1>7

\* A pushed frame holds no claim yet.
LEMMA PushClaims ==
    ASSUME TypeOK, ClaimsHeld, UNCHANGED claim, NEW t \in Callers, NEW p \in Depths,
           frame'[t][p].pc = "read", OthersSame(t, p)
    PROVE  ClaimsHeld'
<1>1. ASSUME NEW u \in Callers, NEW d \in Depths, Holds(u, d)'
      PROVE  Holds(u, d) /\ frame'[u][d].entry = frame[u][d].entry
  BY <1>1 DEF Holds, OthersSame, SameCall, Computing
<1> QED
  BY <1>1, HoldersKept

LEMMA ClaimsNext ==
    ASSUME TypeOK, StackOK, ClaimsHeld, [Next]_vars
    PROVE  ClaimsHeld'
<1> USE DEF storageVars, ghostVars
<1>a. ASSUME NEW t \in Callers, depth[t] > 0, NEW kind \in Outcomes, Return(t, kind),
             UNCHANGED claim
      PROVE  ClaimsHeld'
  BY <1>a, ReturnClaims
<1>b. ASSUME NEW t \in Callers, depth[t] > 0, NEW pc \in PCs, Go(t, pc), UNCHANGED claim,
             pc \in Computing => Top(t).pc \in Computing
      PROVE  ClaimsHeld'
  <2> DEFINE f == [Top(t) EXCEPT !.pc = pc]
  <2>1. Top(t) \in Frame
    BY <1>b, TopIsFrame
  <2>2. f \in Frame /\ f.entry = Top(t).entry /\ f.pc = pc
    BY <2>1 DEF Frame
  <2>3. SetTop(t, f)
    BY <1>b DEF Go
  <2> HIDE DEF f
  <2> QED
    BY <1>b, <2>2, <2>3, SetTopClaims
<1>c. ASSUME NEW t \in Callers, depth[t] > 0, NEW kind \in Outcomes, UNCHANGED claim,
             SetTop(t, [Top(t) EXCEPT !.pc = "unclaim", !.result = kind]),
             Top(t).pc \in Computing
      PROVE  ClaimsHeld'
  <2> DEFINE f == [Top(t) EXCEPT !.pc = "unclaim", !.result = kind]
  <2>1. Top(t) \in Frame
    BY <1>c, TopIsFrame
  <2>2. f \in Frame /\ f.entry = Top(t).entry
    BY <2>1 DEF Frame, PCs, Computing
  <2>3. SetTop(t, f)
    BY <1>c
  <2> HIDE DEF f
  <2> QED
    BY <1>c, <2>2, <2>3, SetTopClaims
<1>d. ASSUME UNCHANGED <<frame, claim>> PROVE ClaimsHeld'
  BY <1>d DEF ClaimsHeld, Holds
<1>1. CASE UNCHANGED vars
  BY <1>1, <1>d DEF vars
<1>2. ASSUME NEW t \in Callers, Call(t) PROVE ClaimsHeld'
  <2>1. PICK e \in Entries : frame' = [frame EXCEPT ![t][1] = Opened(e)]
    BY <1>2 DEF Call
  <2>2. PICK p \in Depths : p = 1
    BY ConstantsAssumption
  <2>3. frame'[t][p] = Opened(e)
        /\ \A u \in Callers, i \in Depths : u # t \/ i # p => frame'[u][i] = frame[u][i]
    BY <2>1, <2>2 DEF TypeOK
  <2>4. OthersSame(t, p) /\ frame'[t][p].pc = "read"
    BY <2>3, OpenedIsFrame DEF OthersSame, SameCall
  <2> QED
    BY <1>2, <2>4, PushClaims DEF Call
<1>3. ASSUME NEW t \in Callers, CallDependency(t) PROVE ClaimsHeld'
  <2>1. PICK e \in Top(t).todo :
           frame' = [frame EXCEPT ![t][depth[t]].todo = @ \ {e}, ![t][depth[t] + 1] = Opened(e)]
    BY <1>3 DEF CallDependency
  <2>2. depth[t] > 0 /\ depth[t] < MaxDepth
    BY <1>3 DEF CallDependency, At
  <2>3. e \in Entries
    BY <2>1, <2>2, TopInPlace DEF Frame
  <2>4. depth[t] + 1 \in Depths /\ frame'[t][depth[t] + 1] = Opened(e)
        /\ OthersSame(t, depth[t] + 1)
    BY <2>1, <2>2, <2>3, PushEffect DEF OthersSame
  <2> QED
    BY <1>3, <2>3, <2>4, OpenedIsFrame, PushClaims DEF CallDependency
<1>4. ASSUME NEW t \in Callers, Read(t) PROVE ClaimsHeld'
  <2>1. depth[t] > 0 /\ UNCHANGED claim
    BY <1>4 DEF Read, At
  <2>2. CASE \E kind \in Outcomes : Return(t, kind)
    BY <1>a, <2>1, <2>2
  <2>3. CASE Miss(t)
    BY <1>b, <2>1, <2>3 DEF Miss, PCs, Computing
  <2>4. CASE current # None /\ SetTop(t, [Top(t) EXCEPT !.act = current, !.pc = "reread"])
    <3> DEFINE f == [Top(t) EXCEPT !.act = current, !.pc = "reread"]
    <3>1. Top(t) \in Frame /\ current \in Activations
      BY <2>1, <2>4, TopIsFrame DEF TypeOK
    <3>2. f \in Frame /\ f.entry = Top(t).entry /\ f.pc \notin Computing
      BY <3>1 DEF Frame, PCs, Computing
    <3>3. SetTop(t, f)
      BY <2>4
    <3> HIDE DEF f
    <3> QED
      BY <2>1, <3>2, <3>3, SetTopClaims
  <2> QED
    BY <1>4, <2>2, <2>3, <2>4 DEF Read, Outcomes
<1>5. ASSUME NEW t \in Callers, Reread(t) PROVE ClaimsHeld'
  <2>1. depth[t] > 0 /\ UNCHANGED claim
    BY <1>5 DEF Reread, At
  <2>2. CASE \E kind \in Outcomes : Return(t, kind)
    BY <1>a, <2>1, <2>2
  <2>3. CASE Miss(t)
    BY <1>b, <2>1, <2>3 DEF Miss, PCs, Computing
  <2> QED
    BY <1>5, <2>2, <2>3 DEF Reread, Outcomes
<1>6. ASSUME NEW t \in Callers, TryClaim(t) PROVE ClaimsHeld'
  <2>1. depth[t] > 0
    BY <1>6 DEF TryClaim, Watch, At
  <2>2. CASE UNCHANGED claim /\ \E kind \in Outcomes : Return(t, kind)
    BY <1>a, <2>1, <2>2
  <2>3. CASE UNCHANGED claim /\ Go(t, "wait")
    BY <1>b, <2>1, <2>3 DEF PCs, Computing
  <2>4. CASE /\ claim[Top(t).entry] = None /\ Go(t, "compute")
             /\ claim' = [claim EXCEPT ![Top(t).entry] = t]
    BY <2>1, <2>4, TakeClaims
  <2> QED
    BY <1>6, <2>2, <2>3, <2>4 DEF TryClaim, Watch, Outcomes
<1>7. ASSUME NEW t \in Callers, Wake(t) \/ CancelWait(t) PROVE ClaimsHeld'
  <2>1. depth[t] > 0 /\ UNCHANGED claim
    BY <1>7 DEF Wake, CancelWait, At
  <2>2. CASE \E kind \in Outcomes : Return(t, kind)
    BY <1>a, <2>1, <2>2
  <2>3. CASE Go(t, "lock")
    BY <1>b, <2>1, <2>3 DEF PCs, Computing
  <2> QED
    BY <1>7, <2>2, <2>3 DEF Wake, CancelWait, Outcomes
<1>8. ASSUME NEW t \in Callers, Fail(t) \/ Compute(t) \/ Register(t) \/ AppendContext(t) \/ Store(t)
      PROVE  ClaimsHeld'
  <2>1. depth[t] > 0 /\ UNCHANGED claim /\ Top(t).pc \in Computing
    BY <1>8 DEF Fail, Compute, Register, AppendContext, Store, At, Computing
  <2>2. CASE Go(t, "register") \/ Go(t, "append") \/ Go(t, "store")
    BY <1>b, <2>1, <2>2 DEF PCs, Computing
  <2>3. CASE \E kind \in Outcomes :
                SetTop(t, [Top(t) EXCEPT !.pc = "unclaim", !.result = kind])
    BY <1>c, <2>1, <2>3
  <2> QED
    BY <1>8, <2>2, <2>3 DEF Fail, Compute, Register, AppendContext, Store, Outcomes
<1>9. ASSUME NEW t \in Callers, Unclaim(t) PROVE ClaimsHeld'
  <2>1. depth[t] > 0 /\ Top(t).pc = "unclaim" /\ Top(t).result \in Outcomes
    BY <1>9, TopIsFrame DEF Unclaim, At, Frame
  <2> QED
    BY <1>9, <2>1, ReturnClaims DEF Unclaim, PopClaim
<1>10. ASSUME NEW a \in Activations, Activate(a) \/ End(a) \/ Closing(a) PROVE ClaimsHeld'
  BY <1>10, <1>d DEF Activate, End, Closing, Clear, ExitNext, Drained
<1> QED
  BY <1>1, <1>2, <1>3, <1>4, <1>5, <1>6, <1>7, <1>8, <1>9, <1>10 DEF Next, Step

-----------------------------------------------------------------------------
(* What was made, and where it is                                          *)

MadeOK == NothingMade /\ MadeIsCached /\ ComputedOnce

\* A frame whose computation is under way before its success, after it before the store.
Before(f) == f.pc \in {"compute", "register", "append"}
SameWork(f, g) == f.act = g.act /\ f.entry = g.entry

\* A step that makes nothing and stores nothing, and only ends computations.
LEMMA QuietKeeps ==
    ASSUME MadeOK, UNCHANGED made,
           \A u \in Callers, d \in Depths :
              Before(frame'[u][d]) => Before(frame[u][d]) /\ SameWork(frame'[u][d], frame[u][d]),
           \A u \in Callers, d \in Depths :
              frame[u][d].pc = "store"
                 => frame'[u][d].pc = "store" /\ SameWork(frame'[u][d], frame[u][d]),
           \A a \in Activations : ~Emptied(a)' => ~Emptied(a) /\ cached'[a] = cached[a]
    PROVE  MadeOK'
<1>1. NothingMade'
  BY DEF MadeOK, NothingMade, Before, SameWork
<1>2. ASSUME NEW a \in Activations, NEW e \in Entries,
             made'[a][e] # 0, ~Emptied(a)', e \notin cached'[a]
      PROVE  \E t \in Callers, d \in Depths :
                frame'[t][d].pc = "store" /\ frame'[t][d].act = a /\ frame'[t][d].entry = e
  <2>1. PICK t \in Callers, d \in Depths :
           frame[t][d].pc = "store" /\ frame[t][d].act = a /\ frame[t][d].entry = e
    BY <1>2 DEF MadeOK, MadeIsCached
  <2> QED
    BY <2>1 DEF SameWork
<1>3. MadeIsCached'
  BY <1>2 DEF MadeIsCached
<1>4. ComputedOnce'
  BY DEF MadeOK, ComputedOnce
<1> QED
  BY <1>1, <1>3, <1>4 DEF MadeOK

\* One frame moves, and neither starts a computation nor leaves the store.
LEMMA QuietFrame ==
    ASSUME MadeOK, UNCHANGED <<made, cached, phase>>, NEW t \in Callers, NEW p \in Depths,
           OthersSame(t, p), frame[t][p].pc # "store",
           Before(frame'[t][p]) => Before(frame[t][p]) /\ SameWork(frame'[t][p], frame[t][p])
    PROVE  MadeOK'
<1>1. \A u \in Callers, d \in Depths :
         Before(frame'[u][d]) => Before(frame[u][d]) /\ SameWork(frame'[u][d], frame[u][d])
  BY DEF OthersSame, SameCall, SameWork, Before
<1>2. \A u \in Callers, d \in Depths :
         frame[u][d].pc = "store"
            => frame'[u][d].pc = "store" /\ SameWork(frame'[u][d], frame[u][d])
  BY DEF OthersSame, SameCall, SameWork
<1>3. \A a \in Activations : ~Emptied(a)' => ~Emptied(a) /\ cached'[a] = cached[a]
  BY DEF Emptied
<1> QED
  BY <1>1, <1>2, <1>3, QuietKeeps

LEMMA QuietSet ==
    ASSUME TypeOK, MadeOK, UNCHANGED <<made, cached, phase>>, NEW t \in Callers, depth[t] > 0,
           NEW f \in Frame, SetTop(t, f), Top(t).pc # "store",
           Before(f) => Before(Top(t)) /\ SameWork(f, Top(t))
    PROVE  MadeOK'
<1>1. /\ depth[t] \in Depths /\ frame'[t][depth[t]] = f
      /\ \A u \in Callers, d \in Depths : u # t \/ d # depth[t] => frame'[u][d] = frame[u][d]
  BY SetTopEffect, TopIsFrame
<1>2. OthersSame(t, depth[t])
  BY <1>1 DEF OthersSame, SameCall
<1> QED
  BY <1>1, <1>2, QuietFrame DEF Top

LEMMA QuietReturn ==
    ASSUME TypeOK, StackOK, MadeOK, UNCHANGED <<made, cached, phase>>,
           NEW t \in Callers, depth[t] > 0, Top(t).pc # "store",
           NEW kind \in Outcomes, Return(t, kind)
    PROVE  MadeOK'
<1>1. Top(t).entry \in Entries /\ depth[t] \in Depths
  BY TopInPlace, TopIsFrame
<1>2. frame'[t][depth[t]] = NoFrame /\ OthersSame(t, depth[t])
  BY <1>1, ReturnEffect DEF OthersSame
<1>3. ~Before(NoFrame)
  BY DEF Before, NoFrame
<1> QED
  BY <1>1, <1>2, <1>3, QuietFrame DEF Top

\* A free claim is taken for an entry found absent from storage that is not emptied:
\* nothing was made of it, or its maker would still hold the claim.
LEMMA TakeMade ==
    ASSUME TypeOK, StackOK, ClaimsHeld, MadeOK, UNCHANGED <<made, cached, phase>>,
           NEW t \in Callers, depth[t] > 0, Top(t).pc = "lock", ~Emptied(Top(t).act),
           Top(t).entry \notin cached[Top(t).act], claim[Top(t).entry] = None,
           Go(t, "compute")
    PROVE  MadeOK'
<1> DEFINE f == [Top(t) EXCEPT !.pc = "compute"]
<1>1. /\ Top(t) \in Frame /\ Top(t).entry \in Entries /\ Top(t).act \in Activations
      /\ depth[t] \in Depths
  BY TopInPlace, TopIsFrame
<1>2. f \in Frame /\ f.act = Top(t).act /\ f.entry = Top(t).entry /\ f.pc = "compute"
  BY <1>1 DEF Frame, PCs, Computing
<1>3. /\ frame'[t][depth[t]] = f
      /\ \A u \in Callers, d \in Depths : u # t \/ d # depth[t] => frame'[u][d] = frame[u][d]
  BY <1>2, SetTopEffect DEF Go
<1> HIDE DEF f
<1>4. made[Top(t).act][Top(t).entry] = 0
  <2> SUFFICES ASSUME made[Top(t).act][Top(t).entry] # 0
               PROVE  FALSE
    OBVIOUS
  <2>1. PICK u \in Callers, d \in Depths :
           frame[u][d].pc = "store" /\ frame[u][d].entry = Top(t).entry
    BY <1>1 DEF MadeOK, MadeIsCached
  <2>2. claim[Top(t).entry] = u
    BY <2>1 DEF ClaimsHeld, Holds, Computing
  <2> QED
    BY <2>2, ConstantsAssumption
<1>5. NothingMade'
  <2> SUFFICES ASSUME NEW u \in Callers, NEW d \in Depths, Before(frame'[u][d])
               PROVE  made[frame'[u][d].act][frame'[u][d].entry] = 0
    BY DEF NothingMade, Before
  <2> QED
    BY <1>2, <1>3, <1>4 DEF MadeOK, NothingMade, Before
<1>6. MadeIsCached'
  <2> SUFFICES ASSUME NEW a \in Activations, NEW e \in Entries,
                      made[a][e] # 0, ~Emptied(a), e \notin cached[a]
               PROVE  \E u \in Callers, d \in Depths :
                         /\ frame'[u][d].pc = "store" /\ frame'[u][d].act = a
                         /\ frame'[u][d].entry = e
    BY DEF MadeIsCached, Emptied
  <2>1. PICK u \in Callers, d \in Depths :
           frame[u][d].pc = "store" /\ frame[u][d].act = a /\ frame[u][d].entry = e
    BY DEF MadeOK, MadeIsCached
  <2>2. u # t \/ d # depth[t]
    BY <2>1 DEF Top
  <2> QED
    BY <1>3, <2>1, <2>2
<1> QED
  BY <1>5, <1>6 DEF MadeOK, ComputedOnce

\* The computation succeeds: its value is on its way to the store.
LEMMA MakeMade ==
    ASSUME TypeOK, StackOK, ClaimsHeld, MadeOK, UNCHANGED <<cached, phase>>,
           NEW t \in Callers, depth[t] > 0, Before(Top(t)), Go(t, "store"),
           made' = Inc(made, Top(t))
    PROVE  MadeOK'
<1> DEFINE f == [Top(t) EXCEPT !.pc = "store"]
           e == Top(t).entry
           a == Top(t).act
<1>1. Top(t) \in Frame /\ e \in Entries /\ a \in Activations /\ depth[t] \in Depths
  BY TopInPlace, TopIsFrame DEF Before, Computing
<1>2. f \in Frame /\ f.act = a /\ f.entry = e /\ f.pc = "store"
  BY <1>1 DEF Frame, PCs, Computing
<1>3. /\ frame'[t][depth[t]] = f
      /\ \A u \in Callers, d \in Depths : u # t \/ d # depth[t] => frame'[u][d] = frame[u][d]
  BY <1>2, SetTopEffect DEF Go
<1>4. /\ made'[a][e] = made[a][e] + 1
      /\ \A b \in Activations, g \in Entries : b # a \/ g # e => made'[b][g] = made[b][g]
  <2>1. made \in [Activations -> [Entries -> Nat]]
    BY DEF TypeOK
  <2>2. /\ Inc(made, Top(t))[a][e] = made[a][e] + 1
        /\ \A b \in Activations, g \in Entries :
              b # a \/ g # e => Inc(made, Top(t))[b][g] = made[b][g]
    BY <1>1, <2>1, IncEffect
  <2> QED
    BY <2>2
<1>5. made[a][e] = 0
  BY <1>1 DEF MadeOK, NothingMade, Before, Top
<1> HIDE DEF f
<1>6. NothingMade'
  <2> SUFFICES ASSUME NEW u \in Callers, NEW d \in Depths, Before(frame'[u][d])
               PROVE  made'[frame'[u][d].act][frame'[u][d].entry] = 0
    BY DEF NothingMade, Before
  <2>1. u # t \/ d # depth[t]
    BY <1>2, <1>3 DEF Before
  <2>2. frame'[u][d] = frame[u][d] /\ Holds(u, d) /\ Holds(t, depth[t])
    BY <1>3, <2>1 DEF Before, Holds, Computing, Top
  <2>3. frame[u][d].entry # e /\ frame[u][d].entry \in Entries /\ frame[u][d].act \in Activations
    <3>1. frame[u][d].entry \in Entries /\ frame[u][d].act \in Activations
      BY <2>2, FrameInUse DEF Holds, Computing
    <3>2. CASE u # t
      BY <1>1, <2>2, <3>1, <3>2 DEF ClaimsHeld, Top
    <3>3. CASE u = t /\ d # depth[t]
      BY <1>1, <2>2, <3>1, <3>3 DEF ClaimsHeld, Top
    <3> QED
      BY <2>1, <3>1, <3>2, <3>3
  <2>4. made[frame[u][d].act][frame[u][d].entry] = 0
    BY <2>2 DEF MadeOK, NothingMade, Before
  <2> QED
    BY <1>4, <2>2, <2>3, <2>4
<1>7. MadeIsCached'
  <2> SUFFICES ASSUME NEW b \in Activations, NEW g \in Entries,
                      made'[b][g] # 0, ~Emptied(b), g \notin cached[b]
               PROVE  \E u \in Callers, d \in Depths :
                         /\ frame'[u][d].pc = "store" /\ frame'[u][d].act = b
                         /\ frame'[u][d].entry = g
    BY DEF MadeIsCached, Emptied
  <2>1. CASE b = a /\ g = e
    BY <1>1, <1>2, <1>3, <2>1
  <2>2. CASE b # a \/ g # e
    <3>1. PICK u \in Callers, d \in Depths :
             frame[u][d].pc = "store" /\ frame[u][d].act = b /\ frame[u][d].entry = g
      BY <1>4, <2>2 DEF MadeOK, MadeIsCached
    <3>2. u # t \/ d # depth[t]
      BY <3>1 DEF Before, Top
    <3> QED
      BY <1>3, <3>1, <3>2
  <2> QED
    BY <2>1, <2>2
<1>8. ComputedOnce'
  BY <1>4, <1>5 DEF MadeOK, ComputedOnce
<1> QED
  BY <1>6, <1>7, <1>8 DEF MadeOK

\* The value is stored, or dropped with the emptied storage.
LEMMA StoreMade ==
    ASSUME TypeOK, StackOK, MadeOK, NEW t \in Callers, Store(t)
    PROVE  MadeOK'
<1> DEFINE f == [Top(t) EXCEPT !.pc = "unclaim", !.result = "value"]
<1>1. depth[t] > 0 /\ Top(t).pc = "store" /\ UNCHANGED <<made, phase>>
  BY DEF Store, At, storageVars, ghostVars
<1>2. /\ Top(t) \in Frame /\ Top(t).entry \in Entries /\ Top(t).act \in Activations
      /\ depth[t] \in Depths
  BY <1>1, TopInPlace, TopIsFrame DEF Computing
<1>3. f \in Frame /\ f.pc = "unclaim"
  BY <1>2 DEF Frame, PCs, Computing, Outcomes
<1>4. SetTop(t, f)
  BY DEF Store
<1> HIDE DEF f
<1>5. /\ frame'[t][depth[t]] = f
      /\ \A u \in Callers, d \in Depths : u # t \/ d # depth[t] => frame'[u][d] = frame[u][d]
  BY <1>1, <1>3, <1>4, SetTopEffect
<1>6. /\ \A a \in Activations : cached[a] \subseteq cached'[a]
      /\ Emptied(Top(t).act) \/ Top(t).entry \in cached'[Top(t).act]
  BY <1>2 DEF Store, StoreSlot, TypeOK
<1>7. NothingMade'
  BY <1>1, <1>3, <1>5 DEF MadeOK, NothingMade
<1>8. MadeIsCached'
  <2> SUFFICES ASSUME NEW a \in Activations, NEW e \in Entries,
                      made[a][e] # 0, ~Emptied(a), e \notin cached'[a]
               PROVE  \E u \in Callers, d \in Depths :
                         /\ frame'[u][d].pc = "store" /\ frame'[u][d].act = a
                         /\ frame'[u][d].entry = e
    BY <1>1 DEF MadeIsCached, Emptied
  <2>1. PICK u \in Callers, d \in Depths :
           frame[u][d].pc = "store" /\ frame[u][d].act = a /\ frame[u][d].entry = e
    BY <1>6 DEF MadeOK, MadeIsCached
  <2>2. u # t \/ d # depth[t]
    BY <1>6, <2>1 DEF Top
  <2> QED
    BY <1>5, <2>1, <2>2
<1> QED
  BY <1>1, <1>7, <1>8 DEF MadeOK, ComputedOnce

LEMMA MadeNext ==
    ASSUME TypeOK, StackOK, CurrentIsLive, ClaimsHeld, MadeOK, [Next]_vars
    PROVE  MadeOK'
<1> USE DEF storageVars, ghostVars
<1>a. ASSUME NEW t \in Callers, depth[t] > 0, NEW kind \in Outcomes, Return(t, kind),
             UNCHANGED <<made, cached, phase>>, Top(t).pc # "store"
      PROVE  MadeOK'
  BY <1>a, QuietReturn
<1>b. ASSUME NEW t \in Callers, depth[t] > 0, NEW pc \in PCs, Go(t, pc),
             UNCHANGED <<made, cached, phase>>, Top(t).pc # "store",
             pc \in {"compute", "register", "append"} => Before(Top(t))
      PROVE  MadeOK'
  <2> DEFINE f == [Top(t) EXCEPT !.pc = pc]
  <2>1. Top(t) \in Frame
    BY <1>b, TopIsFrame
  <2>2. f \in Frame /\ f.pc = pc /\ SameWork(f, Top(t))
    BY <2>1 DEF Frame, SameWork
  <2>3. SetTop(t, f)
    BY <1>b DEF Go
  <2>4. Before(f) => Before(Top(t)) /\ SameWork(f, Top(t))
    BY <1>b, <2>2 DEF Before
  <2> HIDE DEF f
  <2> QED
    BY <1>b, <2>2, <2>3, <2>4, QuietSet
<1>c. ASSUME NEW t \in Callers, depth[t] > 0, NEW kind \in Outcomes,
             SetTop(t, [Top(t) EXCEPT !.pc = "unclaim", !.result = kind]),
             UNCHANGED <<made, cached, phase>>, Top(t).pc # "store"
      PROVE  MadeOK'
  <2> DEFINE f == [Top(t) EXCEPT !.pc = "unclaim", !.result = kind]
  <2>1. Top(t) \in Frame
    BY <1>c, TopIsFrame
  <2>2. f \in Frame /\ ~Before(f)
    BY <2>1 DEF Frame, PCs, Computing, Before
  <2>3. SetTop(t, f)
    BY <1>c
  <2> HIDE DEF f
  <2> QED
    BY <1>c, <2>2, <2>3, QuietSet
<1>d. ASSUME UNCHANGED <<frame, made>>,
             \A a \in Activations : ~Emptied(a)' => ~Emptied(a) /\ cached'[a] = cached[a]
      PROVE  MadeOK'
  BY <1>d, QuietKeeps DEF SameWork
<1>1. CASE UNCHANGED vars
  BY <1>1, <1>d DEF vars, Emptied
<1>2. ASSUME NEW t \in Callers, Call(t) PROVE MadeOK'
  <2>1. PICK e \in Entries : frame' = [frame EXCEPT ![t][1] = Opened(e)]
    BY <1>2 DEF Call
  <2>2. PICK p \in Depths : p = 1
    BY ConstantsAssumption
  <2>3. frame'[t][p] = Opened(e)
        /\ \A u \in Callers, i \in Depths : u # t \/ i # p => frame'[u][i] = frame[u][i]
    BY <2>1, <2>2 DEF TypeOK
  <2>4. OthersSame(t, p) /\ frame'[t][p].pc = "read"
    BY <2>3, OpenedIsFrame DEF OthersSame, SameCall
  <2>5. frame[t][p].pc # "store"
    BY <1>2, <2>2 DEF Call, StackOK, InPlace
  <2> QED
    BY <1>2, <2>4, <2>5, QuietFrame DEF Call, Before
<1>3. ASSUME NEW t \in Callers, CallDependency(t) PROVE MadeOK'
  <2>1. PICK e \in Top(t).todo :
           frame' = [frame EXCEPT ![t][depth[t]].todo = @ \ {e}, ![t][depth[t] + 1] = Opened(e)]
    BY <1>3 DEF CallDependency
  <2>2. depth[t] > 0 /\ depth[t] < MaxDepth /\ depth[t] \in Depths
    BY <1>3, TopIsFrame DEF CallDependency, At
  <2>3. e \in Entries
    BY <2>1, <2>2, TopInPlace DEF Frame
  <2>4. PICK p \in Depths : p = depth[t] + 1
    BY <2>1, <2>2, <2>3, PushEffect
  <2>5. frame'[t][p] = Opened(e) /\ OthersSame(t, p)
    BY <2>1, <2>2, <2>3, <2>4, PushEffect DEF OthersSame
  <2>6. frame'[t][p].pc = "read"
    BY <2>3, <2>5, OpenedIsFrame
  <2>7. frame[t][p].pc # "store"
    BY <2>2, <2>4 DEF StackOK, InPlace
  <2> QED
    BY <1>3, <2>5, <2>6, <2>7, QuietFrame DEF CallDependency, Before
<1>4. ASSUME NEW t \in Callers, Read(t) PROVE MadeOK'
  <2>1. depth[t] > 0 /\ Top(t).pc = "read" /\ UNCHANGED <<made, cached, phase>>
    BY <1>4 DEF Read, At
  <2>2. CASE \E kind \in Outcomes : Return(t, kind)
    BY <1>a, <2>1, <2>2
  <2>3. CASE Miss(t)
    BY <1>b, <2>1, <2>3 DEF Miss, PCs, Computing
  <2>4. CASE current # None /\ SetTop(t, [Top(t) EXCEPT !.act = current, !.pc = "reread"])
    <3> DEFINE f == [Top(t) EXCEPT !.act = current, !.pc = "reread"]
    <3>1. Top(t) \in Frame /\ current \in Activations
      BY <2>1, <2>4, TopIsFrame DEF TypeOK
    <3>2. f \in Frame /\ ~Before(f)
      BY <3>1 DEF Frame, PCs, Before
    <3>3. SetTop(t, f)
      BY <2>4
    <3> HIDE DEF f
    <3> QED
      BY <2>1, <3>2, <3>3, QuietSet
  <2> QED
    BY <1>4, <2>2, <2>3, <2>4 DEF Read, Outcomes
<1>5. ASSUME NEW t \in Callers, Reread(t) PROVE MadeOK'
  <2>1. depth[t] > 0 /\ Top(t).pc = "reread" /\ UNCHANGED <<made, cached, phase>>
    BY <1>5 DEF Reread, At
  <2>2. CASE \E kind \in Outcomes : Return(t, kind)
    BY <1>a, <2>1, <2>2
  <2>3. CASE Miss(t)
    BY <1>b, <2>1, <2>3 DEF Miss, PCs, Computing
  <2> QED
    BY <1>5, <2>2, <2>3 DEF Reread, Outcomes
<1>6. ASSUME NEW t \in Callers, TryClaim(t) PROVE MadeOK'
  <2>1. depth[t] > 0 /\ Top(t).pc = "lock" /\ UNCHANGED <<made, cached, phase>>
    BY <1>6 DEF TryClaim, Watch, At
  <2>2. CASE \E kind \in Outcomes : Return(t, kind)
    BY <1>a, <2>1, <2>2
  <2>3. CASE Go(t, "wait")
    BY <1>b, <2>1, <2>3 DEF PCs, Computing
  <2>4. CASE /\ ~Emptied(Top(t).act) /\ Top(t).entry \notin cached[Top(t).act]
             /\ claim[Top(t).entry] = None /\ Go(t, "compute")
    BY <2>1, <2>4, TakeMade
  <2> QED
    BY <1>6, <2>2, <2>3, <2>4 DEF TryClaim, Watch, Recheck, Outcomes
<1>7. ASSUME NEW t \in Callers, Wake(t) \/ CancelWait(t) PROVE MadeOK'
  <2>1. depth[t] > 0 /\ Top(t).pc = "wait" /\ UNCHANGED <<made, cached, phase>>
    BY <1>7 DEF Wake, CancelWait, At
  <2>2. CASE \E kind \in Outcomes : Return(t, kind)
    BY <1>a, <2>1, <2>2
  <2>3. CASE Go(t, "lock")
    BY <1>b, <2>1, <2>3 DEF PCs, Computing
  <2> QED
    BY <1>7, <2>2, <2>3 DEF Wake, CancelWait, Outcomes
<1>8. ASSUME NEW t \in Callers, Fail(t) \/ Compute(t) \/ Register(t) \/ AppendContext(t) PROVE MadeOK'
  <2>1. depth[t] > 0 /\ Before(Top(t)) /\ UNCHANGED <<cached, phase>>
    BY <1>8 DEF Fail, Compute, Register, AppendContext, At, Before
  <2>2. CASE UNCHANGED made /\ (Go(t, "register") \/ Go(t, "append"))
    BY <1>b, <2>1, <2>2 DEF PCs, Computing, Before
  <2>3. CASE made' = Inc(made, Top(t)) /\ Go(t, "store")
    BY <2>1, <2>3, MakeMade
  <2>4. CASE /\ UNCHANGED made
             /\ \E kind \in Outcomes :
                   SetTop(t, [Top(t) EXCEPT !.pc = "unclaim", !.result = kind])
    BY <1>c, <2>1, <2>4 DEF Before
  <2> QED
    BY <1>8, <2>2, <2>3, <2>4 DEF Fail, Compute, Register, AppendContext, Outcomes
<1>9. ASSUME NEW t \in Callers, Unclaim(t) PROVE MadeOK'
  <2>1. depth[t] > 0 /\ Top(t).pc = "unclaim" /\ Top(t).result \in Outcomes
    BY <1>9, TopIsFrame DEF Unclaim, At, Frame
  <2> QED
    BY <1>9, <2>1, <1>a DEF Unclaim
<1>10. ASSUME NEW a \in Activations, Activate(a) \/ End(a) \/ Closing(a) PROVE MadeOK'
  <2>1. UNCHANGED <<frame, made>>
    BY <1>10 DEF Activate, End, Closing, Clear, ExitNext, Drained
  <2>2. \A b \in Activations : ~Emptied(b)' => ~Emptied(b) /\ cached'[b] = cached[b]
    <3> USE DEF Emptied, TypeOK
    <3>1. CASE Activate(a)
      BY <3>1 DEF Activate
    <3>2. CASE End(a)
      BY <3>2 DEF End, CurrentIsLive
    <3>3. CASE Clear(a)
      BY <3>3 DEF Clear
    <3>4. CASE ExitNext(a)
      BY <3>4 DEF ExitNext
    <3>5. CASE Drained(a)
      BY <3>5 DEF Drained
    <3> QED
      BY <1>10, <3>1, <3>2, <3>3, <3>4, <3>5 DEF Closing
  <2> QED
    BY <1>d, <2>1, <2>2
<1> QED
  BY <1>1, <1>2, <1>3, <1>4, <1>5, <1>6, <1>7, <1>8, <1>9, <1>10, StoreMade DEF Next, Step

LEMMA CurrentNext ==
    ASSUME TypeOK, CurrentIsLive, [Next]_vars
    PROVE  CurrentIsLive'
<1> USE DEF CurrentIsLive, storageVars, ghostVars
<1>a. ASSUME UNCHANGED <<current, phase>> PROVE CurrentIsLive'
  BY <1>a
<1>1. CASE UNCHANGED vars
  BY <1>1, <1>a DEF vars
<1>2. ASSUME NEW t \in Callers, Call(t) \/ Step(t) \/ CancelWait(t) \/ Fail(t)
      PROVE  CurrentIsLive'
  BY <1>2, <1>a DEF Call, CancelWait, Fail, Step, CallDependency, Read, Reread, TryClaim, Watch,
                    Wake,
                    Compute, Register, AppendContext, Store, Unclaim
<1>3. ASSUME NEW a \in Activations, Activate(a) PROVE CurrentIsLive'
  BY <1>3 DEF Activate, TypeOK
<1>4. ASSUME NEW a \in Activations, End(a) PROVE CurrentIsLive'
  BY <1>4, ConstantsAssumption DEF End, TypeOK
<1>5. ASSUME NEW a \in Activations, Closing(a) PROVE CurrentIsLive'
  BY <1>5 DEF Closing, Clear, ExitNext, Drained, TypeOK
<1> QED
  BY <1>1, <1>2, <1>3, <1>4, <1>5 DEF Next

\* Emptied storage stays empty: only the store writes to it, and it looks first.
LEMMA RefillNext ==
    ASSUME TypeOK, StackOK, EndedNotRefilled, [Next]_vars
    PROVE  EndedNotRefilled'
<1> USE DEF storageVars, ghostVars
<1>a. ASSUME UNCHANGED <<cached, phase>> PROVE EndedNotRefilled'
  BY <1>a DEF EndedNotRefilled, Emptied
<1>1. CASE UNCHANGED vars
  BY <1>1, <1>a DEF vars
<1>2. ASSUME NEW t \in Callers, Call(t) \/ CancelWait(t) \/ Fail(t) \/ Step(t), ~Store(t)
      PROVE  EndedNotRefilled'
  BY <1>2, <1>a DEF Call, CancelWait, Fail, Step, CallDependency, Read, Reread, TryClaim, Watch,
                    Wake,
                    Compute, Register, AppendContext, Unclaim
<1>3. ASSUME NEW t \in Callers, Store(t) PROVE EndedNotRefilled'
  <2>1. depth[t] > 0 /\ Top(t).pc = "store" /\ UNCHANGED phase
    BY <1>3 DEF Store, At
  <2>2. Top(t).act \in Activations
    BY <2>1, TopInPlace DEF Computing
  <2> QED
    BY <1>3, <2>1, <2>2 DEF Store, StoreSlot, EndedNotRefilled, Emptied, TypeOK
<1>4. ASSUME NEW a \in Activations, Activate(a) \/ End(a) \/ Closing(a)
      PROVE  EndedNotRefilled'
  BY <1>4 DEF Activate, End, Closing, Clear, ExitNext, Drained, Emptied, EndedNotRefilled, TypeOK
<1> QED
  BY <1>1, <1>2, <1>3, <1>4 DEF Next

-----------------------------------------------------------------------------
(* The theorems                                                            *)

LEMMA InvInit == Init => IInv
<1> SUFFICES ASSUME Init PROVE IInv
  OBVIOUS
<1>1. TypeOK /\ StackOK
  BY TypeInit
<1>2. \A t \in Callers, d \in Depths : frame[t][d].pc = "idle"
  BY DEF Init, NoFrame
<1>3. ClaimsHeld /\ NothingMade
  BY <1>2 DEF ClaimsHeld, NothingMade, Holds, Computing
<1>4. MadeIsCached /\ ComputedOnce /\ EndedNotRefilled
  BY DEF Init, MadeIsCached, ComputedOnce, EndedNotRefilled
<1>5. CurrentIsLive
  BY ConstantsAssumption DEF Init, CurrentIsLive
<1> QED
  BY <1>1, <1>3, <1>4, <1>5 DEF IInv

LEMMA InvNext == IInv /\ [Next]_vars => IInv'
BY TypeNext, CurrentNext, ClaimsNext, MadeNext, RefillNext DEF IInv, MadeOK

THEOREM Invariant == Spec => []IInv
BY InvInit, InvNext, PTL DEF Spec

\* Overlapping callers of one activation compute an entry at most once, however many
\* they are and whatever ends, raises or is cancelled meanwhile.
THEOREM ComputesOnce == Spec => []ComputedOnce
<1>1. IInv => ComputedOnce
  BY DEF IInv
<1> QED
  BY <1>1, Invariant, PTL

\* A computation that outlives its activation never refills the emptied storage.
THEOREM NeverRefilled == Spec => []EndedNotRefilled
<1>1. IInv => EndedNotRefilled
  BY DEF IInv
<1> QED
  BY <1>1, Invariant, PTL

\* Two computations of one entry never run at the same time, even for different
\* activations: the claim excludes all callers but one.
THEOREM ClaimExcludes ==
    Spec => [](\A t, u \in Callers : \A d, i \in Depths :
                  Holds(t, d) /\ Holds(u, i) /\ frame[t][d].entry = frame[u][i].entry
                     => t = u /\ d = i)
<1>1. IInv => \A t, u \in Callers : \A d, i \in Depths :
                 Holds(t, d) /\ Holds(u, i) /\ frame[t][d].entry = frame[u][i].entry
                    => t = u /\ d = i
  BY DEF IInv, ClaimsHeld
<1> QED
  BY <1>1, Invariant, PTL

-----------------------------------------------------------------------------
(* What a step does to every field of every frame                          *)

\* The fields of a frame that only the rest of its own call changes.
SameRest(f, g) == SameCall(f, g) /\ f.used = g.used /\ f.result = g.result /\ f.todo = g.todo

\* A caller's step changes the frame at p, to one of the given properties.
Moves(t, p) ==
    \A u \in Callers, d \in Depths : u # t \/ d # p => SameRest(frame'[u][d], frame[u][d])

\* The running call returns: its caller's frame may have got a value of its activation.
Gets(t, kind, d) ==
    IF d = depth[t] - 1 /\ kind = "value" /\ frame[t][d].act = Top(t).act
    THEN frame'[t][d].used = frame[t][d].used \cup {Top(t).entry}
    ELSE frame'[t][d].used = frame[t][d].used

LEMMA MoveEffect ==
    ASSUME TypeOK, NEW t \in Callers, depth[t] > 0, NEW f \in Frame, SetTop(t, f)
    PROVE  frame'[t][depth[t]] = f /\ Moves(t, depth[t]) /\ OthersSame(t, depth[t])
BY SetTopEffect DEF Moves, SameRest, SameCall, OthersSame

LEMMA GoEffect ==
    ASSUME TypeOK, NEW t \in Callers, depth[t] > 0, NEW pc \in PCs, Go(t, pc)
    PROVE  /\ Moves(t, depth[t]) /\ OthersSame(t, depth[t])
           /\ frame'[t][depth[t]].pc = pc
           /\ SameWork(frame'[t][depth[t]], Top(t))
           /\ frame'[t][depth[t]].used = Top(t).used
           /\ frame'[t][depth[t]].result = Top(t).result
           /\ frame'[t][depth[t]].todo = Top(t).todo
<1> DEFINE f == [Top(t) EXCEPT !.pc = pc]
<1>1. Top(t) \in Frame
  BY TopIsFrame
<1>2. /\ f \in Frame /\ f.pc = pc /\ f.act = Top(t).act /\ f.entry = Top(t).entry
      /\ f.used = Top(t).used /\ f.result = Top(t).result /\ f.todo = Top(t).todo
  BY <1>1 DEF Frame
<1>3. SetTop(t, f)
  BY DEF Go
<1> HIDE DEF f
<1> QED
  BY <1>2, <1>3, MoveEffect DEF SameWork

\* A computation ends with its result decided; the claim is still to be popped.
LEMMA UnclaimEffect ==
    ASSUME TypeOK, NEW t \in Callers, depth[t] > 0, NEW kind \in Outcomes,
           SetTop(t, [Top(t) EXCEPT !.pc = "unclaim", !.result = kind])
    PROVE  /\ Moves(t, depth[t]) /\ OthersSame(t, depth[t])
           /\ frame'[t][depth[t]].pc = "unclaim"
           /\ SameWork(frame'[t][depth[t]], Top(t))
           /\ frame'[t][depth[t]].used = Top(t).used
           /\ frame'[t][depth[t]].result = kind
           /\ frame'[t][depth[t]].todo = Top(t).todo
<1> DEFINE f == [Top(t) EXCEPT !.pc = "unclaim", !.result = kind]
<1>1. Top(t) \in Frame
  BY TopIsFrame
<1>2. /\ f \in Frame /\ f.pc = "unclaim" /\ f.act = Top(t).act /\ f.entry = Top(t).entry
      /\ f.used = Top(t).used /\ f.result = kind /\ f.todo = Top(t).todo
  BY <1>1 DEF Frame, PCs, Computing
<1>3. SetTop(t, f)
  OBVIOUS
<1> HIDE DEF f
<1> QED
  BY <1>2, <1>3, MoveEffect DEF SameWork

LEMMA RereadEffect ==
    ASSUME TypeOK, NEW t \in Callers, depth[t] > 0, current # None,
           SetTop(t, [Top(t) EXCEPT !.act = current, !.pc = "reread"])
    PROVE  /\ Moves(t, depth[t]) /\ OthersSame(t, depth[t])
           /\ frame'[t][depth[t]].pc = "reread"
           /\ frame'[t][depth[t]].entry = Top(t).entry
           /\ frame'[t][depth[t]].used = Top(t).used
           /\ frame'[t][depth[t]].result = Top(t).result
           /\ frame'[t][depth[t]].todo = Top(t).todo
<1> DEFINE f == [Top(t) EXCEPT !.act = current, !.pc = "reread"]
<1>1. Top(t) \in Frame /\ current \in Activations
  BY TopIsFrame DEF TypeOK
<1>2. /\ f \in Frame /\ f.pc = "reread" /\ f.entry = Top(t).entry
      /\ f.used = Top(t).used /\ f.result = Top(t).result /\ f.todo = Top(t).todo
  BY <1>1 DEF Frame, PCs
<1>3. SetTop(t, f)
  OBVIOUS
<1> HIDE DEF f
<1> QED
  BY <1>2, <1>3, MoveEffect

LEMMA ReturnFrames ==
    ASSUME TypeOK, StackOK, NEW t \in Callers, depth[t] > 0, NEW kind \in Outcomes,
           Return(t, kind)
    PROVE  /\ frame'[t][depth[t]] = NoFrame /\ OthersSame(t, depth[t])
           /\ depth[t] \in Depths /\ Top(t).entry \in Entries
           /\ \A u \in Callers, d \in Depths :
                 u # t \/ d # depth[t] =>
                    /\ frame'[u][d].result = frame[u][d].result
                    /\ frame'[u][d].todo = frame[u][d].todo
                    /\ u # t => frame'[u][d].used = frame[u][d].used
           /\ \A d \in Depths \ {depth[t]} : Gets(t, kind, d)
<1> DEFINE Got(f) == IF kind = "value" /\ f.act = Top(t).act
                     THEN [f EXCEPT !.used = @ \cup {Top(t).entry}] ELSE f
           new == [i \in Depths |-> CASE i = depth[t] -> NoFrame
                                      [] i = depth[t] - 1 -> Got(frame[t][i])
                                      [] OTHER -> frame[t][i]]
<1>1. depth[t] \in Depths /\ Top(t) \in Frame /\ Top(t).entry \in Entries
  BY TopIsFrame, TopInPlace
<1>2. frame'[t][depth[t]] = NoFrame /\ OthersSame(t, depth[t])
  BY <1>1, ReturnEffect DEF OthersSame
<1>3. frame' = [frame EXCEPT ![t] = new]
  BY DEF Return
<1>4. frame \in [Callers -> [Depths -> Frame]]
  BY DEF TypeOK
<1>5. ASSUME NEW f \in Frame
      PROVE  /\ Got(f).result = f.result /\ Got(f).todo = f.todo
             /\ Got(f).used = IF kind = "value" /\ f.act = Top(t).act
                              THEN f.used \cup {Top(t).entry} ELSE f.used
  BY DEF Frame
<1>6. ASSUME NEW d \in Depths \ {depth[t]}
      PROVE  /\ new[d].result = frame[t][d].result /\ new[d].todo = frame[t][d].todo
             /\ new[d].used = IF d = depth[t] - 1 /\ kind = "value" /\ frame[t][d].act = Top(t).act
                              THEN frame[t][d].used \cup {Top(t).entry} ELSE frame[t][d].used
  <2>1. frame[t][d] \in Frame
    BY <1>4
  <2>2. new[d] = IF d = depth[t] - 1 THEN Got(frame[t][d]) ELSE frame[t][d]
    OBVIOUS
  <2> HIDE DEF Got, new
  <2> QED
    BY <1>5, <2>1, <2>2
<1> HIDE DEF new
<1>7. frame'[t] = new /\ \A u \in Callers : u # t => frame'[u] = frame[u]
  BY <1>3, <1>4
<1> QED
  BY <1>1, <1>2, <1>6, <1>7 DEF Gets

\* The frames but the one at p keep their calls, their results and no more than their todos.
Spares(t, p) ==
    \A u \in Callers, d \in Depths :
       u # t \/ d # p => /\ SameCall(frame'[u][d], frame[u][d])
                        /\ frame'[u][d].result = frame[u][d].result
                        /\ frame'[u][d].todo \subseteq frame[u][d].todo

Pushes(t, p) ==
    /\ Spares(t, p)
    /\ \A u \in Callers, d \in Depths : u # t \/ d # p => frame'[u][d].used = frame[u][d].used

LEMMA PushFrames ==
    ASSUME TypeOK, NEW t \in Callers, NEW e \in Entries, depth[t] > 0, depth[t] < MaxDepth,
           frame' = [frame EXCEPT ![t][depth[t]].todo = @ \ {e},
                                  ![t][depth[t] + 1] = Opened(e)]
    PROVE  /\ depth[t] + 1 \in Depths /\ depth[t] \in Depths
           /\ frame'[t][depth[t] + 1] = Opened(e) /\ OthersSame(t, depth[t] + 1)
           /\ Pushes(t, depth[t] + 1)
<1> DEFINE d == depth[t]
           lower == [Top(t) EXCEPT !.todo = @ \ {e}]
<1>1. d \in Depths /\ d + 1 \in Depths /\ Top(t) \in Frame
  BY TopIsFrame, ConstantsAssumption DEF TypeOK
<1>2. /\ lower \in Frame /\ lower.result = Top(t).result /\ lower.used = Top(t).used
      /\ lower.todo \subseteq Top(t).todo
  BY <1>1 DEF Frame
<1>3. frame' = [frame EXCEPT ![t] = [frame[t] EXCEPT ![d] = lower, ![d + 1] = Opened(e)]]
  BY <1>1 DEF TypeOK, Top
<1>4. Opened(e) \in Frame /\ frame[t][d] = Top(t)
  BY OpenedIsFrame DEF Top
<1>8. frame'[t][d + 1] = Opened(e) /\ OthersSame(t, d + 1)
  BY PushEffect DEF OthersSame
<1> HIDE DEF lower, d
<1>5. frame'[t] = [frame[t] EXCEPT ![d] = lower, ![d + 1] = Opened(e)]
      /\ \A u \in Callers : u # t => frame'[u] = frame[u]
  BY <1>3 DEF TypeOK
<1>6. frame[t] \in [Depths -> Frame]
  BY DEF TypeOK
<1>7. frame'[t][d] = lower /\ \A i \in Depths \ {d, d + 1} : frame'[t][i] = frame[t][i]
  <2>1. d # d + 1
    BY <1>1
  <2>3. PICK h : h = frame'[t]
    OBVIOUS
  <2>4. h = [frame[t] EXCEPT ![d] = lower, ![d + 1] = Opened(e)]
    BY <1>5, <2>3
  <2>5. h[d] = lower /\ \A k \in Depths \ {d, d + 1} : h[k] = frame[t][k]
    BY <1>1, <1>2, <1>4, <1>6, <2>1, <2>4, TwoUpdates
  <2> QED
    BY <2>3, <2>5
<1> QED
  BY <1>1, <1>2, <1>4, <1>5, <1>7, <1>8, ZenonT(40) DEF d, Pushes, Spares, OthersSame

-----------------------------------------------------------------------------
(* Resources: entered once, listed, exited once                            *)

Listed(a, e) == \E i \in 1..Len(contexts[a]) : contexts[a][i] = e

\* Between the entry and the list.
Entering == {"register", "append"}

Registering(a, e) ==
    \E t \in Callers, d \in Depths :
        frame[t][d].pc \in Entering /\ frame[t][d].act = a /\ frame[t][d].entry = e

\* A computation has entered its resource exactly when it is about to register it; storage
\* emptied under it has marked the entry.
EntryOK(f) ==
    /\ f.pc = "compute" => entered[f.act][f.entry] = 0
    /\ f.pc \in Entering =>
          /\ f.entry \in Resources
          /\ entered[f.act][f.entry] = 1 /\ exited[f.act][f.entry] = 0
          /\ ~Listed(f.act, f.entry)
    /\ f.pc = "append" /\ Emptied(f.act) => f.entry \in overtaken[f.act]

\* A resource that is open is listed or about to be, unless it was overtaken; one that was
\* entered for storage in use gave the entry its value, or will.
CountOK(a, e) ==
    /\ exited[a][e] <= entered[a][e] /\ entered[a][e] <= 1
    /\ entered[a][e] > 0 => e \in Resources
    /\ exited[a][e] > 0 => Emptied(a)
    /\ entered[a][e] > 0 /\ ~Emptied(a) /\ made[a][e] = 0 => Registering(a, e)
    /\ entered[a][e] > exited[a][e] => Listed(a, e) \/ Registering(a, e) \/ e \in overtaken[a]
    /\ Listed(a, e) => entered[a][e] = 1 /\ exited[a][e] = 0

NoDuplicates(s) == \A i, j \in 1..Len(s) : s[i] = s[j] => i = j

\* The list of a closed activation holds overtaken entries only.
ListOK(a) ==
    /\ NoDuplicates(contexts[a])
    /\ phase[a] = "closed" => \A e \in Entries : Listed(a, e) => e \in overtaken[a]
    /\ ~Emptied(a) => overtaken[a] = {}

EnteredOK ==
    /\ \A t \in Callers, d \in Depths : EntryOK(frame[t][d])
    /\ \A a \in Activations : ListOK(a) /\ \A e \in Entries : CountOK(a, e)

\* A step that enters, lists and exits nothing, and empties no storage.
LEMMA EnteredQuiet ==
    ASSUME TypeOK, StackOK, EnteredOK, UNCHANGED <<entered, exited, contexts, overtaken>>,
           \A a \in Activations, e \in Entries : made'[a][e] = 0 => made[a][e] = 0,
           \A a \in Activations : Emptied(a)' <=> Emptied(a),
           \A a \in Activations :
              phase'[a] = "closed" => phase[a] = "closed" \/ contexts[a] = <<>>,
           \A u \in Callers, d \in Depths :
              /\ frame'[u][d].pc \in Entering <=> frame[u][d].pc \in Entering
              /\ frame[u][d].pc \in Entering => SameWork(frame'[u][d], frame[u][d])
              /\ frame'[u][d].pc = "append" => frame[u][d].pc = "append" \/ ~Emptied(frame[u][d].act),
           \A u \in Callers, d \in Depths :
              frame'[u][d].pc = "compute"
                 => \/ frame[u][d].pc = "compute" /\ SameWork(frame'[u][d], frame[u][d])
                    \/ entered[frame'[u][d].act][frame'[u][d].entry] = 0
    PROVE  EnteredOK'
<1>1. ASSUME NEW u \in Callers, NEW d \in Depths PROVE EntryOK(frame[u][d])'
  <2>1. EntryOK(frame[u][d])
    BY DEF EnteredOK
  <2>2. CASE frame'[u][d].pc \in Entering
    <3>1. /\ SameWork(frame'[u][d], frame[u][d]) /\ frame[u][d].pc \in Entering
          /\ frame'[u][d].pc # "compute"
      BY <2>2 DEF Entering
    <3>2. \A g : Listed(frame[u][d].act, g)' <=> Listed(frame[u][d].act, g)
      BY <3>1 DEF Listed, SameWork
    <3>3. Emptied(frame[u][d].act)' <=> Emptied(frame[u][d].act)
      <4>1. Emptied(frame[u][d].act)' <=> phase'[frame[u][d].act] \in {"draining", "closed"}
        BY <3>1 DEF Emptied, SameWork
      <4>2. PICK b \in Activations : b = frame[u][d].act
        BY <3>1, FrameInUse DEF Holds, Entering, Computing
      <4>3. phase'[b] \in {"draining", "closed"} <=> Emptied(b)
        BY DEF Emptied
      <4> QED
        BY <4>1, <4>2, <4>3
    <3>4. frame'[u][d].pc = "append" /\ Emptied(frame[u][d].act) => frame[u][d].pc = "append"
      OBVIOUS
    <3> QED
      BY <2>1, <2>2, <3>1, <3>2, <3>3, <3>4 DEF EntryOK, SameWork
  <2>3. CASE frame'[u][d].pc \notin Entering
    BY <2>1, <2>3 DEF EntryOK, SameWork, Entering
  <2> QED
    BY <2>2, <2>3
<1>2. ASSUME NEW a \in Activations PROVE ListOK(a)'
  <2>1. ListOK(a) /\ \A e : Listed(a, e)' <=> Listed(a, e)
    BY DEF EnteredOK, Listed
  <2>2. contexts[a] = <<>> => \A e : ~Listed(a, e)
    BY DEF Listed
  <2> QED
    BY <2>1, <2>2 DEF ListOK
<1>3. ASSUME NEW a \in Activations, NEW e \in Entries PROVE CountOK(a, e)'
  <2>1. CountOK(a, e)
    BY DEF EnteredOK
  <2>2. Listed(a, e)' <=> Listed(a, e)
    BY DEF Listed
  <2>3. Registering(a, e) => Registering(a, e)'
    BY DEF Registering, SameWork
  <2> QED
    BY <2>1, <2>2, <2>3 DEF CountOK
<1> QED
  BY <1>1, <1>2, <1>3 DEF EnteredOK

LEMMA EnteredFrame ==
    ASSUME TypeOK, StackOK, EnteredOK,
           UNCHANGED <<entered, exited, contexts, phase, overtaken>>,
           \A a \in Activations, e \in Entries : made'[a][e] = 0 => made[a][e] = 0,
           NEW t \in Callers, NEW p \in Depths, OthersSame(t, p),
           frame[t][p].pc \notin Entering, frame'[t][p].pc \notin Entering,
           frame'[t][p].pc = "compute"
              => \/ frame[t][p].pc = "compute" /\ SameWork(frame'[t][p], frame[t][p])
                 \/ entered[frame'[t][p].act][frame'[t][p].entry] = 0
    PROVE  EnteredOK'
<1>1. \A u \in Callers, d \in Depths :
         /\ frame'[u][d].pc \in Entering <=> frame[u][d].pc \in Entering
         /\ frame[u][d].pc \in Entering => SameWork(frame'[u][d], frame[u][d])
         /\ frame'[u][d].pc = "append" => frame[u][d].pc = "append"
  BY DEF OthersSame, SameCall, SameWork, Entering
<1>2. \A u \in Callers, d \in Depths :
         frame'[u][d].pc = "compute"
            => \/ frame[u][d].pc = "compute" /\ SameWork(frame'[u][d], frame[u][d])
               \/ entered[frame'[u][d].act][frame'[u][d].entry] = 0
  BY DEF OthersSame, SameCall, SameWork
<1>3. \A a \in Activations : Emptied(a)' <=> Emptied(a)
  BY DEF Emptied
<1> QED
  BY <1>1, <1>2, <1>3, EnteredQuiet

\* Two computing frames never work on one entry.
LEMMA OneHolder ==
    ASSUME ClaimsHeld, NEW t \in Callers, NEW u \in Callers, NEW d \in Depths, NEW i \in Depths,
           Holds(t, d), Holds(u, i), u # t \/ i # d
    PROVE  frame[u][i].entry # frame[t][d].entry
BY DEF ClaimsHeld

\* A claim is taken of an entry nothing was made of: its resource was never entered.
LEMMA EnteredTake ==
    ASSUME TypeOK, StackOK, ClaimsHeld, NothingMade', EnteredOK,
           UNCHANGED <<entered, exited, contexts, phase, made, overtaken>>,
           NEW t \in Callers, depth[t] > 0, Top(t).pc = "lock", ~Emptied(Top(t).act),
           claim[Top(t).entry] = None, Go(t, "compute")
    PROVE  EnteredOK'
<1>1. /\ Top(t).entry \in Entries /\ Top(t).act \in Activations /\ depth[t] \in Depths
      /\ Top(t) = frame[t][depth[t]]
  BY TopInPlace, TopIsFrame DEF Top
<1>2. /\ OthersSame(t, depth[t]) /\ frame'[t][depth[t]].pc = "compute"
      /\ SameWork(frame'[t][depth[t]], Top(t))
  BY GoEffect DEF PCs, Computing
<1>3. made[Top(t).act][Top(t).entry] = 0
  BY <1>1, <1>2 DEF NothingMade, SameWork
<1>4. ~Registering(Top(t).act, Top(t).entry)
  BY <1>1, ConstantsAssumption DEF Registering, ClaimsHeld, Holds, Computing, Entering
<1>5. entered[Top(t).act][Top(t).entry] = 0
  BY <1>1, <1>3, <1>4 DEF EnteredOK, CountOK, TypeOK
<1> QED
  BY <1>1, <1>2, <1>5, EnteredFrame DEF SameWork, Entering

\* A resource is entered.
LEMMA EnteredEnter ==
    ASSUME TypeOK, StackOK, ClaimsHeld, EnteredOK,
           UNCHANGED <<exited, contexts, phase, made, overtaken>>,
           NEW t \in Callers, depth[t] > 0, Top(t).pc = "compute", Top(t).entry \in Resources,
           Go(t, "register"), entered' = Inc(entered, Top(t))
    PROVE  EnteredOK'
<1> DEFINE p == depth[t]
<1>0. /\ Top(t).entry \in Entries /\ Top(t).act \in Activations /\ p \in Depths
      /\ Top(t) = frame[t][p] /\ Holds(t, p)
  BY TopInPlace, TopIsFrame DEF Top, Computing, Holds
<1>1. PICK a \in Activations, e \in Entries : a = Top(t).act /\ e = Top(t).entry
  BY <1>0
<1>2. /\ OthersSame(t, p) /\ frame'[t][p].pc = "register" /\ SameWork(frame'[t][p], Top(t))
  BY GoEffect DEF PCs, Computing
<1>3. /\ entered'[a][e] = entered[a][e] + 1
      /\ \A b \in Activations, g \in Entries : b # a \/ g # e => entered'[b][g] = entered[b][g]
  <2>1. entered \in [Activations -> [Entries -> Nat]]
    BY DEF TypeOK
  <2> QED
    BY <1>1, <2>1, IncEffect
<1>4. entered[a][e] = 0 /\ EntryOK(Top(t))
  BY <1>0, <1>1 DEF EnteredOK, EntryOK
<1>5. CountOK(a, e) /\ exited[a][e] \in Nat
  BY DEF EnteredOK, TypeOK
<1>6. exited[a][e] = 0 /\ ~Listed(a, e)
  BY <1>4, <1>5 DEF CountOK
<1> HIDE DEF p
<1>7. ASSUME NEW u \in Callers, NEW d \in Depths PROVE EntryOK(frame[u][d])'
  <2>1. CASE u = t /\ d = p
    BY <1>0, <1>1, <1>2, <1>3, <1>4, <1>6, <2>1, SMTT(40) DEF EntryOK, SameWork, Listed, Entering
  <2>2. CASE (u # t \/ d # p) /\ frame[u][d].pc \in {"compute", "register", "append"}
    <3>1. Holds(u, d) /\ SameCall(frame'[u][d], frame[u][d])
      BY <1>2, <2>2 DEF Holds, Computing, OthersSame
    <3>2. frame[u][d].entry # e
      BY <1>0, <1>1, <2>2, <3>1, OneHolder
    <3>3. frame[u][d].entry \in Entries /\ frame[u][d].act \in Activations
      BY <3>1, <2>2, FrameInUse
    <3>4. EntryOK(frame[u][d])
      BY DEF EnteredOK
    <3> QED
      BY <1>3, <3>1, <3>2, <3>3, <3>4 DEF EntryOK, SameCall, Listed, Entering, Emptied
  <2>3. CASE (u # t \/ d # p) /\ frame[u][d].pc \notin {"compute", "register", "append"}
    BY <1>2, <2>3 DEF EntryOK, OthersSame, SameCall, Entering
  <2> QED
    BY <2>1, <2>2, <2>3
<1>8. ASSUME NEW b \in Activations PROVE ListOK(b)'
  BY DEF EnteredOK, ListOK, Listed, Emptied
<1>9. ASSUME NEW b \in Activations, NEW g \in Entries PROVE CountOK(b, g)'
  <2>1. CountOK(b, g)
    BY DEF EnteredOK
  <2>2. (Listed(b, g)' <=> Listed(b, g)) /\ (Emptied(b)' <=> Emptied(b))
    BY DEF Listed, Emptied
  <2>3. Registering(b, g) => Registering(b, g)'
    <3>1. \A u \in Callers, d \in Depths :
             frame[u][d].pc \in Entering => SameCall(frame'[u][d], frame[u][d])
      BY <1>0, <1>2 DEF OthersSame, Entering
    <3> QED
      BY <3>1 DEF Registering, SameCall
  <2>4. CASE b = a /\ g = e
    <3>1. Registering(b, g)'
      BY <1>0, <1>1, <1>2, <2>4 DEF Registering, SameWork, Entering
    <3> QED
      BY <1>1, <1>3, <1>4, <1>5, <1>6, <2>2, <2>4, <3>1 DEF CountOK
  <2>5. CASE b # a \/ g # e
    BY <1>3, <2>1, <2>2, <2>3, <2>5 DEF CountOK
  <2> QED
    BY <2>4, <2>5
<1> QED
  BY <1>7, <1>8, <1>9 DEF EnteredOK

\* A resource entered for storage that was emptied meanwhile is exited at once.
LEMMA EnteredLate ==
    ASSUME TypeOK, StackOK, ClaimsHeld, EnteredOK,
           UNCHANGED <<entered, contexts, phase, made, overtaken>>,
           NEW t \in Callers, depth[t] > 0, Top(t).pc = "register", Emptied(Top(t).act),
           SetTop(t, [Top(t) EXCEPT !.pc = "unclaim", !.result = "Ended"]),
           exited' = Inc(exited, Top(t))
    PROVE  EnteredOK'
<1> DEFINE p == depth[t]
<1>0. /\ Top(t).entry \in Entries /\ Top(t).act \in Activations /\ p \in Depths
      /\ Top(t) = frame[t][p] /\ Holds(t, p)
  BY TopInPlace, TopIsFrame DEF Top, Computing, Holds
<1>1. PICK a \in Activations, e \in Entries : a = Top(t).act /\ e = Top(t).entry
  BY <1>0
<1>2. /\ OthersSame(t, p) /\ frame'[t][p].pc = "unclaim"
  BY UnclaimEffect DEF Outcomes
<1>3. /\ exited'[a][e] = exited[a][e] + 1
      /\ \A b \in Activations, g \in Entries : b # a \/ g # e => exited'[b][g] = exited[b][g]
  <2>1. exited \in [Activations -> [Entries -> Nat]]
    BY DEF TypeOK
  <2> QED
    BY <1>1, <2>1, IncEffect
<1>4. e \in Resources /\ entered[a][e] = 1 /\ exited[a][e] = 0 /\ ~Listed(a, e)
  BY <1>0, <1>1 DEF EnteredOK, EntryOK, Entering
<1> HIDE DEF p
<1>5. ASSUME NEW u \in Callers, NEW d \in Depths PROVE EntryOK(frame[u][d])'
  <2>1. CASE u = t /\ d = p
    BY <1>2, <2>1 DEF EntryOK, Entering
  <2>2. CASE (u # t \/ d # p) /\ frame[u][d].pc \in {"compute", "register", "append"}
    <3>1. Holds(u, d) /\ SameCall(frame'[u][d], frame[u][d])
      BY <1>2, <2>2 DEF Holds, Computing, OthersSame
    <3>2. frame[u][d].entry # e
      BY <1>0, <1>1, <2>2, <3>1, OneHolder
    <3>3. frame[u][d].entry \in Entries /\ frame[u][d].act \in Activations
      BY <3>1, <2>2, FrameInUse
    <3>4. EntryOK(frame[u][d])
      BY DEF EnteredOK
    <3> QED
      BY <1>3, <3>1, <3>2, <3>3, <3>4 DEF EntryOK, SameCall, Listed, Entering, Emptied
  <2>3. CASE (u # t \/ d # p) /\ frame[u][d].pc \notin {"compute", "register", "append"}
    BY <1>2, <2>3 DEF EntryOK, OthersSame, SameCall, Entering
  <2> QED
    BY <2>1, <2>2, <2>3
<1>6. ASSUME NEW b \in Activations PROVE ListOK(b)'
  BY DEF EnteredOK, ListOK, Listed, Emptied
<1>7. ASSUME NEW b \in Activations, NEW g \in Entries PROVE CountOK(b, g)'
  <2>1. CountOK(b, g)
    BY DEF EnteredOK
  <2>2. (Listed(b, g)' <=> Listed(b, g)) /\ (Emptied(b)' <=> Emptied(b))
    BY DEF Listed, Emptied
  <2>3. CASE b = a /\ g = e
    BY <1>1, <1>3, <1>4, <2>2, <2>3 DEF CountOK
  <2>4. CASE b # a \/ g # e
    <3>1. Registering(b, g) => Registering(b, g)'
      <4>1. ASSUME NEW u \in Callers, NEW d \in Depths, frame[u][d].pc \in Entering,
                   frame[u][d].act = b, frame[u][d].entry = g
            PROVE  SameCall(frame'[u][d], frame[u][d])
        BY <1>0, <1>1, <1>2, <2>4, <4>1 DEF OthersSame
      <4> QED
        BY <4>1 DEF Registering, SameCall
    <3> QED
      BY <1>3, <2>1, <2>2, <2>4, <3>1 DEF CountOK
  <2> QED
    BY <2>3, <2>4
<1> QED
  BY <1>5, <1>6, <1>7 DEF EnteredOK

\* The storage was found in use: the resource stays where it is, one step further.
LEMMA EnteredCheck ==
    ASSUME TypeOK, StackOK, EnteredOK,
           UNCHANGED <<entered, exited, contexts, phase, made, overtaken>>,
           NEW t \in Callers, depth[t] > 0, Top(t).pc = "register", ~Emptied(Top(t).act),
           Go(t, "append")
    PROVE  EnteredOK'
<1>1. PICK p \in Depths : p = depth[t] /\ Top(t) = frame[t][p]
  BY TopIsFrame DEF Top
<1>2. /\ OthersSame(t, p) /\ frame'[t][p].pc = "append" /\ SameWork(frame'[t][p], frame[t][p])
  BY <1>1, GoEffect DEF PCs, Computing
<1>3. \A u \in Callers, d \in Depths :
         /\ frame'[u][d].pc \in Entering <=> frame[u][d].pc \in Entering
         /\ frame[u][d].pc \in Entering => SameWork(frame'[u][d], frame[u][d])
         /\ frame'[u][d].pc = "append" => frame[u][d].pc = "append" \/ ~Emptied(frame[u][d].act)
  BY <1>1, <1>2 DEF OthersSame, SameCall, SameWork, Entering
<1>4. \A u \in Callers, d \in Depths :
         frame'[u][d].pc = "compute"
            => frame[u][d].pc = "compute" /\ SameWork(frame'[u][d], frame[u][d])
  BY <1>1, <1>2 DEF OthersSame, SameCall, SameWork
<1>5. \A a \in Activations : Emptied(a)' <=> Emptied(a)
  BY DEF Emptied
<1> QED
  BY <1>3, <1>4, <1>5, EnteredQuiet

\* A resource checked in time and found without a list to stand on is left open: it was
\* overtaken.
LEMMA EnteredLost ==
    ASSUME TypeOK, StackOK, ClaimsHeld, EnteredOK,
           UNCHANGED <<entered, exited, contexts, phase, made, overtaken>>,
           NEW t \in Callers, depth[t] > 0, Top(t).pc = "append", Emptied(Top(t).act),
           SetTop(t, [Top(t) EXCEPT !.pc = "unclaim", !.result = "IndexError"])
    PROVE  EnteredOK'
<1> DEFINE p == depth[t]
<1>0. /\ Top(t).entry \in Entries /\ Top(t).act \in Activations /\ p \in Depths
      /\ Top(t) = frame[t][p] /\ Holds(t, p)
  BY TopInPlace, TopIsFrame DEF Top, Computing, Holds
<1>1. PICK a \in Activations, e \in Entries : a = Top(t).act /\ e = Top(t).entry
  BY <1>0
<1>2. /\ OthersSame(t, p) /\ frame'[t][p].pc = "unclaim"
  BY UnclaimEffect DEF Outcomes
<1>3. e \in overtaken[a]
  BY <1>0, <1>1 DEF EnteredOK, EntryOK
<1>4. e \in Resources /\ entered[a][e] = 1 /\ exited[a][e] = 0 /\ ~Listed(a, e)
  BY <1>0, <1>1 DEF EnteredOK, EntryOK, Entering
<1> HIDE DEF p
<1>5. ASSUME NEW u \in Callers, NEW d \in Depths PROVE EntryOK(frame[u][d])'
  <2>1. CASE u = t /\ d = p
    BY <1>2, <2>1 DEF EntryOK, Entering
  <2>2. CASE (u # t \/ d # p) /\ frame[u][d].pc \in {"compute", "register", "append"}
    <3>1. Holds(u, d) /\ SameCall(frame'[u][d], frame[u][d])
      BY <1>2, <2>2 DEF Holds, Computing, OthersSame
    <3>2. frame[u][d].entry # e
      BY <1>0, <1>1, <2>2, <3>1, OneHolder
    <3>3. frame[u][d].entry \in Entries /\ frame[u][d].act \in Activations
      BY <3>1, <2>2, FrameInUse
    <3>4. EntryOK(frame[u][d])
      BY DEF EnteredOK
    <3> QED
      BY <1>3, <3>1, <3>2, <3>3, <3>4 DEF EntryOK, SameCall, Listed, Entering, Emptied
  <2>3. CASE (u # t \/ d # p) /\ frame[u][d].pc \notin {"compute", "register", "append"}
    BY <1>2, <2>3 DEF EntryOK, OthersSame, SameCall, Entering
  <2> QED
    BY <2>1, <2>2, <2>3
<1>6. ASSUME NEW b \in Activations PROVE ListOK(b)'
  BY DEF EnteredOK, ListOK, Listed, Emptied
<1>7. ASSUME NEW b \in Activations, NEW g \in Entries PROVE CountOK(b, g)'
  <2>1. CountOK(b, g)
    BY DEF EnteredOK
  <2>2. (Listed(b, g)' <=> Listed(b, g)) /\ (Emptied(b)' <=> Emptied(b))
    BY DEF Listed, Emptied
  <2>3. CASE b = a /\ g = e
    BY <1>1, <1>3, <1>4, <2>1, <2>2, <2>3 DEF CountOK
  <2>4. CASE b # a \/ g # e
    <3>1. Registering(b, g) => Registering(b, g)'
      <4>1. ASSUME NEW u \in Callers, NEW d \in Depths, frame[u][d].pc \in Entering,
                   frame[u][d].act = b, frame[u][d].entry = g
            PROVE  SameCall(frame'[u][d], frame[u][d])
        BY <1>0, <1>1, <1>2, <2>4, <4>1 DEF OthersSame
      <4> QED
        BY <4>1 DEF Registering, SameCall
    <3> QED
      BY <1>3, <2>1, <2>2, <2>4, <3>1 DEF CountOK
  <2> QED
    BY <2>3, <2>4
<1> QED
  BY <1>5, <1>6, <1>7 DEF EnteredOK

\* What a list with one more element, or without its last one, holds.
LEMMA Appended ==
    ASSUME NEW S, NEW s \in Seq(S), NEW x \in S
    PROVE  /\ Len(Append(s, x)) = Len(s) + 1 /\ Append(s, x)[Len(s) + 1] = x
           /\ \A i \in 1..Len(s) : Append(s, x)[i] = s[i]
           /\ Append(s, x) \in Seq(S) /\ Len(s) \in Nat
OBVIOUS

LEMMA LastPopped ==
    ASSUME NEW S, NEW s \in Seq(S), s # <<>>
    PROVE  /\ Popped(s)[1] = s[Len(s)] /\ Len(Popped(s)[2]) = Len(s) - 1
           /\ \A i \in 1..(Len(s) - 1) : Popped(s)[2][i] = s[i]
           /\ Len(s) \in Nat \ {0} /\ s[Len(s)] \in S /\ Popped(s)[2] \in Seq(S)
<1>1. Len(s) \in Nat \ {0}
  OBVIOUS
<1>2. PICK r : r = SubSeq(s, 1, Len(s) - 1)
  OBVIOUS
<1>3. Len(r) = Len(s) - 1 /\ r \in Seq(S) /\ \A i \in 1..(Len(s) - 1) : r[i] = s[i]
  <2>1. PICK n \in Int : n = Len(s) - 1
    BY <1>1
  <2>2. \A i \in 1..n : s[i] \in S
    BY <1>1, <2>1
  <2>3. r = SubSeq(s, 1, n) /\ r \in Seq(S)
    BY <1>2, <2>1, <2>2, SubSeqProperties
  <2>4. Len(r) = IF 1 <= n THEN n - 1 + 1 ELSE 0
    BY <2>2, <2>3, SubSeqProperties
  <2>5. \A i \in 1..(n - 1 + 1) : SubSeq(s, 1, n)[i] = s[1 + i - 1]
    BY <2>2, SubSeqProperties
  <2>6. \A i \in 1..n : r[i] = s[i]
    BY <2>1, <2>3, <2>5
  <2> QED
    BY <1>1, <2>1, <2>3, <2>4, <2>6
<1>4. Popped(s)[1] = s[Len(s)] /\ Popped(s)[2] = r
  BY <1>2 DEF Popped
<1> QED
  BY <1>1, <1>3, <1>4

\* An entered resource is listed.
LEMMA EnteredAppend ==
    ASSUME TypeOK, StackOK, ClaimsHeld, EnteredOK, UNCHANGED <<entered, exited, phase, overtaken>>,
           NEW t \in Callers, depth[t] > 0, Top(t).pc = "append",
           Go(t, "store"), made' = Inc(made, Top(t)),
           contexts' = [contexts EXCEPT ![Top(t).act] = Append(@, Top(t).entry)]
    PROVE  EnteredOK'
<1> DEFINE p == depth[t]
<1>0. /\ Top(t).entry \in Entries /\ Top(t).act \in Activations /\ p \in Depths
      /\ Top(t) = frame[t][p] /\ Holds(t, p)
  BY TopInPlace, TopIsFrame DEF Top, Computing, Holds
<1>1. PICK a \in Activations, e \in Entries : a = Top(t).act /\ e = Top(t).entry
  BY <1>0
<1>2. /\ OthersSame(t, p) /\ frame'[t][p].pc = "store"
  BY GoEffect DEF PCs, Computing
<1>3. /\ made'[a][e] = made[a][e] + 1 /\ made[a][e] \in Nat
      /\ \A b \in Activations, g \in Entries : b # a \/ g # e => made'[b][g] = made[b][g]
  <2>1. made \in [Activations -> [Entries -> Nat]]
    BY DEF TypeOK
  <2>2. made[a][e] \in Nat
    BY <2>1
  <2>3. /\ Inc(made, Top(t))[a][e] = made[a][e] + 1
        /\ \A b \in Activations, g \in Entries :
              b # a \/ g # e => Inc(made, Top(t))[b][g] = made[b][g]
    <3>1. Top(t).act \in Activations /\ Top(t).entry \in Entries
      BY <1>0
    <3>2. /\ Inc(made, Top(t))[Top(t).act][Top(t).entry] = made[Top(t).act][Top(t).entry] + 1
          /\ \A b \in Activations, g \in Entries :
                b # Top(t).act \/ g # Top(t).entry => Inc(made, Top(t))[b][g] = made[b][g]
      BY <2>1, <3>1, IncEffect, ZenonT(60)
    <3> QED
      BY <1>1, <3>2
  <2> QED
    BY <2>2, <2>3
<1>4. e \in Resources /\ entered[a][e] = 1 /\ exited[a][e] = 0 /\ ~Listed(a, e)
  BY <1>0, <1>1 DEF EnteredOK, EntryOK, Entering
<1>5. contexts[a] \in Seq(Entries) /\ contexts'[a] = Append(contexts[a], e)
      /\ \A b \in Activations : b # a => contexts'[b] = contexts[b]
  BY <1>1 DEF TypeOK
<1>6. /\ Len(contexts'[a]) = Len(contexts[a]) + 1 /\ contexts'[a][Len(contexts[a]) + 1] = e
      /\ \A i \in 1..Len(contexts[a]) : contexts'[a][i] = contexts[a][i]
      /\ Len(contexts[a]) \in Nat
  BY <1>5, Appended
<1>7. ASSUME NEW b \in Activations, NEW g
      PROVE  Listed(b, g)' <=> (Listed(b, g) \/ (b = a /\ g = e))
  <2>1. CASE b = a
    BY <1>6, <2>1 DEF Listed
  <2>2. CASE b # a
    BY <1>5, <2>2 DEF Listed
  <2> QED
    BY <2>1, <2>2
<1> HIDE DEF p
<1>8. ASSUME NEW u \in Callers, NEW d \in Depths PROVE EntryOK(frame[u][d])'
  <2>1. CASE u = t /\ d = p
    BY <1>2, <2>1 DEF EntryOK, Entering
  <2>2. CASE (u # t \/ d # p) /\ frame[u][d].pc \in {"compute", "register", "append"}
    <3>1. Holds(u, d) /\ SameCall(frame'[u][d], frame[u][d])
      BY <1>2, <2>2 DEF Holds, Computing, OthersSame
    <3>2. frame[u][d].entry # e
      BY <1>0, <1>1, <2>2, <3>1, OneHolder
    <3>3. frame[u][d].entry \in Entries /\ frame[u][d].act \in Activations
      BY <3>1, <2>2, FrameInUse
    <3>4. EntryOK(frame[u][d])
      BY DEF EnteredOK
    <3>6. PICK b \in Activations, g \in Entries :
             /\ b = frame[u][d].act /\ g = frame[u][d].entry
             /\ b = frame'[u][d].act /\ g = frame'[u][d].entry
      BY <3>1, <3>3 DEF SameCall
    <3>7. Listed(b, g)' <=> Listed(b, g)
      BY <1>7, <3>2, <3>6
    <3>8. Listed(frame[u][d].act, frame[u][d].entry)' <=> Listed(b, g)'
      BY <3>6 DEF Listed
    <3> QED
      BY <3>1, <3>4, <3>6, <3>7, <3>8 DEF EntryOK, SameCall, Emptied
  <2>3. CASE (u # t \/ d # p) /\ frame[u][d].pc \notin {"compute", "register", "append"}
    BY <1>2, <2>3 DEF EntryOK, OthersSame, SameCall, Entering
  <2> QED
    BY <2>1, <2>2, <2>3
<1>9. ASSUME NEW b \in Activations PROVE ListOK(b)'
  <2>1. ListOK(b)
    BY DEF EnteredOK
  <2>2. CASE b = a
    <3>1. NoDuplicates(contexts[a])'
      BY <1>4, <1>6, <2>1, <2>2 DEF ListOK, NoDuplicates, Listed
    <3>2. Emptied(a) => e \in overtaken[a]
      BY <1>0, <1>1 DEF EnteredOK, EntryOK
    <3>3. phase'[a] = "closed" => \A g \in Entries : Listed(a, g)' => g \in overtaken[a]
      BY <1>7, <2>1, <2>2, <3>2 DEF ListOK, Emptied
    <3>4. ~Emptied(a)' => overtaken'[a] = {}
      BY <2>1, <2>2 DEF ListOK, Emptied
    <3> QED
      BY <2>2, <3>1, <3>3, <3>4 DEF ListOK
  <2>3. CASE b # a
    BY <1>5, <2>1, <2>3 DEF ListOK, Listed, Emptied
  <2> QED
    BY <2>2, <2>3
<1>10. ASSUME NEW b \in Activations, NEW g \in Entries PROVE CountOK(b, g)'
  <2>1. CountOK(b, g)
    BY DEF EnteredOK
  <2>2. Emptied(b)' <=> Emptied(b)
    BY DEF Emptied
  <2>3. CASE b = a /\ g = e
    BY <1>3, <1>4, <1>7, <2>1, <2>3 DEF CountOK
  <2>4. CASE b # a \/ g # e
    <3>1. Registering(b, g) => Registering(b, g)'
      <4>1. ASSUME NEW u \in Callers, NEW d \in Depths, frame[u][d].pc \in Entering,
                   frame[u][d].act = b, frame[u][d].entry = g
            PROVE  SameCall(frame'[u][d], frame[u][d])
        BY <1>0, <1>1, <1>2, <2>4, <4>1 DEF OthersSame
      <4> QED
        BY <4>1 DEF Registering, SameCall
    <3> QED
      BY <1>3, <1>7, <2>1, <2>2, <2>4, <3>1 DEF CountOK
  <2> QED
    BY <2>3, <2>4
<1> QED
  BY <1>8, <1>9, <1>10 DEF EnteredOK

\* What exiting a resource does.
Exits(a, e) ==
    /\ UNCHANGED <<entered, made, frame, uses, cached, phase, overtaken>>
    /\ Len(contexts[a]) \in Nat \ {0} /\ e = contexts[a][Len(contexts[a])]
    /\ Len(contexts'[a]) = Len(contexts[a]) - 1
    /\ \A i \in 1..(Len(contexts[a]) - 1) : contexts'[a][i] = contexts[a][i]
    /\ \A b \in Activations : b # a => contexts'[b] = contexts[b]
    /\ exited' = [exited EXCEPT ![a][e] = @ + 1] /\ exited[a][e] \in Nat
    /\ exited'[a][e] = exited[a][e] + 1
    /\ \A b \in Activations, g \in Entries : b # a \/ g # e => exited'[b][g] = exited[b][g]
    /\ phase[a] = "draining"
    /\ \A b \in Activations : Emptied(b)' <=> Emptied(b)
    /\ \A b \in Activations : \A g : Listed(b, g)' <=> (Listed(b, g) /\ ~(b = a /\ g = e))

LEMMA ExitEffect ==
    ASSUME TypeOK, NEW a \in Activations, ExitNext(a), NoDuplicates(contexts[a])
    PROVE  \E e \in Entries : Exits(a, e)
<1>0. contexts[a] \in Seq(Entries) /\ contexts[a] # <<>>
  BY DEF TypeOK, ExitNext
<1>1. PICK e \in Entries : e = contexts[a][Len(contexts[a])]
  BY <1>0, LastPopped
<1>2. /\ Popped(contexts[a])[1] = e /\ contexts'[a] = Popped(contexts[a])[2]
      /\ \A b \in Activations : b # a => contexts'[b] = contexts[b]
  BY <1>0, <1>1, LastPopped DEF ExitNext, TypeOK
<1>3. /\ Len(contexts[a]) \in Nat \ {0} /\ Len(contexts'[a]) = Len(contexts[a]) - 1
      /\ \A i \in 1..(Len(contexts[a]) - 1) : contexts'[a][i] = contexts[a][i]
  BY <1>0, <1>2, LastPopped
<1>4. exited' = [exited EXCEPT ![a][e] = @ + 1] /\ exited[a][e] \in Nat
      /\ UNCHANGED <<entered, made, frame, uses, cached, phase, overtaken>>
  BY <1>2 DEF ExitNext, TypeOK
<1>5. /\ exited'[a][e] = exited[a][e] + 1
      /\ \A b \in Activations, g \in Entries : b # a \/ g # e => exited'[b][g] = exited[b][g]
  BY <1>4 DEF TypeOK
<1>6. phase[a] = "draining" /\ UNCHANGED phase
  BY DEF ExitNext
<1>7. ASSUME NEW b \in Activations, NEW g
      PROVE  Listed(b, g)' <=> (Listed(b, g) /\ ~(b = a /\ g = e))
  <2>1. CASE b = a
    <3>1. \A i \in 1..(Len(contexts[a]) - 1) : contexts[a][i] # e
      BY <1>1, <1>3 DEF NoDuplicates
    <3>2. \A i \in 1..Len(contexts[a]) : i \in 1..(Len(contexts[a]) - 1) \/ contexts[a][i] = e
      BY <1>1, <1>3
    <3>3. Listed(a, g)' <=> \E i \in 1..(Len(contexts[a]) - 1) : contexts[a][i] = g
      BY <1>3 DEF Listed
    <3>4. \A i \in 1..(Len(contexts[a]) - 1) : i \in 1..Len(contexts[a])
      BY <1>3
    <3> QED
      BY <2>1, <3>1, <3>2, <3>3, <3>4 DEF Listed
  <2>2. CASE b # a
    BY <1>2, <2>2 DEF Listed
  <2> QED
    BY <2>1, <2>2
<1>8. \A b \in Activations : Emptied(b)' <=> Emptied(b)
  BY <1>6 DEF Emptied
<1> QED
  BY <1>1, <1>2, <1>3, <1>4, <1>5, <1>6, <1>7, <1>8 DEF Exits

\* An ended activation exits the last of its resources.
LEMMA EnteredExit ==
    ASSUME TypeOK, EnteredOK, NEW a \in Activations, ExitNext(a)
    PROVE  EnteredOK'
<1>1. PICK e \in Entries : Exits(a, e)
  BY ExitEffect DEF EnteredOK, ListOK
<1> USE <1>1 DEF Exits
<1>2. Listed(a, e) /\ CountOK(a, e) /\ NoDuplicates(contexts[a])
  BY DEF Listed, EnteredOK, ListOK
<1>3. ASSUME NEW u \in Callers, NEW d \in Depths PROVE EntryOK(frame[u][d])'
  <2>1. EntryOK(frame[u][d])
    BY DEF EnteredOK
  <2>2. CASE frame[u][d].pc \in Entering
    <3>1. /\ ~Listed(frame[u][d].act, frame[u][d].entry) /\ frame[u][d].entry \in Resources
          /\ entered[frame[u][d].act][frame[u][d].entry] = 1
          /\ exited[frame[u][d].act][frame[u][d].entry] = 0
          /\ frame[u][d].pc = "append" /\ Emptied(frame[u][d].act)
                => frame[u][d].entry \in overtaken[frame[u][d].act]
      BY <2>1, <2>2 DEF EntryOK
    <3>0. /\ Emptied(frame[u][d].act)' <=> Emptied(frame[u][d].act)
          /\ frame'[u][d] = frame[u][d] /\ overtaken' = overtaken /\ entered' = entered
      BY DEF Emptied
    <3>2. CASE frame[u][d].act = a
      <4>1. PICK g \in Entries : g = frame[u][d].entry
        BY <3>1, ConstantsAssumption
      <4>2. g # e /\ ~Listed(a, g)'
        BY <1>2, <3>1, <3>2, <4>1
      <4>3. ~Listed(frame[u][d].act, frame[u][d].entry)'
        BY <3>2, <4>1, <4>2 DEF Listed
      <4> QED
        BY <2>2, <3>0, <3>1, <3>2, <4>1, <4>2, <4>3 DEF EntryOK, Entering
    <3>3. CASE frame[u][d].act # a
      <4>1. exited'[frame[u][d].act] = exited[frame[u][d].act]
            /\ contexts'[frame[u][d].act] = contexts[frame[u][d].act]
        BY <3>3 DEF ExitNext
      <4>2. ~Listed(frame[u][d].act, frame[u][d].entry)'
        BY <3>1, <4>1 DEF Listed
      <4> QED
        BY <2>2, <3>0, <3>1, <4>1, <4>2 DEF EntryOK, Entering
    <3> QED
      BY <3>2, <3>3
  <2>3. CASE frame[u][d].pc \notin Entering
    BY <2>1, <2>3 DEF EntryOK, Entering
  <2> QED
    BY <2>2, <2>3
<1>4. ASSUME NEW b \in Activations PROVE ListOK(b)'
  <2>1. ListOK(b)
    BY DEF EnteredOK
  <2>2. CASE b = a
    BY <2>1, <2>2 DEF ListOK, NoDuplicates, Emptied
  <2>3. CASE b # a
    BY <2>1, <2>3 DEF ListOK, Listed, Emptied
  <2> QED
    BY <2>2, <2>3
<1>5. ASSUME NEW b \in Activations, NEW g \in Entries PROVE CountOK(b, g)'
  <2>1. CountOK(b, g)
    BY DEF EnteredOK
  <2>2. Registering(b, g)' <=> Registering(b, g)
    BY DEF Registering
  <2>3. CASE b = a /\ g = e
    <3>1. entered[a][e] = 1 /\ exited[a][e] = 0 /\ Emptied(a)'
      BY <1>2 DEF CountOK, Emptied
    <3> QED
      BY <2>1, <2>3, <3>1 DEF CountOK
  <2>4. CASE b # a \/ g # e
    BY <2>1, <2>2, <2>4 DEF CountOK
  <2> QED
    BY <2>3, <2>4
<1> QED
  BY <1>3, <1>4, <1>5 DEF EnteredOK

\* Nothing was left on the list of an activation that closes.
LEMMA EnteredDrained ==
    ASSUME TypeOK, StackOK, EnteredOK, NEW a \in Activations, Drained(a)
    PROVE  EnteredOK'
<1>1. \A b \in Activations : Emptied(b)' <=> Emptied(b)
  BY DEF Drained, Emptied, TypeOK
<1>2. \A b \in Activations : phase'[b] = "closed" => phase[b] = "closed" \/ contexts[b] = <<>>
  BY DEF Drained, TypeOK
<1> QED
  BY <1>1, <1>2, EnteredQuiet DEF Drained, ghostVars, SameWork

\* Emptying the storage marks the entries that were checked and are not listed yet.
LEMMA EnteredClear ==
    ASSUME TypeOK, StackOK, EnteredOK, NEW a \in Activations, Clear(a)
    PROVE  EnteredOK'
<1>1. /\ UNCHANGED <<entered, exited, contexts, made, frame>>
      /\ ~Emptied(a) /\ Emptied(a)' /\ phase'[a] # "closed"
      /\ \A b \in Activations : b # a => phase'[b] = phase[b] /\ overtaken'[b] = overtaken[b]
      /\ overtaken'[a] = BeingRecorded(a) /\ overtaken[a] = {}
  BY DEF Clear, Emptied, TypeOK, EnteredOK, ListOK
<1>2. \A b \in Activations : \A g : Listed(b, g)' <=> Listed(b, g)
  BY <1>1 DEF Listed
<1>3. ASSUME NEW u \in Callers, NEW d \in Depths PROVE EntryOK(frame[u][d])'
  <2>1. EntryOK(frame[u][d]) /\ frame'[u][d] = frame[u][d]
    BY <1>1 DEF EnteredOK
  <2>2. Listed(frame[u][d].act, frame[u][d].entry)' <=> Listed(frame[u][d].act, frame[u][d].entry)
    BY <1>1 DEF Listed
  <2>3. frame[u][d].pc = "append" /\ Emptied(frame[u][d].act)'
           => frame[u][d].entry \in overtaken'[frame[u][d].act]
    <3> SUFFICES ASSUME frame[u][d].pc = "append", Emptied(frame[u][d].act)'
                 PROVE  frame[u][d].entry \in overtaken'[frame[u][d].act]
      OBVIOUS
    <3>1. PICK b \in Activations, g \in Entries : b = frame[u][d].act /\ g = frame[u][d].entry
      BY FrameInUse DEF Holds, Computing
    <3>2. CASE b = a
      BY <1>1, <3>1, <3>2 DEF BeingRecorded
    <3>3. CASE b # a
      <4>1. phase'[b] = phase[b] /\ Emptied(b)'
        BY <1>1, <3>1, <3>3 DEF Emptied
      <4>2. Emptied(b)
        BY <4>1 DEF Emptied
      <4> QED
        BY <1>1, <2>1, <3>1, <3>3, <4>2 DEF EntryOK
    <3> QED
      BY <3>2, <3>3
  <2> QED
    BY <1>1, <2>1, <2>2, <2>3 DEF EntryOK
<1>4. ASSUME NEW b \in Activations PROVE ListOK(b)'
  <2>1. ListOK(b)
    BY DEF EnteredOK
  <2>2. CASE b = a
    BY <1>1, <2>1, <2>2 DEF ListOK, NoDuplicates
  <2>3. CASE b # a
    BY <1>1, <1>2, <2>1, <2>3 DEF ListOK, NoDuplicates, Emptied
  <2> QED
    BY <2>2, <2>3
<1>5. ASSUME NEW b \in Activations, NEW g \in Entries PROVE CountOK(b, g)'
  <2>1. CountOK(b, g) /\ (Registering(b, g)' <=> Registering(b, g))
    BY <1>1 DEF EnteredOK, Registering
  <2>2. (Emptied(b) => Emptied(b)') /\ (g \in overtaken[b] => g \in overtaken'[b])
    BY <1>1 DEF Emptied
  <2> QED
    BY <1>1, <1>2, <2>1, <2>2 DEF CountOK
<1> QED
  BY <1>3, <1>4, <1>5 DEF EnteredOK

LEMMA EnteredNext ==
    ASSUME TypeOK, StackOK, CurrentIsLive, ClaimsHeld, NothingMade', EnteredOK, [Next]_vars
    PROVE  EnteredOK'
<1> USE DEF storageVars, ghostVars
<1>a. ASSUME NEW t \in Callers, depth[t] > 0, NEW kind \in Outcomes, Return(t, kind),
             UNCHANGED <<entered, exited, contexts, phase, made, overtaken>>, Top(t).pc \notin Entering
      PROVE  EnteredOK'
  <2>1. frame'[t][depth[t]] = NoFrame /\ OthersSame(t, depth[t]) /\ depth[t] \in Depths
    BY <1>a, ReturnFrames
  <2>2. NoFrame.pc \notin Entering \cup {"compute"}
    BY DEF NoFrame, Entering
  <2> QED
    BY <1>a, <2>1, <2>2, EnteredFrame DEF Top
<1>b. ASSUME NEW t \in Callers, depth[t] > 0, NEW pc \in PCs \ ({"compute"} \cup Entering), Go(t, pc),
             UNCHANGED <<entered, exited, contexts, phase, made, overtaken>>, Top(t).pc \notin Entering
      PROVE  EnteredOK'
  BY <1>b, GoEffect, TopIsFrame, EnteredFrame DEF Top
<1>d. ASSUME UNCHANGED <<entered, exited, contexts, made, frame, overtaken>>,
             \A a \in Activations : Emptied(a)' <=> Emptied(a),
             \A a \in Activations :
                phase'[a] = "closed" => phase[a] = "closed" \/ contexts[a] = <<>>
      PROVE  EnteredOK'
  BY <1>d, EnteredQuiet DEF SameWork
<1>1. CASE UNCHANGED vars
  BY <1>1, <1>d DEF vars, Emptied
<1>2. ASSUME NEW t \in Callers, Call(t) PROVE EnteredOK'
  <2>1. PICK e \in Entries : frame' = [frame EXCEPT ![t][1] = Opened(e)]
    BY <1>2 DEF Call
  <2>2. PICK p \in Depths : p = 1
    BY ConstantsAssumption
  <2>3. frame'[t][p] = Opened(e)
        /\ \A u \in Callers, i \in Depths : u # t \/ i # p => frame'[u][i] = frame[u][i]
    BY <2>1, <2>2 DEF TypeOK
  <2>4. OthersSame(t, p) /\ frame'[t][p].pc = "read"
    BY <2>3, OpenedIsFrame DEF OthersSame, SameCall
  <2>5. frame[t][p].pc \notin Entering
    BY <1>2, <2>2 DEF Call, StackOK, InPlace, Entering
  <2> QED
    BY <1>2, <2>4, <2>5, EnteredFrame DEF Call, Entering
<1>3. ASSUME NEW t \in Callers, CallDependency(t) PROVE EnteredOK'
  <2>1. PICK e \in Top(t).todo :
           frame' = [frame EXCEPT ![t][depth[t]].todo = @ \ {e}, ![t][depth[t] + 1] = Opened(e)]
    BY <1>3 DEF CallDependency
  <2>2. depth[t] > 0 /\ depth[t] < MaxDepth /\ depth[t] \in Depths
    BY <1>3, TopIsFrame DEF CallDependency, At
  <2>3. e \in Entries
    BY <2>1, <2>2, TopInPlace DEF Frame
  <2>4. PICK p \in Depths : p = depth[t] + 1
    BY <2>1, <2>2, <2>3, PushFrames
  <2>5. frame'[t][p] = Opened(e) /\ OthersSame(t, p)
    BY <2>1, <2>2, <2>3, <2>4, PushFrames
  <2>6. frame'[t][p].pc = "read"
    BY <2>3, <2>5, OpenedIsFrame
  <2>7. frame[t][p].pc \notin Entering
    BY <2>2, <2>4 DEF StackOK, InPlace, Entering
  <2> QED
    BY <1>3, <2>5, <2>6, <2>7, EnteredFrame DEF CallDependency, Entering
<1>4. ASSUME NEW t \in Callers, Read(t) \/ Reread(t) PROVE EnteredOK'
  <2>1. depth[t] > 0 /\ Top(t).pc \in {"read", "reread"}
        /\ UNCHANGED <<entered, exited, contexts, phase, made, overtaken>>
    BY <1>4 DEF Read, Reread, At
  <2>2. CASE \E kind \in Outcomes : Return(t, kind)
    BY <1>a, <2>1, <2>2 DEF Entering
  <2>3. CASE Miss(t)
    BY <1>b, <2>1, <2>3 DEF Miss, PCs, Computing, Entering
  <2>4. CASE current # None /\ SetTop(t, [Top(t) EXCEPT !.act = current, !.pc = "reread"])
    BY <2>1, <2>4, RereadEffect, TopIsFrame, EnteredFrame DEF Top, Entering
  <2> QED
    BY <1>4, <2>2, <2>3, <2>4 DEF Read, Reread, Outcomes
<1>6. ASSUME NEW t \in Callers, TryClaim(t) PROVE EnteredOK'
  <2>1. depth[t] > 0 /\ Top(t).pc = "lock"
        /\ UNCHANGED <<entered, exited, contexts, phase, made, overtaken>>
    BY <1>6 DEF TryClaim, Watch, At
  <2>2. CASE \E kind \in Outcomes : Return(t, kind)
    BY <1>a, <2>1, <2>2 DEF Entering
  <2>3. CASE Go(t, "wait")
    BY <1>b, <2>1, <2>3 DEF PCs, Computing, Entering
  <2>4. CASE /\ ~Emptied(Top(t).act) /\ claim[Top(t).entry] = None /\ Go(t, "compute")
    BY <2>1, <2>4, EnteredTake
  <2> QED
    BY <1>6, <2>2, <2>3, <2>4 DEF TryClaim, Watch, Outcomes
<1>7. ASSUME NEW t \in Callers, Wake(t) \/ CancelWait(t) PROVE EnteredOK'
  <2>1. depth[t] > 0 /\ Top(t).pc = "wait"
        /\ UNCHANGED <<entered, exited, contexts, phase, made, overtaken>>
    BY <1>7 DEF Wake, CancelWait, At
  <2>2. CASE \E kind \in Outcomes : Return(t, kind)
    BY <1>a, <2>1, <2>2 DEF Entering
  <2>3. CASE Go(t, "lock")
    BY <1>b, <2>1, <2>3 DEF PCs, Computing, Entering
  <2> QED
    BY <1>7, <2>2, <2>3 DEF Wake, CancelWait, Outcomes
<1>8. ASSUME NEW t \in Callers, Fail(t) \/ Store(t) PROVE EnteredOK'
  <2>1. depth[t] > 0 /\ Top(t).pc \in {"compute", "store"}
        /\ UNCHANGED <<entered, exited, contexts, phase, made, overtaken>>
    BY <1>8 DEF Fail, Store, At
  <2>2. \E kind \in Outcomes :
           SetTop(t, [Top(t) EXCEPT !.pc = "unclaim", !.result = kind])
    BY <1>8 DEF Fail, Store, Outcomes
  <2> QED
    BY <2>1, <2>2, UnclaimEffect, TopIsFrame, EnteredFrame DEF Top, Entering
<1>9. ASSUME NEW t \in Callers, Compute(t) PROVE EnteredOK'
  <2>1. depth[t] > 0 /\ Top(t).pc = "compute" /\ UNCHANGED <<exited, contexts, phase, overtaken>>
    BY <1>9 DEF Compute, At
  <2>2. CASE Top(t).entry \in Resources
    BY <1>9, <2>1, <2>2, EnteredEnter DEF Compute
  <2>3. CASE Top(t).entry \notin Resources
    <3>1. made' = Inc(made, Top(t)) /\ Go(t, "store") /\ UNCHANGED entered
      BY <1>9, <2>3 DEF Compute
    <3>2. Top(t).act \in Activations /\ Top(t).entry \in Entries
      BY <2>1, TopInPlace DEF Computing
    <3>3. made \in [Activations -> [Entries -> Nat]]
      BY DEF TypeOK
    <3>4. \A a \in Activations, e \in Entries : Inc(made, Top(t))[a][e] = 0 => made[a][e] = 0
      <4>1. /\ Inc(made, Top(t))[Top(t).act][Top(t).entry] = made[Top(t).act][Top(t).entry] + 1
            /\ \A b \in Activations, g \in Entries :
                  b # Top(t).act \/ g # Top(t).entry => Inc(made, Top(t))[b][g] = made[b][g]
        BY <3>2, <3>3, IncEffect
      <4>2. made[Top(t).act][Top(t).entry] \in Nat
        BY <3>2, <3>3
      <4> QED
        BY <4>1, <4>2
    <3>5. \A a \in Activations, e \in Entries : made'[a][e] = 0 => made[a][e] = 0
      BY <3>1, <3>4
    <3>6. depth[t] \in Depths /\ frame[t][depth[t]].pc = "compute"
      BY <2>1, TopIsFrame DEF Top
    <3>7. "store" \in PCs
      BY DEF PCs, Computing
    <3>8. OthersSame(t, depth[t]) /\ frame'[t][depth[t]].pc = "store"
      BY <2>1, <3>1, <3>7, GoEffect
    <3> QED
      BY <2>1, <3>1, <3>5, <3>6, <3>8, EnteredFrame DEF Entering
  <2> QED
    BY <2>2, <2>3
<1>10. ASSUME NEW t \in Callers, Register(t) \/ AppendContext(t) PROVE EnteredOK'
  <2>1. CASE Register(t)
    <3>1. depth[t] > 0 /\ Top(t).pc = "register"
          /\ UNCHANGED <<entered, contexts, phase, made, overtaken>>
      BY <2>1 DEF Register, At
    <3>2. CASE Emptied(Top(t).act)
      BY <2>1, <3>1, <3>2, EnteredLate DEF Register, EndedDuringEntry
    <3>3. CASE ~Emptied(Top(t).act)
      BY <2>1, <3>1, <3>3, EnteredCheck DEF Register, EndedDuringEntry
    <3> QED
      BY <3>2, <3>3
  <2>2. CASE AppendContext(t)
    <3>1. depth[t] > 0 /\ Top(t).pc = "append"
          /\ UNCHANGED <<entered, exited, phase, overtaken>>
      BY <2>2 DEF AppendContext, At
    <3>2. CASE Go(t, "store") /\ made' = Inc(made, Top(t))
               /\ contexts' = [contexts EXCEPT ![Top(t).act] = Append(@, Top(t).entry)]
      BY <3>1, <3>2, EnteredAppend
    <3>3. CASE /\ Emptied(Top(t).act) /\ UNCHANGED <<contexts, made>>
               /\ SetTop(t, [Top(t) EXCEPT !.pc = "unclaim", !.result = "IndexError"])
      BY <3>1, <3>3, EnteredLost
    <3> QED
      BY <2>2, <3>2, <3>3 DEF AppendContext
  <2> QED
    BY <1>10, <2>1, <2>2
<1>11. ASSUME NEW t \in Callers, Unclaim(t) PROVE EnteredOK'
  <2>1. depth[t] > 0 /\ Top(t).pc = "unclaim" /\ Top(t).result \in Outcomes
    BY <1>11, TopIsFrame DEF Unclaim, At, Frame
  <2> QED
    BY <1>11, <2>1, <1>a DEF Unclaim, Entering
<1>12. ASSUME NEW a \in Activations, Activate(a) \/ End(a) PROVE EnteredOK'
  <2>1. UNCHANGED <<entered, exited, contexts, made, frame, overtaken>>
    BY <1>12 DEF Activate, End
  <2>2. /\ \A b \in Activations : Emptied(b)' <=> Emptied(b)
        /\ \A b \in Activations : phase'[b] = "closed" => phase[b] = "closed"
    BY <1>12 DEF Activate, End, CurrentIsLive, Emptied, TypeOK
  <2> QED
    BY <1>d, <2>1, <2>2
<1> QED
  BY <1>1, <1>2, <1>3, <1>4, <1>6, <1>7, <1>8, <1>9, <1>10, <1>11, <1>12, EnteredExit,
     EnteredClear, EnteredDrained
     DEF Next, Step, Closing

-----------------------------------------------------------------------------
(* Dependents exit first                                                   *)

\* What a computation got from storage in use is listed, if it is a resource; so is its own
\* resource, once it has its value.
UsedOK(f) ==
    /\ f.pc \notin Computing => f.used = {}
    /\ f.pc \in {"compute", "register", "append"} /\ ~Emptied(f.act) =>
          \A g \in f.used \cap Resources : Listed(f.act, g)
    /\ f.pc = "store" \/ (f.pc = "unclaim" /\ f.result = "value") =>
          (~Emptied(f.act) /\ f.entry \in Resources => Listed(f.act, f.entry))

CachedListed(a) == ~Emptied(a) => \A e \in cached[a] \cap Resources : Listed(a, e)

\* A listed resource was built from resources that are listed before it; a resource that
\* was built from something is listed or exited.  Overtaken ones are beyond that.
UsesOK(a) ==
    /\ \A i \in 1..Len(contexts[a]) : contexts[a][i] \notin overtaken[a] =>
          \A g \in uses[a][contexts[a][i]] \cap Resources :
             \E j \in 1..(i - 1) : contexts[a][j] = g
    /\ \A e \in Entries : uses[a][e] # {} => Listed(a, e) \/ exited[a][e] > 0
    /\ \A e \in Entries \ overtaken[a] :
          \A f \in uses[a][e] : exited[a][f] > 0 => exited[a][e] > 0

DependOK ==
    /\ \A t \in Callers, d \in Depths : UsedOK(frame[t][d])
    /\ \A a \in Activations : CachedListed(a) /\ UsesOK(a)

\* A step that lists and exits nothing.
LEMMA DependQuiet ==
    ASSUME DependOK, UNCHANGED <<contexts, exited, uses>>,
           \A a \in Activations : overtaken[a] \subseteq overtaken'[a],
           \A u \in Callers, d \in Depths : UsedOK(frame[u][d])',
           \A a \in Activations : CachedListed(a)'
    PROVE  DependOK'
<1>1. ASSUME NEW a \in Activations PROVE UsesOK(a)'
  BY DEF DependOK, UsesOK, Listed
<1> QED
  BY <1>1 DEF DependOK

LEMMA UsedSame ==
    ASSUME TypeOK, StackOK, DependOK,
           \A a \in Activations : Emptied(a) => Emptied(a)',
           \A a \in Activations : \A g : Listed(a, g) => Listed(a, g)' \/ Emptied(a)',
           NEW u \in Callers, NEW d \in Depths, SameCall(frame'[u][d], frame[u][d]),
           frame'[u][d].used = frame[u][d].used, frame'[u][d].result = frame[u][d].result
    PROVE  UsedOK(frame[u][d])'
<1>1. UsedOK(frame[u][d])
  BY DEF DependOK
<1>2. CASE frame[u][d].pc \in Computing
  <2>1. frame[u][d].act \in Activations
    BY <1>2, FrameInUse DEF Holds, Computing
  <2>2. PICK b \in Activations : b = frame[u][d].act /\ b = frame'[u][d].act
    BY <2>1 DEF SameCall
  <2>3. \A g : Listed(b, g)' <=> Listed(frame[u][d].act, g)'
    BY <2>2 DEF Listed
  <2>4. Emptied(b)' <=> Emptied(frame[u][d].act)'
    BY <2>2 DEF Emptied
  <2> QED
    BY <1>1, <2>2, <2>3, <2>4 DEF UsedOK, SameCall
<1>3. CASE frame[u][d].pc \notin Computing
  BY <1>1, <1>3 DEF UsedOK, SameCall, Computing
<1> QED
  BY <1>2, <1>3

LEMMA UsedKept ==
    ASSUME TypeOK, StackOK, DependOK,
           \A a \in Activations : Emptied(a) => Emptied(a)',
           \A a \in Activations : \A g : Listed(a, g) => Listed(a, g)' \/ Emptied(a)',
           NEW u \in Callers, NEW d \in Depths, SameRest(frame'[u][d], frame[u][d])
    PROVE  UsedOK(frame[u][d])'
BY UsedSame DEF SameRest

\* A caller's running call moves.
LEMMA DependMove ==
    ASSUME TypeOK, StackOK, DependOK, UNCHANGED <<contexts, exited, uses, phase, overtaken>>,
           NEW t \in Callers, NEW p \in Depths, Moves(t, p), UsedOK(frame[t][p])',
           \A a \in Activations : CachedListed(a)'
    PROVE  DependOK'
<1>1. ASSUME NEW u \in Callers, NEW d \in Depths PROVE UsedOK(frame[u][d])'
  <2>1. CASE u = t /\ d = p
    BY <2>1
  <2>2. CASE u # t \/ d # p
    BY <2>2, UsedKept DEF Moves, Emptied, Listed
  <2> QED
    BY <2>1, <2>2
<1> QED
  BY <1>1, DependQuiet

LEMMA CachedSame ==
    ASSUME DependOK, UNCHANGED <<contexts, phase, cached>>, NEW a \in Activations
    PROVE  CachedListed(a)'
BY DEF DependOK, CachedListed, Listed, Emptied

\* A call returns; what its caller gets of storage in use is listed.
LEMMA DependReturn ==
    ASSUME TypeOK, StackOK, DependOK,
           UNCHANGED <<contexts, exited, uses, phase, cached, overtaken>>,
           NEW t \in Callers, depth[t] > 0, NEW kind \in Outcomes, Return(t, kind),
           kind = "value" /\ Top(t).act \in Activations /\ ~Emptied(Top(t).act)
              /\ Top(t).entry \in Resources => Listed(Top(t).act, Top(t).entry)
    PROVE  DependOK'
<1>0. depth[t] \in Depths /\ depth[t] \in Nat
  BY TopIsFrame, ConstantsAssumption DEF TypeOK
<1>1. ASSUME NEW u \in Callers, NEW d \in Depths PROVE UsedOK(frame[u][d])'
  <2>1. CASE u = t /\ d = depth[t]
    <3>1. frame'[u][d] = NoFrame
      BY <2>1, ReturnFrames
    <3> QED
      BY <3>1 DEF UsedOK, NoFrame, Computing
  <2>2. CASE u # t \/ (d # depth[t] /\ frame'[u][d].used = frame[u][d].used)
    <3>1. SameRest(frame'[u][d], frame[u][d])
      BY <2>2, ReturnFrames DEF SameRest, OthersSame
    <3> QED
      BY <3>1, UsedKept DEF Emptied, Listed
  <2>3. CASE u = t /\ d # depth[t] /\ frame'[u][d].used # frame[u][d].used
    <3>1. /\ d = depth[t] - 1 /\ kind = "value" /\ frame[t][d].act = Top(t).act
          /\ frame'[t][d].used = frame[t][d].used \cup {Top(t).entry}
      BY <2>3, ReturnFrames DEF Gets
    <3>2. frame[t][d].pc = "compute" /\ frame[t][d].act \in Activations
      BY <1>0, <3>1 DEF StackOK, InPlace, Computing
    <3>3. SameCall(frame'[t][d], frame[t][d])
      BY <2>3, ReturnFrames DEF OthersSame
    <3>4. UsedOK(frame[t][d])
      BY DEF DependOK
    <3>5. ~Emptied(Top(t).act) => \A g \in frame'[t][d].used \cap Resources : Listed(Top(t).act, g)
      BY <3>1, <3>2, <3>4 DEF UsedOK
    <3> QED
      BY <2>3, <3>1, <3>2, <3>3, <3>5 DEF UsedOK, SameCall, Computing, Listed, Emptied
  <2> QED
    BY <2>1, <2>2, <2>3
<1> QED
  BY <1>1, DependQuiet, CachedSame

\* The running call goes on before it computes, or starts to compute.
LEMMA DependGo ==
    ASSUME TypeOK, StackOK, DependOK,
           UNCHANGED <<contexts, exited, uses, phase, cached, overtaken>>,
           NEW t \in Callers, depth[t] > 0, Top(t).pc \notin Computing,
           NEW pc \in {"lock", "wait", "compute"}, Go(t, pc)
    PROVE  DependOK'
<1>1. PICK p \in Depths : p = depth[t] /\ Top(t) = frame[t][p]
  BY TopIsFrame DEF Top
<1>2. Top(t).used = {}
  BY <1>1 DEF DependOK, UsedOK
<1>3. Moves(t, p) /\ frame'[t][p].pc = pc /\ frame'[t][p].used = {}
  BY <1>1, <1>2, GoEffect DEF PCs, Computing
<1>4. UsedOK(frame[t][p])'
  BY <1>3 DEF UsedOK, Computing
<1> QED
  BY <1>3, <1>4, DependMove, CachedSame

\* The computation succeeds or fails.
LEMMA DependCompute ==
    ASSUME TypeOK, StackOK, DependOK,
           UNCHANGED <<contexts, exited, uses, phase, cached, overtaken>>,
           NEW t \in Callers, depth[t] > 0, Top(t).pc = "compute",
           \/ Top(t).entry \in Resources /\ Go(t, "register")
           \/ Top(t).entry \notin Resources /\ Go(t, "store")
           \/ SetTop(t, [Top(t) EXCEPT !.pc = "unclaim", !.result = "Failed"])
    PROVE  DependOK'
<1>1. PICK p \in Depths : p = depth[t] /\ Top(t) = frame[t][p]
  BY TopIsFrame DEF Top
<1>2. UsedOK(Top(t)) /\ Top(t).act \in Activations
  BY <1>1, TopInPlace DEF DependOK, Computing
<1>3. /\ Moves(t, p) /\ SameWork(frame'[t][p], Top(t)) /\ frame'[t][p].used = Top(t).used
      /\ \/ frame'[t][p].pc = "register"
         \/ frame'[t][p].pc = "store" /\ Top(t).entry \notin Resources
         \/ frame'[t][p].pc = "unclaim" /\ frame'[t][p].result = "Failed"
  BY <1>1, GoEffect, UnclaimEffect DEF PCs, Computing, Outcomes
<1>4. PICK a \in Activations : a = Top(t).act /\ a = frame'[t][p].act
  BY <1>2, <1>3 DEF SameWork
<1>5. \A g : Listed(frame[t][p].act, g)' <=> Listed(a, g)
  BY <1>4 DEF Listed
<1>6. Emptied(frame[t][p].act)' <=> Emptied(a)
  BY <1>4 DEF Emptied
<1>7. UsedOK(frame[t][p])'
  BY <1>1, <1>2, <1>3, <1>4, <1>5, <1>6 DEF UsedOK, SameWork, Computing
<1> QED
  BY <1>3, <1>7, DependMove, CachedSame

\* The value is stored: its resource is listed if the storage is in use.
LEMMA DependStore ==
    ASSUME TypeOK, StackOK, DependOK, NEW t \in Callers, Store(t)
    PROVE  DependOK'
<1>0. depth[t] > 0 /\ Top(t).pc = "store" /\ UNCHANGED <<contexts, exited, uses, phase, overtaken>>
  BY DEF Store, At, storageVars, ghostVars
<1>1. PICK p \in Depths : p = depth[t] /\ Top(t) = frame[t][p]
  BY <1>0, TopIsFrame DEF Top
<1>2. UsedOK(Top(t)) /\ Top(t).act \in Activations /\ Top(t).entry \in Entries
  BY <1>0, <1>1, TopInPlace DEF DependOK, Computing
<1>3. /\ Moves(t, p) /\ SameWork(frame'[t][p], Top(t)) /\ frame'[t][p].used = Top(t).used
      /\ frame'[t][p].pc = "unclaim"
  BY <1>0, <1>1, UnclaimEffect DEF Store, Outcomes
<1>4. PICK a \in Activations : a = Top(t).act /\ a = frame'[t][p].act
  BY <1>2, <1>3 DEF SameWork
<1>5. \A g : Listed(frame[t][p].act, g)' <=> Listed(a, g)
  BY <1>0, <1>4 DEF Listed
<1>6. Emptied(frame[t][p].act)' <=> Emptied(a)
  BY <1>0, <1>4 DEF Emptied
<1>7. ~Emptied(a) /\ Top(t).entry \in Resources => Listed(a, Top(t).entry)
  BY <1>0, <1>2, <1>4 DEF UsedOK
<1>8. UsedOK(frame[t][p])'
  BY <1>3, <1>4, <1>5, <1>6, <1>7 DEF UsedOK, SameWork, Computing
<1>9. ASSUME NEW b \in Activations PROVE CachedListed(b)'
  <2>1. CachedListed(b)
    BY DEF DependOK
  <2>2. ~Emptied(b) => cached'[b] = IF b = a THEN cached[b] \cup {Top(t).entry} ELSE cached[b]
    BY <1>4 DEF Store, StoreSlot, TypeOK
  <2>3. (Emptied(b)' <=> Emptied(b)) /\ \A g : Listed(b, g)' <=> Listed(b, g)
    BY <1>0 DEF Emptied, Listed
  <2> QED
    BY <1>7, <2>1, <2>2, <2>3 DEF CachedListed
<1> QED
  BY <1>0, <1>3, <1>8, <1>9, DependMove

\* A late entry is exited at once: it was not listed, so nothing that is listed was built
\* from it.
LEMMA DependLate ==
    ASSUME TypeOK, StackOK, EnteredOK, DependOK,
           UNCHANGED <<contexts, uses, phase, cached, overtaken>>,
           NEW t \in Callers, depth[t] > 0, Top(t).pc = "register", Emptied(Top(t).act),
           SetTop(t, [Top(t) EXCEPT !.pc = "unclaim", !.result = "Ended"]),
           exited' = Inc(exited, Top(t))
    PROVE  DependOK'
<1>1. PICK p \in Depths : p = depth[t] /\ Top(t) = frame[t][p]
  BY TopIsFrame DEF Top
<1>2. Top(t).act \in Activations /\ Top(t).entry \in Entries
  BY TopInPlace DEF Computing
<1>3. PICK a \in Activations, e \in Entries : a = Top(t).act /\ e = Top(t).entry
  BY <1>2
<1>4. e \in Resources /\ ~Listed(a, e) /\ exited[a][e] = 0
  BY <1>1, <1>3 DEF EnteredOK, EntryOK, Entering
<1>5. /\ exited'[a][e] = exited[a][e] + 1
      /\ \A b \in Activations, g \in Entries : b # a \/ g # e => exited'[b][g] = exited[b][g]
  <2>1. exited \in [Activations -> [Entries -> Nat]]
    BY DEF TypeOK
  <2> QED
    BY <1>3, <2>1, IncEffect
<1>6. /\ Moves(t, p) /\ frame'[t][p].pc = "unclaim" /\ frame'[t][p].result = "Ended"
  BY <1>1, UnclaimEffect DEF Outcomes
<1>7. ASSUME NEW u \in Callers, NEW d \in Depths PROVE UsedOK(frame[u][d])'
  <2>1. CASE u = t /\ d = p
    BY <1>6, <2>1 DEF UsedOK, Computing
  <2>2. CASE u # t \/ d # p
    BY <1>6, <2>2, UsedKept DEF Moves, Emptied, Listed
  <2> QED
    BY <2>1, <2>2
<1>8. ASSUME NEW b \in Activations PROVE CachedListed(b)'
  BY CachedSame
<1>9. ASSUME NEW b \in Activations PROVE UsesOK(b)'
  <2>1. UsesOK(b) /\ uses[b] \in [Entries -> SUBSET Entries] /\ contexts[b] \in Seq(Entries)
    BY DEF DependOK, TypeOK
  <2>2. \A g : Listed(b, g)' <=> Listed(b, g)
    BY DEF Listed
  <2>3. \A g \in Entries : exited[b][g] > 0 => exited'[b][g] > 0
    BY <1>4, <1>5
  <2>4. ASSUME NEW h \in Entries \ overtaken[b], NEW f \in uses[b][h], exited'[b][f] > 0
        PROVE  exited'[b][h] > 0
    <3>1. CASE b = a /\ f = e
      <4>1. ASSUME Listed(a, h) PROVE FALSE
        <5>1. PICK i \in 1..Len(contexts[a]) : contexts[a][i] = h
          BY <4>1 DEF Listed
        <5>2. PICK j \in 1..(i - 1) : contexts[a][j] = e
          BY <1>4, <2>1, <2>4, <3>1, <5>1 DEF UsesOK
        <5>3. Len(contexts[a]) \in Nat
          BY <2>1, <3>1
        <5> QED
          BY <1>4, <5>2, <5>3 DEF Listed
      <4> QED
        BY <2>1, <2>3, <2>4, <3>1, <4>1 DEF UsesOK
    <3>2. CASE b # a \/ f # e
      <4>1. f \in Entries
        BY <2>1, <2>4
      <4> QED
        BY <1>5, <2>1, <2>3, <2>4, <3>2, <4>1 DEF UsesOK
    <3> QED
      BY <3>1, <3>2
  <2> QED
    BY <2>1, <2>2, <2>3, <2>4 DEF UsesOK
<1> QED
  BY <1>7, <1>8, <1>9 DEF DependOK

\* The storage was found in use, or the list is gone: nothing is listed and nothing exited.
LEMMA DependCheck ==
    ASSUME TypeOK, StackOK, DependOK,
           UNCHANGED <<contexts, exited, uses, phase, cached, overtaken>>,
           NEW t \in Callers, depth[t] > 0,
           \/ Top(t).pc = "register" /\ Go(t, "append")
           \/ /\ Top(t).pc = "append"
              /\ SetTop(t, [Top(t) EXCEPT !.pc = "unclaim", !.result = "IndexError"])
    PROVE  DependOK'
<1>1. PICK p \in Depths : p = depth[t] /\ Top(t) = frame[t][p]
  BY TopIsFrame DEF Top
<1>2. UsedOK(Top(t)) /\ Top(t).act \in Activations
  BY <1>1, TopInPlace DEF DependOK, Computing
<1>3. /\ Moves(t, p) /\ SameWork(frame'[t][p], Top(t)) /\ frame'[t][p].used = Top(t).used
      /\ \/ frame'[t][p].pc = "append" /\ Top(t).pc = "register"
         \/ frame'[t][p].pc = "unclaim" /\ frame'[t][p].result = "IndexError"
  BY <1>1, GoEffect, UnclaimEffect DEF PCs, Computing, Outcomes
<1>4. PICK a \in Activations : a = Top(t).act /\ a = frame'[t][p].act
  BY <1>2, <1>3 DEF SameWork
<1>5. \A g : Listed(frame[t][p].act, g)' <=> Listed(a, g)
  BY <1>4 DEF Listed
<1>6. Emptied(frame[t][p].act)' <=> Emptied(a)
  BY <1>4 DEF Emptied
<1>7. UsedOK(frame[t][p])'
  BY <1>1, <1>2, <1>3, <1>4, <1>5, <1>6 DEF UsedOK, SameWork, Computing
<1> QED
  BY <1>3, <1>7, DependMove, CachedSame

\* The list grows by a resource; what it was built from is there already, if the storage
\* is in use.
LEMMA DependAppend ==
    ASSUME TypeOK, StackOK, EnteredOK, DependOK, UNCHANGED <<exited, phase, cached, overtaken>>,
           NEW t \in Callers, depth[t] > 0, Top(t).pc = "append",
           Go(t, "store"), uses' = [uses EXCEPT ![Top(t).act][Top(t).entry] = Top(t).used],
           contexts' = [contexts EXCEPT ![Top(t).act] = Append(@, Top(t).entry)]
    PROVE  DependOK'
<1>1. PICK p \in Depths : p = depth[t] /\ Top(t) = frame[t][p]
  BY TopIsFrame DEF Top
<1>2. Top(t).act \in Activations /\ Top(t).entry \in Entries /\ Top(t).used \subseteq Entries
  BY TopInPlace DEF Computing, Frame
<1>3. PICK a \in Activations, e \in Entries : a = Top(t).act /\ e = Top(t).entry
  BY <1>2
<1>4. /\ e \in Resources /\ ~Listed(a, e) /\ exited[a][e] = 0
      /\ Emptied(a) => e \in overtaken[a]
  BY <1>1, <1>3 DEF EnteredOK, EntryOK, Entering
<1>5. ~Emptied(a) => \A g \in Top(t).used \cap Resources : Listed(a, g)
  BY <1>1, <1>3 DEF DependOK, UsedOK
<1>6. contexts[a] \in Seq(Entries) /\ contexts'[a] = Append(contexts[a], e)
      /\ \A b \in Activations : b # a => contexts'[b] = contexts[b]
  BY <1>3 DEF TypeOK
<1>7. /\ Len(contexts'[a]) = Len(contexts[a]) + 1 /\ contexts'[a][Len(contexts[a]) + 1] = e
      /\ \A i \in 1..Len(contexts[a]) : contexts'[a][i] = contexts[a][i]
      /\ Len(contexts[a]) \in Nat
  BY <1>6, Appended
<1>8. ASSUME NEW b \in Activations, NEW g
      PROVE  Listed(b, g)' <=> (Listed(b, g) \/ (b = a /\ g = e))
  <2>1. CASE b = a
    BY <1>7, <2>1 DEF Listed
  <2>2. CASE b # a
    BY <1>6, <2>2 DEF Listed
  <2> QED
    BY <2>1, <2>2
<1>9. /\ uses'[a][e] = Top(t).used
      /\ \A b \in Activations, g \in Entries : b # a \/ g # e => uses'[b][g] = uses[b][g]
  BY <1>2, <1>3 DEF TypeOK
<1>10. /\ Moves(t, p) /\ frame'[t][p].pc = "store" /\ SameWork(frame'[t][p], Top(t))
  BY <1>1, GoEffect DEF PCs, Computing
<1>11. ASSUME NEW u \in Callers, NEW d \in Depths PROVE UsedOK(frame[u][d])'
  <2>1. CASE u = t /\ d = p
    <3>1. Listed(a, e)'
      BY <1>8
    <3>2. Listed(frame[t][p].act, frame[t][p].entry)' <=> Listed(a, e)'
      BY <1>3, <1>10 DEF Listed, SameWork
    <3> QED
      BY <1>10, <2>1, <3>1, <3>2 DEF UsedOK, Computing
  <2>2. CASE u # t \/ d # p
    BY <1>8, <1>10, <2>2, UsedKept DEF Moves, Emptied
  <2> QED
    BY <2>1, <2>2
<1>12. ASSUME NEW b \in Activations PROVE CachedListed(b)'
  BY <1>8 DEF DependOK, CachedListed, Emptied
<1>13. ASSUME NEW b \in Activations PROVE UsesOK(b)'
  <2>1. UsesOK(b)
    BY DEF DependOK
  <2>2. CASE b # a
    <3>1. /\ contexts'[b] = contexts[b] /\ uses'[b] = uses[b]
          /\ overtaken'[b] = overtaken[b]
          /\ exited' = exited /\ \A g : Listed(b, g)' <=> Listed(b, g)
      BY <1>3, <1>6, <1>8, <2>2 DEF TypeOK
    <3>2. \A i \in 1..Len(contexts'[b]) : contexts'[b][i] \notin overtaken'[b] =>
             \A g \in uses'[b][contexts'[b][i]] \cap Resources :
                \E j \in 1..(i - 1) : contexts'[b][j] = g
      <4>1. \A i \in 1..Len(contexts[b]) : contexts[b][i] \notin overtaken[b] =>
               \A g \in uses[b][contexts[b][i]] \cap Resources :
                  \E j \in 1..(i - 1) : contexts[b][j] = g
        BY <2>1 DEF UsesOK
      <4>2. ASSUME NEW i \in 1..Len(contexts'[b]), contexts'[b][i] \notin overtaken'[b],
                   NEW g \in uses'[b][contexts'[b][i]] \cap Resources
            PROVE  \E j \in 1..(i - 1) : contexts'[b][j] = g
        <5>1. i \in 1..Len(contexts[b])
          BY <3>1
        <5>2. contexts'[b][i] = contexts[b][i]
          BY <3>1
        <5>3. contexts[b][i] \notin overtaken[b] /\ g \in uses[b][contexts[b][i]] \cap Resources
          BY <3>1, <4>2, <5>2
        <5>4. PICK j \in 1..(i - 1) : contexts[b][j] = g
          BY <4>1, <5>1, <5>3
        <5> QED
          BY <3>1, <5>4
      <4> QED
        BY <4>2
    <3>3. \A h \in Entries : uses'[b][h] # {} => Listed(b, h)' \/ exited'[b][h] > 0
      BY <2>1, <3>1 DEF UsesOK
    <3>4. \A h \in Entries \ overtaken'[b] :
             \A f \in uses'[b][h] : exited'[b][f] > 0 => exited'[b][h] > 0
      BY <2>1, <3>1 DEF UsesOK
    <3> QED
      BY <3>2, <3>3, <3>4 DEF UsesOK
  <2>3. CASE b = a
    <3>1. ASSUME NEW i \in 1..Len(contexts'[a]), contexts'[a][i] \notin overtaken[a],
                 NEW g \in uses'[a][contexts'[a][i]] \cap Resources
          PROVE  \E j \in 1..(i - 1) : contexts'[a][j] = g
      <4>1. CASE i = Len(contexts[a]) + 1
        <5>1. g \in Top(t).used \cap Resources /\ ~Emptied(a)
          BY <1>4, <1>7, <1>9, <3>1, <4>1
        <5>2. PICK j \in 1..Len(contexts[a]) : contexts[a][j] = g
          BY <1>5, <5>1 DEF Listed
        <5> QED
          BY <1>7, <4>1, <5>2
      <4>2. CASE i \in 1..Len(contexts[a])
        <5>1. contexts'[a][i] = contexts[a][i] /\ contexts[a][i] # e
              /\ contexts[a][i] \in Entries
          BY <1>4, <1>6, <1>7, <4>2 DEF Listed
        <5>2. g \in uses[a][contexts[a][i]] \cap Resources
          BY <1>9, <3>1, <5>1
        <5>3. PICK j \in 1..(i - 1) : contexts[a][j] = g
          BY <2>1, <2>3, <3>1, <4>2, <5>1, <5>2 DEF UsesOK
        <5> QED
          BY <1>7, <4>2, <5>3
      <4> QED
        BY <1>7, <4>1, <4>2
    <3>2. ASSUME NEW h \in Entries, uses'[a][h] # {}
          PROVE  Listed(a, h)' \/ exited'[a][h] > 0
      BY <1>8, <1>9, <2>1, <2>3, <3>2 DEF UsesOK
    <3>3. ASSUME NEW h \in Entries \ overtaken[a], NEW f \in uses'[a][h], exited'[a][f] > 0
          PROVE  exited'[a][h] > 0
      <4>1. CASE h = e
        <5>1. f \in Entries /\ exited[a][f] > 0
          BY <1>2, <1>9, <3>3, <4>1
        <5>2. Emptied(a)
          BY <5>1 DEF EnteredOK, CountOK
        <5> QED
          BY <1>4, <3>3, <4>1, <5>2
      <4>2. CASE h # e
        BY <1>9, <2>1, <2>3, <3>3, <4>2 DEF UsesOK
      <4> QED
        BY <4>1, <4>2
    <3> QED
      BY <2>3, <3>1, <3>2, <3>3 DEF UsesOK
  <2> QED
    BY <2>2, <2>3
<1> QED
  BY <1>11, <1>12, <1>13 DEF DependOK

\* The last of the list is exited: whatever was built from it stood behind it.
LEMMA DependExit ==
    ASSUME TypeOK, StackOK, EnteredOK, DependOK, NEW a \in Activations, ExitNext(a)
    PROVE  DependOK'
<1>1. PICK e \in Entries : Exits(a, e)
  BY ExitEffect DEF EnteredOK, ListOK
<1>2. Listed(a, e) /\ NoDuplicates(contexts[a]) /\ e \in Resources
  BY <1>1 DEF Exits, Listed, EnteredOK, ListOK, CountOK
<1>3. Emptied(a) /\ Emptied(a)'
  BY <1>1 DEF Exits, Emptied
<1>4. ASSUME NEW u \in Callers, NEW d \in Depths PROVE UsedOK(frame[u][d])'
  <2>1. SameRest(frame'[u][d], frame[u][d])
    BY <1>1 DEF Exits, SameRest, SameCall
  <2>2. \A b \in Activations : Emptied(b) => Emptied(b)'
    BY <1>1 DEF Exits
  <2>3. \A b \in Activations : \A g : Listed(b, g) => Listed(b, g)' \/ Emptied(b)'
    BY <1>1, <1>3 DEF Exits
  <2> QED
    BY <2>1, <2>2, <2>3, UsedKept
<1>5. ASSUME NEW b \in Activations PROVE CachedListed(b)'
  <2>1. CASE b = a
    BY <1>3, <2>1 DEF CachedListed
  <2>2. CASE b # a
    BY <1>1, <2>2 DEF Exits, DependOK, CachedListed
  <2> QED
    BY <2>1, <2>2
<1>6. ASSUME NEW b \in Activations PROVE UsesOK(b)'
  <2>1. UsesOK(b) /\ uses[b] \in [Entries -> SUBSET Entries] /\ uses' = uses /\ overtaken' = overtaken
        /\ exited[b] \in [Entries -> Nat]
    BY <1>1 DEF DependOK, TypeOK, Exits
  <2>2. CASE b # a
    <3>1. contexts'[b] = contexts[b] /\ \A g : Listed(b, g)' <=> Listed(b, g)
      BY <1>1, <2>2 DEF Exits
    <3>2. \A g \in Entries : exited'[b][g] = exited[b][g]
      BY <1>1, <2>2 DEF Exits
    <3>3. \A i \in 1..Len(contexts'[b]) : contexts'[b][i] \notin overtaken[b] =>
             \A g \in uses'[b][contexts'[b][i]] \cap Resources :
                \E j \in 1..(i - 1) : contexts'[b][j] = g
      BY <2>1, <3>1 DEF UsesOK
    <3>4. \A h \in Entries : uses'[b][h] # {} => Listed(b, h)' \/ exited'[b][h] > 0
      BY <2>1, <3>1, <3>2 DEF UsesOK
    <3>5. \A h \in Entries \ overtaken[b] :
             \A f \in uses'[b][h] : exited'[b][f] > 0 => exited'[b][h] > 0
      BY <2>1, <3>2 DEF UsesOK
    <3> QED
      BY <2>1, <3>3, <3>4, <3>5 DEF UsesOK
  <2>3. CASE b = a
    <3>0. /\ Len(contexts[a]) \in Nat \ {0} /\ e = contexts[a][Len(contexts[a])]
          /\ Len(contexts'[a]) = Len(contexts[a]) - 1
          /\ \A i \in 1..(Len(contexts[a]) - 1) : contexts'[a][i] = contexts[a][i]
          /\ exited'[a][e] = exited[a][e] + 1
          /\ \A g \in Entries : g # e => exited'[a][g] = exited[a][g]
          /\ \A g : Listed(a, g)' <=> (Listed(a, g) /\ g # e)
      BY <1>1 DEF Exits
    <3>1. ASSUME NEW i \in 1..Len(contexts'[a]), contexts'[a][i] \notin overtaken[a],
                 NEW g \in uses'[a][contexts'[a][i]] \cap Resources
          PROVE  \E j \in 1..(i - 1) : contexts'[a][j] = g
      <4>1. i \in 1..Len(contexts[a]) /\ i \in 1..(Len(contexts[a]) - 1)
        BY <3>0
      <4>2. PICK j \in 1..(i - 1) : contexts[a][j] = g
        BY <2>1, <2>3, <3>0, <3>1, <4>1 DEF UsesOK
      <4> QED
        BY <3>0, <4>1, <4>2
    <3>2. \A h \in Entries : exited[a][h] > 0 => exited'[a][h] > 0
      BY <2>1, <2>3, <3>0
    <3>3. exited'[a][e] > 0
      BY <2>1, <2>3, <3>0
    <3>4. ASSUME NEW h \in Entries, uses'[a][h] # {}
          PROVE  Listed(a, h)' \/ exited'[a][h] > 0
      BY <2>1, <2>3, <3>0, <3>2, <3>3, <3>4 DEF UsesOK
    <3>5. ASSUME NEW h \in Entries \ overtaken[a], NEW f \in uses'[a][h], exited'[a][f] > 0
          PROVE  exited'[a][h] > 0
      <4>1. CASE f = e
        <5>1. ASSUME Listed(a, h) PROVE FALSE
          <6>1. PICK i \in 1..Len(contexts[a]) : contexts[a][i] = h
            BY <5>1 DEF Listed
          <6>2. PICK j \in 1..(i - 1) : contexts[a][j] = e
            BY <1>2, <2>1, <2>3, <3>5, <4>1, <6>1 DEF UsesOK
          <6>3. j \in 1..Len(contexts[a]) /\ Len(contexts[a]) \in 1..Len(contexts[a])
                /\ j # Len(contexts[a])
            BY <3>0, <6>1, <6>2
          <6> QED
            BY <1>2, <3>0, <6>2, <6>3 DEF NoDuplicates
        <5> QED
          BY <2>1, <2>3, <3>2, <3>5, <5>1 DEF UsesOK
      <4>2. CASE f # e
        <5>1. f \in Entries
          BY <2>1, <2>3, <3>5
        <5> QED
          BY <2>1, <2>3, <3>0, <3>2, <3>5, <4>2, <5>1 DEF UsesOK
      <4> QED
        BY <4>1, <4>2
    <3> QED
      BY <2>1, <2>3, <3>1, <3>4, <3>5 DEF UsesOK
  <2> QED
    BY <2>2, <2>3
<1> QED
  BY <1>4, <1>5, <1>6 DEF DependOK

LEMMA DependNext ==
    ASSUME TypeOK, StackOK, CurrentIsLive, EnteredOK, DependOK, [Next]_vars
    PROVE  DependOK'
<1> USE DEF storageVars, ghostVars
<1>d. ASSUME UNCHANGED <<contexts, exited, uses, frame>>,
             \A a \in Activations : overtaken[a] \subseteq overtaken'[a],
             \A a \in Activations : Emptied(a) => Emptied(a)',
             \A a \in Activations : ~Emptied(a)' => cached'[a] = cached[a]
      PROVE  DependOK'
  <2>1. ASSUME NEW u \in Callers, NEW d \in Depths PROVE UsedOK(frame[u][d])'
    BY <1>d, UsedKept DEF SameRest, SameCall, Listed
  <2>2. ASSUME NEW a \in Activations PROVE CachedListed(a)'
    BY <1>d DEF DependOK, CachedListed, Listed
  <2> QED
    BY <1>d, <2>1, <2>2, DependQuiet
<1>1. CASE UNCHANGED vars
  BY <1>1, <1>d DEF vars, Emptied
<1>2. ASSUME NEW t \in Callers, Call(t) PROVE DependOK'
  <2>1. PICK e \in Entries : frame' = [frame EXCEPT ![t][1] = Opened(e)]
    BY <1>2 DEF Call
  <2>2. PICK p \in Depths : p = 1
    BY ConstantsAssumption
  <2>3. frame'[t][p] = Opened(e)
        /\ \A u \in Callers, i \in Depths : u # t \/ i # p => frame'[u][i] = frame[u][i]
    BY <2>1, <2>2 DEF TypeOK
  <2>4. Moves(t, p)
    BY <2>3 DEF Moves, SameRest, SameCall
  <2>5. UsedOK(frame[t][p])'
    BY <2>3 DEF UsedOK, Opened, NoFrame, Computing
  <2> QED
    BY <1>2, <2>4, <2>5, DependMove, CachedSame DEF Call
<1>3. ASSUME NEW t \in Callers, CallDependency(t) PROVE DependOK'
  <2>1. PICK e \in Top(t).todo :
           frame' = [frame EXCEPT ![t][depth[t]].todo = @ \ {e}, ![t][depth[t] + 1] = Opened(e)]
    BY <1>3 DEF CallDependency
  <2>2. depth[t] > 0 /\ depth[t] < MaxDepth /\ depth[t] \in Depths
    BY <1>3, TopIsFrame DEF CallDependency, At
  <2>3. e \in Entries
    BY <2>1, <2>2, TopInPlace DEF Frame
  <2>4. PICK p \in Depths : p = depth[t] + 1
    BY <2>1, <2>2, <2>3, PushFrames
  <2>5. frame'[t][p] = Opened(e) /\ Pushes(t, p)
    BY <2>1, <2>2, <2>3, <2>4, PushFrames
  <2>6. ASSUME NEW u \in Callers, NEW d \in Depths PROVE UsedOK(frame[u][d])'
    <3>1. CASE u = t /\ d = p
      BY <2>5, <3>1 DEF UsedOK, Opened, NoFrame, Computing
    <3>2. CASE u # t \/ d # p
      BY <1>3, <2>5, <3>2, UsedSame DEF Pushes, Spares, CallDependency, Emptied, Listed
    <3> QED
      BY <3>1, <3>2
  <2> QED
    BY <1>3, <2>6, DependQuiet, CachedSame DEF CallDependency
<1>4. ASSUME NEW t \in Callers, Read(t) \/ Reread(t) PROVE DependOK'
  <2>1. depth[t] > 0 /\ Top(t).pc \in {"read", "reread"}
        /\ UNCHANGED <<contexts, exited, uses, phase, cached, overtaken>>
    BY <1>4 DEF Read, Reread, At
  <2>2. CASE /\ ~Emptied(Top(t).act) /\ Top(t).entry \in cached[Top(t).act]
             /\ Return(t, "value")
    BY <2>1, <2>2, DependReturn DEF DependOK, CachedListed, Outcomes
  <2>3. CASE \E kind \in Outcomes \ {"value"} : Return(t, kind)
    BY <2>1, <2>3, DependReturn
  <2>4. CASE Miss(t)
    BY <2>1, <2>4, DependGo DEF Miss, Computing
  <2>5. CASE current # None /\ SetTop(t, [Top(t) EXCEPT !.act = current, !.pc = "reread"])
    <3>1. PICK p \in Depths : p = depth[t] /\ Top(t) = frame[t][p]
      BY <2>1, TopIsFrame DEF Top
    <3>2. Top(t).used = {}
      BY <2>1, <3>1 DEF DependOK, UsedOK, Computing
    <3>3. Moves(t, p) /\ frame'[t][p].pc = "reread" /\ frame'[t][p].used = {}
      BY <2>1, <2>5, <3>1, <3>2, RereadEffect
    <3>4. UsedOK(frame[t][p])'
      BY <3>3 DEF UsedOK, Computing
    <3> QED
      BY <2>1, <3>3, <3>4, DependMove, CachedSame
  <2> QED
    BY <1>4, <2>2, <2>3, <2>4, <2>5 DEF Read, Reread, Outcomes, Readable
<1>6. ASSUME NEW t \in Callers, TryClaim(t) PROVE DependOK'
  <2>1. depth[t] > 0 /\ Top(t).pc = "lock"
        /\ UNCHANGED <<contexts, exited, uses, phase, cached, overtaken>>
    BY <1>6 DEF TryClaim, Watch, At
  <2>2. CASE /\ ~Emptied(Top(t).act) /\ Top(t).entry \in cached[Top(t).act]
             /\ Return(t, "value")
    BY <2>1, <2>2, DependReturn DEF DependOK, CachedListed, Outcomes
  <2>3. CASE \E kind \in Outcomes \ {"value"} : Return(t, kind)
    BY <2>1, <2>3, DependReturn
  <2>4. CASE Go(t, "wait") \/ Go(t, "compute")
    BY <2>1, <2>4, DependGo DEF Computing
  <2> QED
    BY <1>6, <2>2, <2>3, <2>4 DEF TryClaim, Watch, Recheck, Outcomes
<1>7. ASSUME NEW t \in Callers, Wake(t) \/ CancelWait(t) PROVE DependOK'
  <2>1. depth[t] > 0 /\ Top(t).pc = "wait"
        /\ UNCHANGED <<contexts, exited, uses, phase, cached, overtaken>>
    BY <1>7 DEF Wake, CancelWait, At
  <2>2. CASE \E kind \in Outcomes \ {"value"} : Return(t, kind)
    BY <2>1, <2>2, DependReturn
  <2>3. CASE Go(t, "lock")
    BY <2>1, <2>3, DependGo DEF Computing
  <2> QED
    BY <1>7, <2>2, <2>3 DEF Wake, CancelWait, Outcomes
<1>8. ASSUME NEW t \in Callers, Fail(t) \/ Compute(t) PROVE DependOK'
  BY <1>8, DependCompute DEF Fail, Compute, At
<1>9. ASSUME NEW t \in Callers, Register(t) \/ AppendContext(t) PROVE DependOK'
  <2>1. CASE Register(t)
    <3>1. depth[t] > 0 /\ Top(t).pc = "register"
          /\ UNCHANGED <<contexts, uses, phase, cached, overtaken>>
      BY <2>1 DEF Register, At
    <3> QED
      BY <2>1, <3>1, DependLate, DependCheck DEF Register, EndedDuringEntry
  <2>2. CASE AppendContext(t)
    <3>1. depth[t] > 0 /\ Top(t).pc = "append"
          /\ UNCHANGED <<exited, phase, cached, overtaken>>
      BY <2>2 DEF AppendContext, At
    <3> QED
      BY <2>2, <3>1, DependCheck, DependAppend DEF AppendContext
  <2> QED
    BY <1>9, <2>1, <2>2
<1>10. ASSUME NEW t \in Callers, Unclaim(t) PROVE DependOK'
  <2>1. depth[t] > 0 /\ Top(t).pc = "unclaim" /\ Top(t).result \in Outcomes
        /\ UNCHANGED <<contexts, exited, uses, phase, cached, overtaken>>
    BY <1>10, TopIsFrame DEF Unclaim, At, Frame
  <2>2. UsedOK(Top(t))
    BY <2>1, TopIsFrame DEF DependOK, Top
  <2>3. Top(t).result = "value" /\ Top(t).act \in Activations /\ ~Emptied(Top(t).act)
           /\ Top(t).entry \in Resources => Listed(Top(t).act, Top(t).entry)
    BY <2>1, <2>2 DEF UsedOK
  <2> QED
    BY <1>10, <2>1, <2>3, DependReturn DEF Unclaim
<1>11. ASSUME NEW a \in Activations, Activate(a) \/ End(a) \/ Clear(a) \/ Drained(a)
       PROVE  DependOK'
  <2>1. UNCHANGED <<contexts, exited, uses, frame>>
    BY <1>11 DEF Activate, End, Clear, Drained
  <2>2. /\ \A b \in Activations : Emptied(b) => Emptied(b)'
        /\ \A b \in Activations : ~Emptied(b)' => cached'[b] = cached[b]
    BY <1>11 DEF Activate, End, Clear, Drained, CurrentIsLive, Emptied, TypeOK
  <2>3. \A b \in Activations : ~Emptied(b) => overtaken[b] = {}
    BY DEF EnteredOK, ListOK
  <2>4. \A b \in Activations : overtaken[b] \subseteq overtaken'[b]
    BY <1>11, <2>3 DEF Activate, End, Clear, Drained, Emptied, TypeOK
  <2> QED
    BY <1>d, <2>1, <2>2, <2>4
<1> QED
  BY <1>1, <1>2, <1>3, <1>4, <1>6, <1>7, <1>8, <1>9, <1>10, <1>11, DependStore, DependExit
     DEF Next, Step, Closing

-----------------------------------------------------------------------------
(* No circles of waiting                                                   *)

\* A rank falls from each function to those it may call.
Ranks == {rank \in [Entries -> Nat] : \A e \in Entries : \A g \in Deps[e] : rank[g] < rank[e]}

\* Functions never call themselves, directly or by way of others.
Acyclic == Ranks # {}

\* Calls go down the ranks, and none has failed for a cycle.
RanksOK(rank) ==
    /\ \A t \in Callers, d \in Depths :
          /\ frame[t][d].pc # "idle" => frame[t][d].todo \subseteq Deps[frame[t][d].entry]
          /\ frame[t][d].result # "Cycle"
    /\ \A t \in Callers, i, j \in Depths :
          i < j /\ frame[t][j].pc # "idle" => rank[frame[t][j].entry] < rank[frame[t][i].entry]

\* Who waits on an entry is inside a call of it that waits; who owns a claim is inside the
\* computation that took it.
WaitOK ==
    \A e \in Entries : \A t \in watchers[e] :
       \E d \in Depths : frame[t][d].pc = "wait" /\ frame[t][d].entry = e

OwnedOK ==
    \A e \in Entries : claim[e] # None =>
       \E d \in Depths : Holds(claim[e], d) /\ frame[claim[e]][d].entry = e

LEMMA RanksKept ==
    ASSUME NEW rank, RanksOK(rank), NEW t \in Callers, NEW p \in Depths, Spares(t, p),
           frame'[t][p].result # "Cycle",
           frame'[t][p].pc # "idle" => /\ frame[t][p].pc # "idle"
                                       /\ frame'[t][p].entry = frame[t][p].entry
                                       /\ frame'[t][p].todo \subseteq frame[t][p].todo,
           \A j \in Depths : j > p => frame[t][j].pc = "idle"
    PROVE  RanksOK(rank)'
<1>1. ASSUME NEW u \in Callers, NEW d \in Depths
      PROVE  /\ frame'[u][d].pc # "idle" => frame'[u][d].todo \subseteq Deps[frame'[u][d].entry]
             /\ frame'[u][d].result # "Cycle"
  <2>1. CASE u = t /\ d = p
    BY <2>1 DEF RanksOK
  <2>2. CASE u # t \/ d # p
    BY <2>2 DEF RanksOK, Spares, SameCall
  <2> QED
    BY <2>1, <2>2
<1>2. ASSUME NEW u \in Callers, NEW i \in Depths, NEW j \in Depths, i < j,
             frame'[u][j].pc # "idle"
      PROVE  rank[frame'[u][j].entry] < rank[frame'[u][i].entry]
  <2>1. CASE u # t \/ (i # p /\ j # p)
    BY <1>2, <2>1 DEF RanksOK, Spares, SameCall
  <2>2. CASE u = t /\ i = p
    <3>1. frame'[u][j].pc = "idle"
      BY <1>2, <2>2 DEF Spares, SameCall
    <3> QED
      BY <1>2, <3>1
  <2>3. CASE u = t /\ j = p /\ i # p
    <3>1. frame'[t][i].entry = frame[t][i].entry
      BY <2>3 DEF Spares, SameCall
    <3> QED
      BY <1>2, <2>3, <3>1 DEF RanksOK
  <2> QED
    BY <2>1, <2>2, <2>3
<1> QED
  BY <1>1, <1>2 DEF RanksOK

LEMMA RanksPush ==
    ASSUME TypeOK, NEW rank, RanksOK(rank), NEW t \in Callers, NEW p \in Depths, Spares(t, p),
           NEW e \in Entries, frame'[t][p] = Opened(e),
           \A i \in Depths : i < p => rank[e] < rank[frame[t][i].entry],
           \A j \in Depths : j > p => frame[t][j].pc = "idle"
    PROVE  RanksOK(rank)'
<1>0. /\ frame'[t][p].entry = e /\ frame'[t][p].todo = Deps[e] /\ frame'[t][p].pc = "read"
      /\ frame'[t][p].result = "none"
  BY DEF Opened, NoFrame
<1>1. ASSUME NEW u \in Callers, NEW d \in Depths
      PROVE  /\ frame'[u][d].pc # "idle" => frame'[u][d].todo \subseteq Deps[frame'[u][d].entry]
             /\ frame'[u][d].result # "Cycle"
  <2>1. CASE u = t /\ d = p
    BY <1>0, <2>1
  <2>2. CASE u # t \/ d # p
    BY <2>2 DEF RanksOK, Spares, SameCall
  <2> QED
    BY <2>1, <2>2
<1>2. ASSUME NEW u \in Callers, NEW i \in Depths, NEW j \in Depths, i < j,
             frame'[u][j].pc # "idle"
      PROVE  rank[frame'[u][j].entry] < rank[frame'[u][i].entry]
  <2>1. CASE u # t \/ (i # p /\ j # p)
    BY <1>2, <2>1 DEF RanksOK, Spares, SameCall
  <2>2. CASE u = t /\ i = p
    <3>1. frame'[u][j].pc = "idle"
      BY <1>2, <2>2 DEF Spares, SameCall
    <3> QED
      BY <1>2, <3>1
  <2>3. CASE u = t /\ j = p /\ i # p
    <3>1. frame'[t][i].entry = frame[t][i].entry
      BY <2>3 DEF Spares, SameCall
    <3> QED
      BY <1>0, <1>2, <2>3, <3>1
  <2> QED
    BY <2>1, <2>2, <2>3
<1> QED
  BY <1>1, <1>2 DEF RanksOK

LEMMA WaitKept ==
    ASSUME WaitOK, \A e \in Entries : watchers'[e] \subseteq watchers[e],
           NEW t \in Callers, NEW p \in Depths, OthersSame(t, p),
           frame[t][p].pc = "wait" => t \notin watchers'[frame[t][p].entry],
           \A e \in Entries : watchers[e] \subseteq Callers
    PROVE  WaitOK'
<1> SUFFICES ASSUME NEW e \in Entries, NEW u \in watchers'[e]
             PROVE  \E d \in Depths : frame'[u][d].pc = "wait" /\ frame'[u][d].entry = e
  BY DEF WaitOK
<1>1. PICK d \in Depths : frame[u][d].pc = "wait" /\ frame[u][d].entry = e
  BY DEF WaitOK
<1>2. u # t \/ d # p
  BY <1>1
<1> QED
  BY <1>1, <1>2 DEF OthersSame, SameCall

LEMMA OwnedKept ==
    ASSUME TypeOK, OwnedOK, \A e \in Entries : claim'[e] # None => claim'[e] = claim[e],
           NEW t \in Callers, NEW p \in Depths, OthersSame(t, p),
           Holds(t, p) => \/ Holds(t, p)' /\ frame'[t][p].entry = frame[t][p].entry
                          \/ claim'[frame[t][p].entry] = None
    PROVE  OwnedOK'
<1> SUFFICES ASSUME NEW e \in Entries, claim'[e] # None
             PROVE  \E d \in Depths : Holds(claim[e], d)' /\ frame'[claim'[e]][d].entry = e
  BY DEF OwnedOK, Holds
<1>1. PICK u \in Callers : u = claim[e] /\ u = claim'[e]
  BY DEF TypeOK
<1>2. PICK d \in Depths : Holds(u, d) /\ frame[u][d].entry = e
  BY <1>1 DEF OwnedOK
<1>3. Holds(u, d)' /\ frame'[u][d].entry = e
  BY <1>1, <1>2 DEF OthersSame, SameCall, Holds
<1> QED
  BY <1>1, <1>3 DEF Holds

CyclesOK(rank) == RanksOK(rank) /\ WaitOK /\ OwnedOK /\ NoSpuriousCycle

LEMMA CyclesReturn ==
    ASSUME TypeOK, StackOK, NEW rank, CyclesOK(rank), NEW t \in Callers, depth[t] > 0,
           NEW kind \in Outcomes \ {"Cycle"}, Return(t, kind),
           \A e \in Entries : watchers'[e] \subseteq watchers[e],
           Top(t).pc = "wait" => t \notin watchers'[Top(t).entry],
           \A e \in Entries : claim'[e] # None => claim'[e] = claim[e],
           Top(t).pc \in Computing => claim'[Top(t).entry] = None
    PROVE  CyclesOK(rank)'
<1>1. PICK p \in Depths : p = depth[t] /\ Top(t) = frame[t][p]
  BY TopIsFrame DEF Top
<1>2. frame'[t][p] = NoFrame /\ OthersSame(t, p) /\ Spares(t, p)
  BY <1>1, ReturnFrames DEF Spares, OthersSame
<1>3. \A j \in Depths : j > p => frame[t][j].pc = "idle"
  BY <1>1 DEF StackOK, InPlace
<1>4. RanksOK(rank)'
  BY <1>2, <1>3, RanksKept DEF CyclesOK, NoFrame
<1>5. WaitOK'
  BY <1>1, <1>2, WaitKept DEF CyclesOK, TypeOK
<1>6. OwnedOK'
  BY <1>1, <1>2, OwnedKept DEF CyclesOK, Holds
<1>7. NoSpuriousCycle'
  BY DEF Return, CyclesOK, NoSpuriousCycle, TypeOK
<1> QED
  BY <1>4, <1>5, <1>6, <1>7 DEF CyclesOK

\* The running call goes on, with or without the claim it has.
LEMMA CyclesMove ==
    ASSUME TypeOK, StackOK, NEW rank, CyclesOK(rank), NEW t \in Callers, NEW p \in Depths,
           p = depth[t], Top(t) = frame[t][p], UNCHANGED <<outcome, claim>>, Moves(t, p),
           \A e \in Entries : watchers'[e] \subseteq watchers[e],
           Top(t).pc = "wait" => t \notin watchers'[Top(t).entry],
           Top(t).pc \in Computing => frame'[t][p].pc \in Computing,
           frame'[t][p].entry = Top(t).entry, frame'[t][p].todo = Top(t).todo,
           frame'[t][p].result # "Cycle"
    PROVE  CyclesOK(rank)'
<1>1. OthersSame(t, p) /\ Spares(t, p) /\ Top(t).pc # "idle"
  BY DEF Moves, SameRest, OthersSame, Spares, StackOK, InPlace
<1>2. \A j \in Depths : j > p => frame[t][j].pc = "idle"
  BY DEF StackOK, InPlace
<1>3. RanksOK(rank)'
  BY <1>1, <1>2, RanksKept DEF CyclesOK
<1>4. WaitOK'
  BY <1>1, WaitKept DEF CyclesOK, TypeOK
<1>5. OwnedOK'
  BY <1>1, OwnedKept DEF CyclesOK, Holds
<1>6. NoSpuriousCycle'
  BY DEF CyclesOK, NoSpuriousCycle
<1> QED
  BY <1>3, <1>4, <1>5, <1>6 DEF CyclesOK

\* A call is opened, by nobody or by a computation of a higher rank.
LEMMA CyclesPush ==
    ASSUME TypeOK, StackOK, NEW rank, CyclesOK(rank), NEW t \in Callers, NEW p \in Depths,
           p = depth[t] + 1, UNCHANGED <<claim, watchers>>, Spares(t, p),
           outcome'[t] # "Cycle", \A u \in Callers : u # t => outcome'[u] = outcome[u],
           NEW e \in Entries, frame'[t][p] = Opened(e),
           \A i \in Depths : i < p => rank[e] < rank[frame[t][i].entry]
    PROVE  CyclesOK(rank)'
<1>1. \A j \in Depths : j >= p => frame[t][j].pc = "idle"
  BY DEF StackOK, InPlace, TypeOK
<1>2. RanksOK(rank)'
  BY <1>1, RanksPush DEF CyclesOK
<1>3. OthersSame(t, p) /\ frame[t][p].pc = "idle"
  BY <1>1 DEF Spares, OthersSame
<1>4. WaitOK'
  BY <1>3, WaitKept DEF CyclesOK, TypeOK
<1>5. OwnedOK'
  BY <1>3, OwnedKept DEF CyclesOK, Holds, Computing
<1>6. NoSpuriousCycle'
  BY DEF CyclesOK, NoSpuriousCycle
<1> QED
  BY <1>2, <1>4, <1>5, <1>6 DEF CyclesOK

\* The claim of the entry that is looked up is never the caller's own: what it computes
\* ranks higher than what it calls.
LEMMA NotItsOwn ==
    ASSUME TypeOK, StackOK, NEW rank \in Ranks, CyclesOK(rank), NEW t \in Callers,
           depth[t] > 0, Top(t).pc = "lock"
    PROVE  claim[Top(t).entry] # t
<1> SUFFICES ASSUME claim[Top(t).entry] = t PROVE FALSE
  OBVIOUS
<1>1. PICK p \in Depths : p = depth[t] /\ Top(t) = frame[t][p] /\ Top(t).entry \in Entries
  BY TopIsFrame, TopInPlace DEF Top
<1>2. PICK d \in Depths : Holds(t, d) /\ frame[t][d].entry = Top(t).entry
  BY <1>1, ConstantsAssumption DEF CyclesOK, OwnedOK
<1>3. d # p /\ d <= p
  <2>1. frame[t][d].pc \in Computing /\ frame[t][p].pc = "lock"
    BY <1>1, <1>2 DEF Holds
  <2>2. InPlace(frame[t][d], d, p)
    BY <1>1 DEF StackOK
  <2> QED
    BY <1>1, <2>1, <2>2 DEF InPlace, Computing
<1>4. rank[frame[t][p].entry] < rank[frame[t][d].entry]
  BY <1>1, <1>3 DEF CyclesOK, RanksOK
<1> QED
  BY <1>1, <1>2, <1>4 DEF Ranks

LEMMA CyclesTake ==
    ASSUME TypeOK, StackOK, NEW rank, CyclesOK(rank), NEW t \in Callers, depth[t] > 0,
           Top(t).pc = "lock", claim[Top(t).entry] = None,
           claim' = [claim EXCEPT ![Top(t).entry] = t], Go(t, "compute"),
           UNCHANGED <<watchers, outcome>>
    PROVE  CyclesOK(rank)'
<1>1. PICK p \in Depths : p = depth[t] /\ Top(t) = frame[t][p] /\ Top(t).entry \in Entries
  BY TopIsFrame, TopInPlace DEF Top
<1>2. /\ Moves(t, p) /\ OthersSame(t, p) /\ frame'[t][p].pc = "compute"
      /\ frame'[t][p].entry = Top(t).entry /\ frame'[t][p].todo = Top(t).todo
      /\ frame'[t][p].result = Top(t).result
  BY <1>1, GoEffect DEF PCs, Computing, SameWork
<1>3. Spares(t, p) /\ \A j \in Depths : j > p => frame[t][j].pc = "idle"
  BY <1>1, <1>2 DEF Moves, SameRest, Spares, StackOK, InPlace
<1>4. RanksOK(rank)'
  <2>1. frame[t][p].pc # "idle" /\ frame[t][p].result # "Cycle"
    BY <1>1 DEF CyclesOK, RanksOK
  <2> QED
    BY <1>1, <1>2, <1>3, <2>1, RanksKept DEF CyclesOK
<1>5. WaitOK'
  BY <1>1, <1>2, WaitKept DEF CyclesOK, TypeOK
<1>6. OwnedOK'
  <2> SUFFICES ASSUME NEW e \in Entries, claim'[e] # None
               PROVE  \E d \in Depths : Holds(claim[e], d)' /\ frame'[claim'[e]][d].entry = e
    BY DEF OwnedOK, Holds
  <2>1. CASE e = Top(t).entry
    <3>1. claim'[e] = t
      BY <1>1, <2>1 DEF TypeOK
    <3>2. frame'[claim'[e]][p].pc \in Computing /\ frame'[claim'[e]][p].entry = e
      BY <1>2, <2>1, <3>1 DEF Computing
    <3> QED
      BY <3>2 DEF Holds
  <2>2. CASE e # Top(t).entry
    <3>1. claim'[e] = claim[e]
      BY <2>2 DEF TypeOK
    <3>2. PICK u \in Callers : u = claim[e] /\ u = claim'[e]
      BY <3>1 DEF TypeOK
    <3>3. PICK d \in Depths : Holds(u, d) /\ frame[u][d].entry = e
      BY <3>2 DEF CyclesOK, OwnedOK
    <3>4. u # t \/ d # p
      BY <1>1, <2>2, <3>3
    <3>5. frame'[u][d].pc \in Computing /\ frame'[u][d].entry = e
      BY <1>2, <3>3, <3>4 DEF OthersSame, SameCall, Holds
    <3> QED
      BY <3>2, <3>5 DEF Holds
  <2> QED
    BY <2>1, <2>2
<1> QED
  BY <1>4, <1>5, <1>6 DEF CyclesOK, NoSpuriousCycle

LEMMA CyclesWatch ==
    ASSUME TypeOK, StackOK, NEW rank, CyclesOK(rank), NEW t \in Callers, depth[t] > 0,
           Top(t).pc = "lock", watchers' = [watchers EXCEPT ![Top(t).entry] = @ \cup {t}],
           Go(t, "wait"), UNCHANGED <<claim, outcome>>
    PROVE  CyclesOK(rank)'
<1>1. PICK p \in Depths : p = depth[t] /\ Top(t) = frame[t][p] /\ Top(t).entry \in Entries
  BY TopIsFrame, TopInPlace DEF Top
<1>2. /\ Moves(t, p) /\ OthersSame(t, p) /\ frame'[t][p].pc = "wait"
      /\ frame'[t][p].entry = Top(t).entry /\ frame'[t][p].todo = Top(t).todo
      /\ frame'[t][p].result = Top(t).result
  BY <1>1, GoEffect DEF PCs, Computing, SameWork
<1>3. Spares(t, p) /\ \A j \in Depths : j > p => frame[t][j].pc = "idle"
  BY <1>1, <1>2 DEF Moves, SameRest, Spares, StackOK, InPlace
<1>4. RanksOK(rank)'
  <2>1. frame[t][p].pc # "idle" /\ frame[t][p].result # "Cycle"
    BY <1>1 DEF CyclesOK, RanksOK
  <2> QED
    BY <1>1, <1>2, <1>3, <2>1, RanksKept DEF CyclesOK
<1>5. WaitOK'
  <2> SUFFICES ASSUME NEW e \in Entries, NEW u \in watchers'[e]
               PROVE  \E d \in Depths : frame'[u][d].pc = "wait" /\ frame'[u][d].entry = e
    BY DEF WaitOK
  <2>1. CASE u = t /\ e = Top(t).entry
    BY <1>2, <2>1
  <2>2. CASE u # t \/ e # Top(t).entry
    <3>1. u \in watchers[e] /\ u \in Callers
      BY <2>2 DEF TypeOK
    <3>2. PICK d \in Depths : frame[u][d].pc = "wait" /\ frame[u][d].entry = e
      BY <3>1 DEF CyclesOK, WaitOK
    <3>3. u # t \/ d # p
      BY <1>1, <3>2
    <3> QED
      BY <1>2, <3>1, <3>2, <3>3 DEF OthersSame, SameCall
  <2> QED
    BY <2>1, <2>2
<1>6. OwnedOK'
  BY <1>1, <1>2, OwnedKept DEF CyclesOK, Holds, Computing
<1> QED
  BY <1>4, <1>5, <1>6 DEF CyclesOK, NoSpuriousCycle

LEMMA CyclesNext ==
    ASSUME TypeOK, StackOK, ClaimsHeld, NEW rank \in Ranks, CyclesOK(rank), [Next]_vars
    PROVE  CyclesOK(rank)'
<1> USE DEF storageVars, ghostVars
<1>a. ASSUME NEW t \in Callers, depth[t] > 0, NEW kind \in Outcomes \ {"Cycle"}, Return(t, kind),
             Top(t).pc \notin Computing \cup {"wait"}, UNCHANGED <<claim, watchers>>
      PROVE  CyclesOK(rank)'
  BY <1>a, CyclesReturn
<1>b. ASSUME NEW t \in Callers, depth[t] > 0, NEW pc \in PCs, Go(t, pc),
             UNCHANGED <<outcome, claim, watchers>>,
             Top(t).pc = "wait" => t \notin watchers[Top(t).entry],
             Top(t).pc \in Computing => pc \in Computing
      PROVE  CyclesOK(rank)'
  <2>1. PICK p \in Depths : p = depth[t] /\ Top(t) = frame[t][p]
    BY <1>b, TopIsFrame DEF Top
  <2>2. /\ Moves(t, p) /\ frame'[t][p].pc = pc
        /\ frame'[t][p].entry = Top(t).entry /\ frame'[t][p].todo = Top(t).todo
        /\ frame'[t][p].result = Top(t).result
    BY <1>b, <2>1, GoEffect DEF SameWork
  <2>3. Top(t).result # "Cycle"
    BY <2>1 DEF CyclesOK, RanksOK
  <2> QED
    BY <1>b, <2>1, <2>2, <2>3, CyclesMove
<1>c. ASSUME NEW t \in Callers, depth[t] > 0, NEW kind \in Outcomes \ {"Cycle"},
             SetTop(t, [Top(t) EXCEPT !.pc = "unclaim", !.result = kind]),
             UNCHANGED <<outcome, claim, watchers>>, Top(t).pc # "wait"
      PROVE  CyclesOK(rank)'
  <2>1. PICK p \in Depths : p = depth[t] /\ Top(t) = frame[t][p]
    BY <1>c, TopIsFrame DEF Top
  <2>2. /\ Moves(t, p) /\ frame'[t][p].pc = "unclaim"
        /\ frame'[t][p].entry = Top(t).entry /\ frame'[t][p].todo = Top(t).todo
        /\ frame'[t][p].result # "Cycle"
    BY <1>c, <2>1, UnclaimEffect DEF SameWork
  <2> QED
    BY <1>c, <2>1, <2>2, CyclesMove DEF Computing
<1>d. ASSUME UNCHANGED <<frame, claim, watchers, outcome>> PROVE CyclesOK(rank)'
  BY <1>d DEF CyclesOK, RanksOK, WaitOK, OwnedOK, Holds, NoSpuriousCycle
<1>1. CASE UNCHANGED vars
  BY <1>1, <1>d DEF vars
<1>2. ASSUME NEW t \in Callers, Call(t) PROVE CyclesOK(rank)'
  <2>1. PICK e \in Entries : frame' = [frame EXCEPT ![t][1] = Opened(e)]
    BY <1>2 DEF Call
  <2>2. PICK p \in Depths : p = 1
    BY ConstantsAssumption
  <2>3. frame'[t][p] = Opened(e)
        /\ \A u \in Callers, i \in Depths : u # t \/ i # p => frame'[u][i] = frame[u][i]
    BY <2>1, <2>2 DEF TypeOK
  <2>4. Spares(t, p) /\ p = depth[t] + 1 /\ \A i \in Depths : ~(i < p)
    BY <1>2, <2>2, <2>3 DEF Spares, SameCall, Call
  <2>5. outcome'[t] # "Cycle" /\ (\A u \in Callers : u # t => outcome'[u] = outcome[u])
    BY <1>2 DEF Call, TypeOK
  <2> QED
    BY <1>2, <2>3, <2>4, <2>5, CyclesPush DEF Call
<1>3. ASSUME NEW t \in Callers, CallDependency(t) PROVE CyclesOK(rank)'
  <2>1. PICK e \in Top(t).todo :
           frame' = [frame EXCEPT ![t][depth[t]].todo = @ \ {e}, ![t][depth[t] + 1] = Opened(e)]
    BY <1>3 DEF CallDependency
  <2>2. depth[t] > 0 /\ depth[t] < MaxDepth /\ depth[t] \in Depths /\ Top(t).pc = "compute"
    BY <1>3, TopIsFrame DEF CallDependency, At
  <2>3. e \in Entries /\ Top(t).entry \in Entries
    BY <2>1, <2>2, TopInPlace DEF Frame
  <2>4. PICK p \in Depths : p = depth[t] + 1
    BY <2>1, <2>2, <2>3, PushFrames
  <2>5. frame'[t][p] = Opened(e) /\ Pushes(t, p)
    BY <2>1, <2>2, <2>3, <2>4, PushFrames
  <2>6. PICK d \in Depths : d = depth[t] /\ Top(t) = frame[t][d]
    BY <2>2 DEF Top
  <2>7. rank[e] < rank[frame[t][d].entry]
    BY <2>1, <2>2, <2>3, <2>6 DEF CyclesOK, RanksOK, Ranks
  <2>8. ASSUME NEW i \in Depths, i < p PROVE rank[e] < rank[frame[t][i].entry]
    <3>1. CASE i = d
      BY <2>7, <3>1
    <3>2. CASE i < d
      <4>1. rank[frame[t][d].entry] < rank[frame[t][i].entry]
        BY <2>2, <2>6, <3>2 DEF CyclesOK, RanksOK
      <4>2. frame[t][i].entry \in Entries
        BY <2>6, <3>2 DEF StackOK, InPlace
      <4> QED
        BY <2>3, <2>6, <2>7, <4>1, <4>2 DEF Ranks
    <3> QED
      BY <2>4, <2>6, <2>8, <3>1, <3>2
  <2>9. outcome'[t] # "Cycle" /\ (\A u \in Callers : u # t => outcome'[u] = outcome[u])
    BY <1>3 DEF CallDependency, CyclesOK, NoSpuriousCycle
  <2> QED
    BY <1>3, <2>3, <2>4, <2>5, <2>8, <2>9, CyclesPush DEF CallDependency, Pushes
<1>4. ASSUME NEW t \in Callers, Read(t) \/ Reread(t) PROVE CyclesOK(rank)'
  <2>1. depth[t] > 0 /\ Top(t).pc \in {"read", "reread"} /\ UNCHANGED <<claim, watchers>>
    BY <1>4 DEF Read, Reread, At
  <2>2. CASE \E kind \in Outcomes \ {"Cycle"} : Return(t, kind)
    BY <1>a, <2>1, <2>2 DEF Computing
  <2>3. CASE Miss(t)
    BY <1>b, <2>1, <2>3 DEF Miss, PCs, Computing
  <2>4. CASE /\ current # None /\ UNCHANGED outcome
             /\ SetTop(t, [Top(t) EXCEPT !.act = current, !.pc = "reread"])
    <3>1. PICK p \in Depths : p = depth[t] /\ Top(t) = frame[t][p]
      BY <2>1, TopIsFrame DEF Top
    <3>2. /\ Moves(t, p) /\ frame'[t][p].pc = "reread"
          /\ frame'[t][p].entry = Top(t).entry /\ frame'[t][p].todo = Top(t).todo
          /\ frame'[t][p].result = Top(t).result
      BY <2>1, <2>4, <3>1, RereadEffect
    <3>3. Top(t).result # "Cycle"
      BY <3>1 DEF CyclesOK, RanksOK
    <3> QED
      BY <2>1, <2>4, <3>1, <3>2, <3>3, CyclesMove DEF Computing
  <2> QED
    BY <1>4, <2>2, <2>3, <2>4 DEF Read, Reread, Outcomes
<1>5. ASSUME NEW t \in Callers, TryClaim(t) PROVE CyclesOK(rank)'
  <2>1. depth[t] > 0 /\ Top(t).pc = "lock"
    BY <1>5 DEF TryClaim, Watch, At
  <2>2. CASE UNCHANGED <<claim, watchers>> /\ \E kind \in Outcomes \ {"Cycle"} : Return(t, kind)
    BY <1>a, <2>1, <2>2 DEF Computing
  <2>3. claim[Top(t).entry] # t
    BY <2>1, NotItsOwn
  <2> QED
    BY <1>5, <2>1, <2>2, <2>3, CyclesTake, CyclesWatch DEF TryClaim, Watch, Outcomes
<1>6. ASSUME NEW t \in Callers, Wake(t) PROVE CyclesOK(rank)'
  <2>1. depth[t] > 0 /\ Top(t).pc = "wait" /\ t \notin watchers[Top(t).entry]
        /\ UNCHANGED <<claim, watchers>>
    BY <1>6 DEF Wake, At
  <2>2. CASE Return(t, "Ended")
    BY <2>1, <2>2, CyclesReturn DEF Computing, Outcomes
  <2>3. CASE Go(t, "lock") /\ UNCHANGED outcome
    BY <1>b, <2>1, <2>3 DEF PCs, Computing
  <2> QED
    BY <1>6, <2>2, <2>3 DEF Wake
<1>7. ASSUME NEW t \in Callers, CancelWait(t) PROVE CyclesOK(rank)'
  <2>1. depth[t] > 0 /\ Top(t).pc = "wait" /\ UNCHANGED claim /\ Return(t, "Cancelled")
    BY <1>7 DEF CancelWait, At
  <2>2. Top(t).entry \in Entries
    BY <2>1, TopInPlace
  <2>3. /\ \A e \in Entries : watchers'[e] \subseteq watchers[e]
        /\ t \notin watchers'[Top(t).entry]
    BY <1>7, <2>2 DEF CancelWait, TypeOK
  <2> QED
    BY <2>1, <2>3, CyclesReturn DEF Computing, Outcomes
<1>8. ASSUME NEW t \in Callers, Fail(t) \/ Compute(t) \/ Register(t) \/ AppendContext(t) \/ Store(t)
      PROVE  CyclesOK(rank)'
  <2>1. depth[t] > 0 /\ Top(t).pc \in Computing /\ UNCHANGED <<claim, watchers, outcome>>
    BY <1>8 DEF Fail, Compute, Register, AppendContext, Store, At, Computing
  <2>2. CASE Go(t, "register") \/ Go(t, "append") \/ Go(t, "store")
    BY <1>b, <2>1, <2>2 DEF PCs, Computing
  <2>3. CASE \E kind \in Outcomes \ {"Cycle"} :
                SetTop(t, [Top(t) EXCEPT !.pc = "unclaim", !.result = kind])
    BY <1>c, <2>1, <2>3 DEF Computing
  <2> QED
    BY <1>8, <2>2, <2>3 DEF Fail, Compute, Register, AppendContext, Store, Outcomes
<1>9. ASSUME NEW t \in Callers, Unclaim(t) PROVE CyclesOK(rank)'
  <2>1. depth[t] > 0 /\ Top(t).pc = "unclaim" /\ Return(t, Top(t).result)
    BY <1>9 DEF Unclaim, At
  <2>2. Top(t).result \in Outcomes \ {"Cycle"} /\ Top(t).entry \in Entries
    BY <2>1, TopIsFrame, TopInPlace DEF Frame, CyclesOK, RanksOK, Top
  <2>3. /\ \A e \in Entries : watchers'[e] \subseteq watchers[e]
        /\ \A e \in Entries : claim'[e] # None => claim'[e] = claim[e]
        /\ claim'[Top(t).entry] = None
    BY <1>9, <2>2 DEF Unclaim, PopClaim, TypeOK
  <2> QED
    BY <2>1, <2>2, <2>3, CyclesReturn
<1>10. ASSUME NEW a \in Activations, Activate(a) \/ End(a) \/ Closing(a) PROVE CyclesOK(rank)'
  BY <1>10, <1>d DEF Activate, End, Closing, Clear, ExitNext, Drained
<1> QED
  BY <1>1, <1>2, <1>3, <1>4, <1>5, <1>6, <1>7, <1>8, <1>9, <1>10 DEF Next, Step

-----------------------------------------------------------------------------
(* The theorems about resources and circles                                *)

LEMMA MoreInit ==
    Init => EnteredOK /\ DependOK /\ \A rank \in Ranks : CyclesOK(rank)
<1> SUFFICES ASSUME Init PROVE EnteredOK /\ DependOK /\ \A rank \in Ranks : CyclesOK(rank)
  OBVIOUS
<1>1. \A t \in Callers, d \in Depths : frame[t][d] = NoFrame
  BY DEF Init
<1>2. \A a \in Activations : contexts[a] = <<>> /\ Len(contexts[a]) = 0 /\ 1..Len(contexts[a]) = {}
  BY DEF Init
<1>3. \A a \in Activations, e \in Entries :
         /\ entered[a][e] = 0 /\ exited[a][e] = 0 /\ uses[a][e] = {} /\ ~Listed(a, e)
  BY <1>2 DEF Init, Listed
<1>4. \A a \in Activations : ListOK(a) /\ \A e \in Entries : CountOK(a, e)
  BY <1>2, <1>3 DEF ListOK, NoDuplicates, CountOK, Init, Emptied, Registering
<1>5. EnteredOK
  BY <1>1, <1>4 DEF EnteredOK, EntryOK, NoFrame, Entering
<1>6. \A a \in Activations : CachedListed(a) /\ UsesOK(a)
  BY <1>2, <1>3 DEF CachedListed, UsesOK, Init
<1>7. DependOK
  BY <1>1, <1>6 DEF DependOK, UsedOK, NoFrame, Computing
<1>8. ASSUME NEW rank \in Ranks PROVE CyclesOK(rank)
  <2>1. RanksOK(rank)
    BY <1>1 DEF RanksOK, NoFrame
  <2>2. WaitOK /\ OwnedOK /\ NoSpuriousCycle
    BY DEF Init, WaitOK, OwnedOK, NoSpuriousCycle
  <2> QED
    BY <2>1, <2>2 DEF CyclesOK
<1> QED
  BY <1>5, <1>7, <1>8

\* The whole inductive invariant of the entries, the resources and their dependents.
ResourcesInv == IInv /\ EnteredOK /\ DependOK

THEOREM ResourcesInvariant == Spec => []ResourcesInv
<1>1. Init => ResourcesInv
  BY InvInit, MoreInit DEF ResourcesInv
<1>2. ResourcesInv /\ [Next]_vars => ResourcesInv'
  <2> SUFFICES ASSUME ResourcesInv, [Next]_vars PROVE ResourcesInv'
    OBVIOUS
  <2>1. IInv'
    BY InvNext DEF ResourcesInv
  <2>2. EnteredOK'
    BY <2>1, EnteredNext DEF ResourcesInv, IInv
  <2>3. DependOK'
    BY DependNext DEF ResourcesInv, IInv
  <2> QED
    BY <2>1, <2>2, <2>3 DEF ResourcesInv
<1> QED
  BY <1>1, <1>2, PTL DEF Spec

\* A resource is entered and exited at most once per activation, and is not exited while its
\* activation goes on.  A closed activation leaves one open only if its entry is under way and
\* will find the storage emptied, or if the storage was emptied after it had been found in
\* use and before the resource was listed.
THEOREM ResourcesExit == Spec => []ResourcesExitOnce
<1>1. ASSUME ResourcesInv PROVE ResourcesExitOnce
  <2> SUFFICES ASSUME NEW a \in Activations, NEW e \in Entries
               PROVE  /\ exited[a][e] <= entered[a][e] /\ entered[a][e] <= 1
                      /\ exited[a][e] > 0 => Emptied(a)
                      /\ phase[a] = "closed" /\ exited[a][e] < entered[a][e]
                            /\ e \notin overtaken[a]
                            => \E t \in Callers, d \in Depths :
                                  /\ frame[t][d].pc = "register" /\ frame[t][d].act = a
                                  /\ frame[t][d].entry = e
    BY DEF ResourcesExitOnce
  <2>1. CountOK(a, e) /\ ListOK(a)
    BY <1>1 DEF ResourcesInv, EnteredOK
  <2>2. entered[a][e] \in Nat /\ exited[a][e] \in Nat
    BY <1>1 DEF ResourcesInv, IInv, TypeOK
  <2>3. phase[a] = "closed" /\ Listed(a, e) => e \in overtaken[a]
    BY <2>1 DEF ListOK
  <2>4. ASSUME phase[a] = "closed", exited[a][e] < entered[a][e], e \notin overtaken[a]
        PROVE  \E t \in Callers, d \in Depths :
                  frame[t][d].pc = "register" /\ frame[t][d].act = a /\ frame[t][d].entry = e
    <3>1. PICK t \in Callers, d \in Depths :
             frame[t][d].pc \in Entering /\ frame[t][d].act = a /\ frame[t][d].entry = e
      BY <2>1, <2>2, <2>3, <2>4 DEF CountOK, Registering
    <3>2. frame[t][d].pc = "append" /\ Emptied(a) => e \in overtaken[a]
      BY <1>1, <3>1 DEF ResourcesInv, EnteredOK, EntryOK
    <3>3. frame[t][d].pc = "register"
      BY <2>4, <3>1, <3>2 DEF Entering, Emptied
    <3> QED
      BY <3>1, <3>3
  <2> QED
    BY <2>1, <2>2, <2>4 DEF CountOK
<1> QED
  BY <1>1, ResourcesInvariant, PTL

\* The resources that a resource registered in time was built from are exited after it, in
\* whatever order the callers' computations overlapped.
THEOREM DependentsExit == Spec => []DependentsExitFirst
<1>1. ResourcesInv => DependentsExitFirst
  BY DEF ResourcesInv, DependOK, UsesOK, DependentsExitFirst
<1> QED
  BY <1>1, ResourcesInvariant, PTL

\* Whoever owns what a waiter waits for, if it waits too, waits for an entry of a lower rank.
LEMMA WaitsFall ==
    ASSUME TypeOK, StackOK, NEW rank \in Ranks, CyclesOK(rank),
           NEW t \in Callers, NEW e \in Entries, t \in watchers[e],
           NEW d \in Depths, frame[t][d].pc = "wait",
           claim[e] # None, NEW i \in Depths, frame[claim[e]][i].pc = "wait"
    PROVE  /\ frame[t][d].entry = e /\ frame[claim[e]][i].entry \in Entries
           /\ rank[frame[claim[e]][i].entry] < rank[e]
<1> DEFINE u == claim[e]
<1>1. u \in Callers
  BY DEF TypeOK
<1>2. PICK j \in Depths : Holds(u, j) /\ frame[u][j].entry = e
  BY DEF CyclesOK, OwnedOK
<1>3. PICK k \in Depths : frame[t][k].pc = "wait" /\ frame[t][k].entry = e
  BY DEF CyclesOK, WaitOK
<1>4. depth[t] \in Int /\ depth[u] \in Int
  BY <1>1 DEF TypeOK
<1>5. InPlace(frame[t][d], d, depth[t]) /\ InPlace(frame[t][k], k, depth[t])
  BY DEF StackOK
<1>6. d = k
  BY <1>3, <1>4, <1>5, ConstantsAssumption DEF InPlace
<1>7. InPlace(frame[u][i], i, depth[u]) /\ InPlace(frame[u][j], j, depth[u])
  BY <1>1 DEF StackOK
<1>8. i = depth[u] /\ frame[u][i].entry \in Entries
  BY <1>4, <1>7, ConstantsAssumption DEF InPlace
<1>9. j < i
  <2>1. j # i
    BY <1>2 DEF Holds, Computing
  <2>2. ~(j > depth[u])
    BY <1>2, <1>7 DEF InPlace, Holds, Computing
  <2> QED
    BY <1>4, <1>8, <2>1, <2>2, ConstantsAssumption
<1>10. rank[frame[u][i].entry] < rank[frame[u][j].entry]
  BY <1>1, <1>9 DEF CyclesOK, RanksOK
<1> QED
  BY <1>2, <1>3, <1>6, <1>8, <1>10

LEMMA NoCircle ==
    ASSUME TypeOK, StackOK, NEW rank \in Ranks, CyclesOK(rank)
    PROVE  NoCycle
<1> SUFFICES NoWaitCycle
  BY DEF NoCycle, CyclesOK
<1> SUFFICES ASSUME NEW S \in (SUBSET Callers) \ {{}},
                    ~ \E t \in S : \A e \in Entries : t \in watchers[e] => claim[e] \notin S
             PROVE  FALSE
  BY Zenon DEF NoWaitCycle
<1>0. \A t \in S : \E e \in Entries : t \in watchers[e] /\ claim[e] \in S
  OBVIOUS
<1>a. S # {}
  OBVIOUS
<1>b. S \in SUBSET Callers
  OBVIOUS
<1> DEFINE Waits(t, e) == \E d \in Depths : frame[t][d].pc = "wait" /\ frame[t][d].entry = e
           ranks == {rank[e] : e \in {f \in Entries : \E t \in S : Waits(t, f)}}
<1>1. ranks \subseteq Nat
  BY DEF Ranks
<1>2. ASSUME NEW t \in S
      PROVE  \E e \in Entries : Waits(t, e) /\ t \in watchers[e] /\ claim[e] \in S
  BY <1>0, <1>2 DEF CyclesOK, WaitOK
<1>3. ranks # {}
  <2>1. PICK t \in S : TRUE
    BY <1>a
  <2>2. PICK e \in Entries : Waits(t, e)
    BY <1>2, <2>1
  <2>3. rank[e] \in ranks
    BY <2>1, <2>2
  <2> QED
    BY <2>3
<1>4. PICK n \in ranks : \A m \in ranks : ~(<<m, n>> \in OpToRel(<, Nat))
  BY <1>1, <1>3, NatLessThanWellFounded, WFMin
<1>5. PICK t \in S, e \in Entries : Waits(t, e) /\ n = rank[e]
  OBVIOUS
<1>6. PICK f \in Entries : Waits(t, f) /\ t \in watchers[f] /\ claim[f] \in S
  BY <1>2
<1>7. claim[f] \in Callers /\ claim[f] # None
  BY <1>6, ConstantsAssumption
<1>8. PICK d \in Depths : frame[t][d].pc = "wait" /\ frame[t][d].entry = e
  BY <1>5
<1>9. PICK g \in Entries : Waits(claim[f], g)
  BY <1>2, <1>6
<1>10. PICK i \in Depths : frame[claim[f]][i].pc = "wait" /\ frame[claim[f]][i].entry = g
  BY <1>9
<1>11. frame[t][d].entry = f /\ rank[g] < rank[f]
  BY <1>6, <1>7, <1>8, <1>10, WaitsFall
<1>12. rank[g] < n /\ rank[g] \in ranks
  BY <1>5, <1>6, <1>8, <1>9, <1>11
<1>13. rank[g] \in Nat /\ n \in Nat
  BY <1>1, <1>12
<1>14. <<rank[g], n>> \in OpToRel(<, Nat)
  BY <1>12, <1>13, Zenon DEF OpToRel
<1> QED
  BY <1>4, <1>12, <1>14, Zenon

\* If no function calls itself, directly or through others, then callers never wait on one
\* another in a circle, and none is told that its call depends on its own computation.
THEOREM NoCircles == ASSUME Acyclic PROVE Spec => []NoCycle
<1>1. PICK rank : rank \in Ranks
  BY DEF Acyclic
<1>2. Init => CyclesOK(rank)
  BY <1>1, MoreInit
<1>3. IInv /\ CyclesOK(rank) /\ [Next]_vars => CyclesOK(rank)'
  BY <1>1, CyclesNext DEF IInv
<1>4. IInv /\ CyclesOK(rank) => NoCycle
  BY <1>1, NoCircle DEF IInv
<1> QED
  BY <1>2, <1>3, <1>4, Invariant, PTL DEF Spec

-----------------------------------------------------------------------------
(* How a computation ends                                                  *)

\* Under way to its return with a value, which was made; or without one, and none was.
Valued(f) == f.pc = "store" \/ (f.pc = "unclaim" /\ f.result = "value")

FrameResult(f) ==
    /\ Valued(f) => made[f.act][f.entry] = 1
    /\ f.pc = "unclaim" => f.result \in {"value", "Failed", "Ended", "IndexError"}
    /\ f.pc = "unclaim" /\ f.result # "value" => made[f.act][f.entry] = 0

\* The result a claimant is about to return says whether it made the value.
ResultOK == \A t \in Callers, d \in Depths : FrameResult(frame[t][d])

SameResult(f, g) == SameCall(f, g) /\ f.result = g.result

\* A frame whose result is decided holds the claim: nobody else's success counts for it.
LEMMA ResultFrame ==
    ASSUME TypeOK, StackOK, ClaimsHeld, ResultOK, NEW t \in Callers, NEW p \in Depths,
           \A u \in Callers, d \in Depths :
              u # t \/ d # p => SameResult(frame'[u][d], frame[u][d]),
           \/ UNCHANGED made
           \/ /\ Holds(t, p)
              /\ \A a \in Activations, e \in Entries :
                    a # frame[t][p].act \/ e # frame[t][p].entry => made'[a][e] = made[a][e],
           FrameResult(frame[t][p])'
    PROVE  ResultOK'
<1> SUFFICES ASSUME NEW u \in Callers, NEW d \in Depths, u # t \/ d # p,
                    frame[u][d].pc \in {"store", "unclaim"}
             PROVE  FrameResult(frame[u][d])'
  BY DEF ResultOK, FrameResult, Valued, SameResult, SameCall
<1>1. Holds(u, d) /\ frame[u][d].entry \in Entries /\ frame[u][d].act \in Activations
  BY FrameInUse DEF Holds, Computing
<1>2. made'[frame[u][d].act][frame[u][d].entry] = made[frame[u][d].act][frame[u][d].entry]
  <2>1. CASE UNCHANGED made
    BY <2>1
  <2>2. CASE /\ Holds(t, p)
             /\ \A a \in Activations, e \in Entries :
                   a # frame[t][p].act \/ e # frame[t][p].entry => made'[a][e] = made[a][e]
    <3>1. frame[u][d].entry # frame[t][p].entry
      BY <1>1, <2>2 DEF ClaimsHeld
    <3> QED
      BY <1>1, <2>2, <3>1
  <2> QED
    BY <2>1, <2>2
<1>3. FrameResult(frame[u][d]) /\ SameResult(frame'[u][d], frame[u][d])
  BY DEF ResultOK
<1> QED
  BY <1>2, <1>3 DEF FrameResult, Valued, SameResult, SameCall

\* One frame moves, and does not come to a result.
LEMMA ResultQuiet ==
    ASSUME TypeOK, StackOK, ClaimsHeld, ResultOK, UNCHANGED made,
           NEW t \in Callers, NEW p \in Depths,
           \A u \in Callers, d \in Depths :
              u # t \/ d # p => SameResult(frame'[u][d], frame[u][d]),
           frame'[t][p].pc \notin {"store", "unclaim"}
    PROVE  ResultOK'
<1>1. FrameResult(frame[t][p])'
  BY DEF FrameResult, Valued
<1> QED
  BY <1>1, ResultFrame

\* Frames as the steps below move them: the others keep their results.
LEMMA MovesResults ==
    ASSUME NEW t \in Callers, NEW p \in Depths, Moves(t, p)
    PROVE  \A u \in Callers, d \in Depths :
              u # t \/ d # p => SameResult(frame'[u][d], frame[u][d])
BY DEF Moves, SameRest, SameResult

LEMMA ReturnResults ==
    ASSUME TypeOK, StackOK, NEW t \in Callers, depth[t] > 0, NEW kind \in Outcomes,
           Return(t, kind)
    PROVE  /\ depth[t] \in Depths
           /\ frame'[t][depth[t]].pc \notin {"store", "unclaim"}
           /\ \A u \in Callers, d \in Depths :
                 u # t \/ d # depth[t] => SameResult(frame'[u][d], frame[u][d])
BY ReturnFrames DEF OthersSame, SameResult, NoFrame

LEMMA ResultSuccess ==
    ASSUME TypeOK, StackOK, ClaimsHeld, NothingMade, ResultOK, NEW t \in Callers,
           depth[t] > 0, Before(Top(t)), Go(t, "store"), made' = Inc(made, Top(t))
    PROVE  ResultOK'
<1>1. /\ Top(t).entry \in Entries /\ Top(t).act \in Activations /\ depth[t] \in Depths
      /\ Holds(t, depth[t]) /\ frame[t][depth[t]] = Top(t)
  BY TopInPlace, TopIsFrame DEF Before, Holds, Computing, Top
<1>2. "store" \in PCs
  BY DEF PCs, Computing
<1>3. /\ Moves(t, depth[t]) /\ frame'[t][depth[t]].pc = "store"
      /\ SameWork(frame'[t][depth[t]], Top(t))
  BY <1>2, GoEffect
<1>4. made \in [Activations -> [Entries -> Nat]]
  BY DEF TypeOK
<1>5. /\ made'[Top(t).act][Top(t).entry] = made[Top(t).act][Top(t).entry] + 1
      /\ \A a \in Activations, e \in Entries :
            a # Top(t).act \/ e # Top(t).entry => made'[a][e] = made[a][e]
  BY <1>1, <1>4, IncEffect
<1>6. made[Top(t).act][Top(t).entry] = 0
  BY <1>1 DEF NothingMade, Before
<1>7. PICK p \in Depths : p = depth[t]
  BY <1>1
<1>8. FrameResult(frame[t][p])'
  BY <1>3, <1>5, <1>6, <1>7 DEF FrameResult, Valued, SameWork
<1>9. \A u \in Callers, d \in Depths : u # t \/ d # p => SameResult(frame'[u][d], frame[u][d])
  BY <1>3, <1>7, MovesResults
<1> QED
  BY <1>1, <1>5, <1>7, <1>8, <1>9, ResultFrame

\* The computation ends: with the value it stored, or with an error and nothing made.
LEMMA ResultEnd ==
    ASSUME TypeOK, StackOK, ClaimsHeld, NothingMade, ResultOK, UNCHANGED made,
           NEW t \in Callers, depth[t] > 0,
           NEW kind \in {"value", "Failed", "Ended", "IndexError"},
           SetTop(t, [Top(t) EXCEPT !.pc = "unclaim", !.result = kind]),
           IF kind = "value" THEN Top(t).pc = "store" ELSE Before(Top(t))
    PROVE  ResultOK'
<1>1. depth[t] \in Depths /\ frame[t][depth[t]] = Top(t)
  BY TopIsFrame DEF Top
<1>2. kind \in Outcomes
  BY DEF Outcomes
<1>3. /\ Moves(t, depth[t]) /\ frame'[t][depth[t]].pc = "unclaim"
      /\ SameWork(frame'[t][depth[t]], Top(t)) /\ frame'[t][depth[t]].result = kind
  BY <1>2, UnclaimEffect
<1>4. made[Top(t).act][Top(t).entry] = IF kind = "value" THEN 1 ELSE 0
  <2>1. FrameResult(Top(t))
    BY <1>1 DEF ResultOK
  <2>2. Before(Top(t)) => made[Top(t).act][Top(t).entry] = 0
    BY <1>1 DEF NothingMade, Before
  <2> QED
    BY <2>1, <2>2 DEF FrameResult, Valued
<1>5. PICK p \in Depths : p = depth[t]
  BY <1>1
<1>6. FrameResult(frame[t][p])'
  BY <1>3, <1>4, <1>5 DEF FrameResult, Valued, SameWork
<1>7. \A u \in Callers, d \in Depths : u # t \/ d # p => SameResult(frame'[u][d], frame[u][d])
  BY <1>3, <1>5, MovesResults
<1> QED
  BY <1>5, <1>6, <1>7, ResultFrame

LEMMA ResultNext ==
    ASSUME TypeOK, StackOK, ClaimsHeld, NothingMade, ResultOK, [Next]_vars
    PROVE  ResultOK'
<1> USE DEF storageVars, ghostVars
<1>a. ASSUME NEW t \in Callers, depth[t] > 0, NEW kind \in Outcomes, Return(t, kind),
             UNCHANGED made
      PROVE  ResultOK'
  BY <1>a, ReturnResults, ResultQuiet
<1>b. ASSUME NEW t \in Callers, depth[t] > 0, NEW pc \in PCs \ {"store", "unclaim"}, Go(t, pc),
             UNCHANGED made
      PROVE  ResultOK'
  <2>1. Moves(t, depth[t]) /\ frame'[t][depth[t]].pc = pc /\ depth[t] \in Depths
    BY <1>b, GoEffect, TopIsFrame
  <2> QED
    BY <1>b, <2>1, MovesResults, ResultQuiet
<1>d. ASSUME UNCHANGED <<made, frame>> PROVE ResultOK'
  BY <1>d DEF ResultOK, FrameResult, Valued
<1>1. CASE UNCHANGED vars
  BY <1>1, <1>d DEF vars
<1>2. ASSUME NEW t \in Callers, Call(t) PROVE ResultOK'
  <2>1. PICK e \in Entries : frame' = [frame EXCEPT ![t][1] = Opened(e)]
    BY <1>2 DEF Call
  <2>2. PICK p \in Depths : p = 1
    BY ConstantsAssumption
  <2>3. frame'[t][p] = Opened(e)
        /\ \A u \in Callers, i \in Depths : u # t \/ i # p => frame'[u][i] = frame[u][i]
    BY <2>1, <2>2 DEF TypeOK
  <2>4. /\ frame'[t][p].pc = "read"
        /\ \A u \in Callers, i \in Depths :
              u # t \/ i # p => SameResult(frame'[u][i], frame[u][i])
    BY <2>3, OpenedIsFrame DEF SameResult, SameCall
  <2> QED
    BY <1>2, <2>4, ResultQuiet DEF Call
<1>3. ASSUME NEW t \in Callers, CallDependency(t) PROVE ResultOK'
  <2>1. PICK e \in Top(t).todo :
           frame' = [frame EXCEPT ![t][depth[t]].todo = @ \ {e}, ![t][depth[t] + 1] = Opened(e)]
    BY <1>3 DEF CallDependency
  <2>2. depth[t] > 0 /\ depth[t] < MaxDepth
    BY <1>3 DEF CallDependency, At
  <2>3. e \in Entries
    BY <2>1, <2>2, TopInPlace DEF Frame
  <2>4. /\ depth[t] + 1 \in Depths /\ frame'[t][depth[t] + 1] = Opened(e)
        /\ OthersSame(t, depth[t] + 1) /\ Pushes(t, depth[t] + 1)
    BY <2>1, <2>2, <2>3, PushFrames
  <2>5. /\ frame'[t][depth[t] + 1].pc = "read"
        /\ \A u \in Callers, i \in Depths :
              u # t \/ i # depth[t] + 1 => SameResult(frame'[u][i], frame[u][i])
    BY <2>3, <2>4, OpenedIsFrame DEF SameResult, OthersSame, Pushes, Spares
  <2> QED
    BY <1>3, <2>4, <2>5, ResultQuiet DEF CallDependency
<1>4. ASSUME NEW t \in Callers, Read(t) \/ Reread(t) PROVE ResultOK'
  <2>1. depth[t] > 0 /\ UNCHANGED made
    BY <1>4 DEF Read, Reread, At
  <2>2. CASE \E kind \in Outcomes : Return(t, kind)
    BY <1>a, <2>1, <2>2
  <2>3. CASE Miss(t)
    BY <1>b, <2>1, <2>3 DEF Miss, PCs, Computing
  <2>4. CASE current # None /\ SetTop(t, [Top(t) EXCEPT !.act = current, !.pc = "reread"])
    <3>1. Moves(t, depth[t]) /\ frame'[t][depth[t]].pc = "reread" /\ depth[t] \in Depths
      BY <2>1, <2>4, RereadEffect, TopIsFrame
    <3> QED
      BY <2>1, <3>1, MovesResults, ResultQuiet
  <2> QED
    BY <1>4, <2>2, <2>3, <2>4 DEF Read, Reread, Outcomes
<1>5. ASSUME NEW t \in Callers, TryClaim(t) \/ Wake(t) \/ CancelWait(t) PROVE ResultOK'
  <2>1. depth[t] > 0 /\ UNCHANGED made
    BY <1>5 DEF TryClaim, Watch, Wake, CancelWait, At
  <2>2. CASE \E kind \in Outcomes : Return(t, kind)
    BY <1>a, <2>1, <2>2
  <2>3. CASE \E pc \in {"wait", "compute", "lock"} : Go(t, pc)
    BY <1>b, <2>1, <2>3 DEF PCs, Computing
  <2> QED
    BY <1>5, <2>2, <2>3 DEF TryClaim, Watch, Wake, CancelWait, Outcomes
<1>6. ASSUME NEW t \in Callers, Fail(t) PROVE ResultOK'
  <2>1. depth[t] > 0 /\ Before(Top(t)) /\ UNCHANGED made
    BY <1>6 DEF Fail, At, Before
  <2>2. SetTop(t, [Top(t) EXCEPT !.pc = "unclaim", !.result = "Failed"])
    BY <1>6 DEF Fail
  <2> QED
    BY <2>1, <2>2, ResultEnd
<1>7. ASSUME NEW t \in Callers, Compute(t) PROVE ResultOK'
  <2>1. depth[t] > 0 /\ Before(Top(t))
    BY <1>7 DEF Compute, At, Before
  <2>2. CASE Top(t).entry \in Resources
    BY <1>7, <1>b, <2>1, <2>2 DEF Compute, PCs, Computing
  <2>3. CASE Top(t).entry \notin Resources
    BY <1>7, <2>1, <2>3, ResultSuccess DEF Compute
  <2> QED
    BY <2>2, <2>3
<1>8. ASSUME NEW t \in Callers, Register(t) \/ AppendContext(t) PROVE ResultOK'
  <2>1. depth[t] > 0 /\ Before(Top(t))
    BY <1>8 DEF Register, AppendContext, At, Before
  <2>2. CASE /\ UNCHANGED made
             /\ \E kind \in {"Ended", "IndexError"} :
                   SetTop(t, [Top(t) EXCEPT !.pc = "unclaim", !.result = kind])
    BY <2>1, <2>2, ResultEnd
  <2>3. CASE UNCHANGED made /\ Go(t, "append")
    BY <1>b, <2>1, <2>3 DEF PCs, Computing
  <2>4. CASE Go(t, "store") /\ made' = Inc(made, Top(t))
    BY <2>1, <2>4, ResultSuccess
  <2> QED
    BY <1>8, <2>2, <2>3, <2>4 DEF Register, AppendContext
<1>9. ASSUME NEW t \in Callers, Store(t) PROVE ResultOK'
  <2>1. depth[t] > 0 /\ Top(t).pc = "store" /\ UNCHANGED made
    BY <1>9 DEF Store, At
  <2>2. SetTop(t, [Top(t) EXCEPT !.pc = "unclaim", !.result = "value"])
    BY <1>9 DEF Store
  <2> QED
    BY <2>1, <2>2, ResultEnd
<1>10. ASSUME NEW t \in Callers, Unclaim(t) PROVE ResultOK'
  <2>1. depth[t] > 0 /\ Top(t).result \in Outcomes
    BY <1>10, TopIsFrame DEF Unclaim, At, Frame
  <2> QED
    BY <1>10, <2>1, <1>a DEF Unclaim
<1>11. ASSUME NEW a \in Activations, Activate(a) \/ End(a) \/ Closing(a) PROVE ResultOK'
  BY <1>11, <1>d DEF Activate, End, Closing, Clear, ExitNext, Drained
<1> QED
  BY <1>1, <1>2, <1>3, <1>4, <1>5, <1>6, <1>7, <1>8, <1>9, <1>10, <1>11 DEF Next, Step

-----------------------------------------------------------------------------
(* What the memo sees of a stack                                           *)

CallViews == [entry : Entries \cup {None}, act : Activations \cup {None}, computing : BOOLEAN]

\* The view of one caller's stack; MemoCalls[t] is its value.
StackOf(t) == [d \in 1..depth[t] |-> ViewOf(frame[t][d])]

LEMMA ViewType ==
    ASSUME NEW f \in Frame
    PROVE  ViewOf(f) \in CallViews
BY DEF ViewOf, CallViews, Frame

LEMMA SameView ==
    ASSUME NEW f, NEW g, SameCall(f, g)
    PROVE  ViewOf(f) = ViewOf(g)
BY DEF SameCall, ViewOf

LEMMA StackSeq ==
    ASSUME TypeOK, NEW t \in Callers
    PROVE  /\ depth[t] \in Nat /\ 1..depth[t] \subseteq Depths
           /\ MemoCalls[t] = StackOf(t)
           /\ StackOf(t) \in Seq(CallViews)
           /\ Len(StackOf(t)) = depth[t] /\ DOMAIN StackOf(t) = 1..depth[t]
           /\ \A d \in 1..depth[t] : StackOf(t)[d] = ViewOf(frame[t][d])
<1>1. depth[t] \in Nat /\ 1..depth[t] \subseteq Depths
  BY ConstantsAssumption DEF TypeOK
<1>2. \A d \in 1..depth[t] : ViewOf(frame[t][d]) \in CallViews
  <2>1. frame \in [Callers -> [Depths -> Frame]]
    BY DEF TypeOK
  <2>2. \A d \in 1..depth[t] : frame[t][d] \in Frame
    BY <1>1, <2>1
  <2> HIDE DEF CallViews
  <2> QED
    BY <2>2, ViewType
<1> HIDE DEF CallViews
<1>3. StackOf(t) \in [1..depth[t] -> CallViews]
  BY <1>2 DEF StackOf
<1>4. StackOf(t) \in Seq(CallViews) /\ Len(StackOf(t)) = depth[t]
  BY <1>1, <1>3
<1>5. MemoCalls[t] = StackOf(t)
  BY DEF MemoCalls, StackOf
<1> QED
  BY <1>1, <1>3, <1>4, <1>5 DEF StackOf

\* The last call the memo sees is the running one.
LEMMA MemoTop ==
    ASSUME TypeOK, NEW t \in Callers
    PROVE  /\ Len(MemoCalls[t]) = depth[t]
           /\ MemoCalls[t] = <<>> <=> depth[t] = 0
           /\ depth[t] > 0 => /\ Memo!Running(t) = ViewOf(Top(t))
                              /\ Memo!Running(t).entry = Top(t).entry
                              /\ Memo!Running(t).act = Top(t).act
                              /\ Memo!Running(t).computing = (Top(t).pc \in Computing)
<1>1. /\ depth[t] \in Nat /\ MemoCalls[t] = StackOf(t) /\ StackOf(t) \in Seq(CallViews)
      /\ Len(StackOf(t)) = depth[t]
      /\ \A d \in 1..depth[t] : StackOf(t)[d] = ViewOf(frame[t][d])
  BY StackSeq
<1>2. MemoCalls[t] = <<>> <=> depth[t] = 0
  <2> HIDE DEF CallViews
  <2> QED  BY <1>1, EmptySeq
<1>3. depth[t] > 0 => Memo!Running(t) = ViewOf(Top(t))
  BY <1>1 DEF Memo!Running, Top
<1> QED
  BY <1>1, <1>2, <1>3 DEF ViewOf

\* Two stacks are equal for the memo when they are as deep and each call looks the same.
LEMMA StackEqual ==
    ASSUME TypeOK, TypeOK', NEW u \in Callers, depth'[u] = depth[u],
           \A d \in 1..depth[u] : ViewOf(frame'[u][d]) = ViewOf(frame[u][d])
    PROVE  MemoCalls'[u] = MemoCalls[u]
BY DEF MemoCalls

LEMMA MemoCallsFcn ==
    /\ MemoCalls = [t \in Callers |-> MemoCalls[t]]
    /\ MemoCalls' = [t \in Callers |-> MemoCalls'[t]]
BY DEF MemoCalls

LEMMA CallsSame ==
    ASSUME TypeOK, TypeOK', UNCHANGED depth,
           \A u \in Callers, d \in Depths : ViewOf(frame'[u][d]) = ViewOf(frame[u][d])
    PROVE  MemoCalls' = MemoCalls
<1>1. \A u \in Callers : MemoCalls'[u] = MemoCalls[u]
  BY StackEqual, StackSeq
<1> QED
  BY <1>1, MemoCallsFcn

\* The stacks of the callers that take no step.
LEMMA OthersCalls ==
    ASSUME TypeOK, TypeOK', NEW t \in Callers, NEW p, OthersSame(t, p),
           \A u \in Callers \ {t} : depth'[u] = depth[u]
    PROVE  \A u \in Callers \ {t} : MemoCalls'[u] = MemoCalls[u]
<1> SUFFICES ASSUME NEW u \in Callers \ {t} PROVE MemoCalls'[u] = MemoCalls[u]
  OBVIOUS
<1>1. \A d \in 1..depth[u] : ViewOf(frame'[u][d]) = ViewOf(frame[u][d])
  BY SameView, StackSeq DEF OthersSame
<1> QED
  BY <1>1, StackEqual

LEMMA OneCallsChange ==
    ASSUME NEW t \in Callers, NEW s, MemoCalls'[t] = s,
           \A u \in Callers \ {t} : MemoCalls'[u] = MemoCalls[u]
    PROVE  MemoCalls' = [MemoCalls EXCEPT ![t] = s]
<1> PICK F : F = MemoCalls
  OBVIOUS
<1> PICK G : G = MemoCalls'
  OBVIOUS
<1>1. F = [u \in Callers |-> F[u]] /\ G = [u \in Callers |-> G[u]]
  BY MemoCallsFcn
<1>2. G[t] = s /\ \A u \in Callers \ {t} : G[u] = F[u]
  OBVIOUS
<1>3. G = [F EXCEPT ![t] = s]
  BY <1>1, <1>2
<1> QED
  BY <1>3

\* The running call returns.
LEMMA CallsPop ==
    ASSUME TypeOK, TypeOK', NEW t \in Callers, depth[t] > 0,
           OthersSame(t, depth[t]), depth' = [depth EXCEPT ![t] = depth[t] - 1]
    PROVE  MemoCalls' = [MemoCalls EXCEPT ![t] = SubSeq(@, 1, Len(@) - 1)]
<1>1. /\ depth'[t] = depth[t] - 1 /\ \A u \in Callers \ {t} : depth'[u] = depth[u]
      /\ depth[t] \in Nat
  BY StackSeq DEF TypeOK
<1>2. \A u \in Callers \ {t} : MemoCalls'[u] = MemoCalls[u]
  BY <1>1, OthersCalls
<1>3. /\ MemoCalls[t] = StackOf(t) /\ StackOf(t) \in Seq(CallViews) /\ Len(StackOf(t)) = depth[t]
      /\ \A d \in 1..depth[t] : StackOf(t)[d] = ViewOf(frame[t][d])
      /\ 1..depth[t] \subseteq Depths
  BY StackSeq
<1>4. MemoCalls'[t] = [d \in 1..(depth[t] - 1) |-> StackOf(t)[d]]
  <2>1. MemoCalls'[t] = [d \in 1..(depth[t] - 1) |-> ViewOf(frame'[t][d])]
    BY <1>1 DEF MemoCalls
  <2>2. \A d \in 1..(depth[t] - 1) : d \in 1..depth[t] /\ d # depth[t]
    BY <1>1
  <2>3. \A d \in 1..(depth[t] - 1) : ViewOf(frame'[t][d]) = StackOf(t)[d]
    BY <1>3, <2>2, SameView DEF OthersSame
  <2> QED
    BY <2>1, <2>3
<1>5. SubSeq(StackOf(t), 1, depth[t] - 1) = [d \in 1..(depth[t] - 1) |-> StackOf(t)[d]]
  <2> HIDE DEF CallViews, StackOf
  <2> QED  BY <1>1, <1>3
<1>6. MemoCalls'[t] = SubSeq(MemoCalls[t], 1, Len(MemoCalls[t]) - 1)
  BY <1>3, <1>4, <1>5
<1> QED
  BY <1>2, <1>6, OneCallsChange, MemoCallsFcn

\* The running call moves.
LEMMA CallsTop ==
    ASSUME TypeOK, TypeOK', NEW t \in Callers, depth[t] > 0, UNCHANGED depth,
           OthersSame(t, depth[t]), NEW v, v = ViewOf(frame'[t][depth[t]])
    PROVE  /\ MemoCalls' = [MemoCalls EXCEPT ![t][Len(MemoCalls[t])] = v]
           /\ v = ViewOf(Top(t)) => MemoCalls' = MemoCalls
<1>1. \A u \in Callers \ {t} : MemoCalls'[u] = MemoCalls[u]
  BY OthersCalls
<1>2. /\ MemoCalls[t] = StackOf(t) /\ StackOf(t) \in Seq(CallViews) /\ Len(StackOf(t)) = depth[t]
      /\ \A d \in 1..depth[t] : StackOf(t)[d] = ViewOf(frame[t][d])
      /\ 1..depth[t] \subseteq Depths /\ depth[t] \in Nat
  BY StackSeq
<1>3. MemoCalls'[t] = [d \in 1..depth[t] |-> IF d = depth[t] THEN v ELSE StackOf(t)[d]]
  <2>1. MemoCalls'[t] = [d \in 1..depth[t] |-> ViewOf(frame'[t][d])]
    BY DEF MemoCalls
  <2>2. \A d \in 1..depth[t] :
           ViewOf(frame'[t][d]) = IF d = depth[t] THEN v ELSE StackOf(t)[d]
    BY <1>2, SameView DEF OthersSame
  <2> QED
    BY <2>1, <2>2
<1>4. [StackOf(t) EXCEPT ![depth[t]] = v]
         = [d \in 1..depth[t] |-> IF d = depth[t] THEN v ELSE StackOf(t)[d]]
  BY <1>2 DEF StackOf
<1>5. MemoCalls'[t] = [MemoCalls[t] EXCEPT ![Len(MemoCalls[t])] = v]
  BY <1>2, <1>3, <1>4
<1>6. MemoCalls' = [MemoCalls EXCEPT ![t] = [MemoCalls[t] EXCEPT ![Len(MemoCalls[t])] = v]]
  BY <1>1, <1>5, OneCallsChange
<1>7. MemoCalls' = [MemoCalls EXCEPT ![t][Len(MemoCalls[t])] = v]
  BY <1>6, MemoCallsFcn
<1>8. ASSUME v = ViewOf(Top(t)) PROVE MemoCalls' = MemoCalls
  <2>1. \A d \in 1..depth[t] : ViewOf(frame'[t][d]) = ViewOf(frame[t][d])
    BY <1>2, <1>8, SameView DEF OthersSame, Top
  <2>2. MemoCalls'[t] = MemoCalls[t]
    BY <2>1, StackEqual
  <2> QED
    BY <1>1, <2>2, MemoCallsFcn
<1> QED
  BY <1>7, <1>8

LEMMA PushedCalls ==
    ASSUME NEW S, NEW s \in Seq(S), NEW v \in S, NEW p, p = Len(s) + 1
    PROVE  Append(s, v) = [d \in 1..p |-> IF d = p THEN v ELSE s[d]]
<1>1. /\ Append(s, v) \in Seq(S) /\ Len(Append(s, v)) = p
      /\ \A d \in 1..Len(s) : Append(s, v)[d] = s[d]
      /\ Append(s, v)[p] = v
  BY AppendProperties
<1>2. Append(s, v) = [d \in 1..p |-> Append(s, v)[d]]
  <2>1. Append(s, v) \in [1..p -> S]
    BY <1>1, LenProperties
  <2> QED
    BY <2>1
<1>3. \A d \in 1..p : d # p => d \in 1..Len(s)
  BY LenProperties
<1>4. \A d \in 1..p : Append(s, v)[d] = IF d = p THEN v ELSE s[d]
  BY <1>1, <1>3
<1> QED
  BY <1>2, <1>4

\* A call is made.
LEMMA CallsPush ==
    ASSUME TypeOK, TypeOK', NEW t \in Callers, NEW p \in Depths, p = depth[t] + 1,
           depth' = [depth EXCEPT ![t] = p], OthersSame(t, p)
    PROVE  MemoCalls' = [MemoCalls EXCEPT ![t] = Append(@, ViewOf(frame'[t][p]))]
<1>1. /\ depth'[t] = p /\ \A u \in Callers \ {t} : depth'[u] = depth[u]
  BY DEF TypeOK
<1>2. \A u \in Callers \ {t} : MemoCalls'[u] = MemoCalls[u]
  BY <1>1, OthersCalls
<1>3. /\ MemoCalls[t] = StackOf(t) /\ StackOf(t) \in Seq(CallViews) /\ Len(StackOf(t)) = depth[t]
      /\ \A d \in 1..depth[t] : StackOf(t)[d] = ViewOf(frame[t][d])
      /\ 1..depth[t] \subseteq Depths /\ depth[t] \in Nat
  BY StackSeq
<1> DEFINE v == ViewOf(frame'[t][p])
<1>4. MemoCalls'[t] = [d \in 1..p |-> IF d = p THEN v ELSE StackOf(t)[d]]
  <2>1. MemoCalls'[t] = [d \in 1..p |-> ViewOf(frame'[t][d])]
    BY <1>1 DEF MemoCalls
  <2>2. \A d \in 1..p : d # p => d \in 1..depth[t]
    BY <1>3
  <2>3. \A d \in 1..p : ViewOf(frame'[t][d]) = IF d = p THEN v ELSE StackOf(t)[d]
    BY <1>3, <2>2, SameView DEF OthersSame
  <2> QED
    BY <2>1, <2>3
<1>5. v \in CallViews
  <2>1. frame'[t][p] \in Frame
    <3>1. frame' \in [Callers -> [Depths -> Frame]]
      BY DEF TypeOK
    <3> QED
      BY <3>1, Zenon
  <2> HIDE DEF CallViews
  <2> QED
    BY <2>1, ViewType
<1>6. Append(StackOf(t), v) = [d \in 1..p |-> IF d = p THEN v ELSE StackOf(t)[d]]
  BY <1>3, <1>5, PushedCalls
<1>7. MemoCalls'[t] = Append(MemoCalls[t], v)
  BY <1>3, <1>4, <1>6
<1> QED
  BY <1>2, <1>7, OneCallsChange, MemoCallsFcn

-----------------------------------------------------------------------------
(* Each step is one of the memo's, or none it sees                         *)

Kind(outcomeKind) == IF outcomeKind \in {"none", "value"} THEN outcomeKind ELSE "error"

LEMMA MemoLifeSame ==
    ASSUME UNCHANGED phase
    PROVE  MemoLife' = MemoLife
BY DEF MemoLife, Emptied

LEMMA MemoAnswerSame ==
    ASSUME UNCHANGED outcome
    PROVE  MemoAnswer' = MemoAnswer
BY DEF MemoAnswer

LEMMA MemoAnswerSet ==
    ASSUME TypeOK, NEW t \in Callers, NEW kind,
           outcome' = [outcome EXCEPT ![t] = kind]
    PROVE  MemoAnswer' = [MemoAnswer EXCEPT ![t] = Kind(kind)]
BY DEF TypeOK, MemoAnswer, Kind

LEMMA MemoUsable ==
    ASSUME TypeOK, NEW a \in Activations \cup {None}
    PROVE  Memo!Usable(a) <=> Readable(a)
BY ConstantsAssumption DEF TypeOK, Phases, Memo!Usable, Readable, MemoLife, Emptied

LEMMA MemoWaiting ==
    ASSUME TypeOK, NEW t \in Callers, depth[t] > 0
    PROVE  IF Top(t).pc \in Computing THEN Memo!Working(t) ELSE Memo!Waiting(t)
<1>1. /\ MemoCalls[t] # <<>>
      /\ Memo!Running(t).computing = (Top(t).pc \in Computing)
  BY MemoTop
<1>2. CASE Top(t).pc \in Computing
  <2>1. Memo!Working(t)
    BY <1>1, <1>2, Zenon DEF Memo!Working
  <2> QED
    BY <1>2, <2>1
<1>3. CASE Top(t).pc \notin Computing
  <2>1. Memo!Waiting(t)
    BY <1>1, <1>3, Zenon DEF Memo!Waiting
  <2> QED
    BY <1>3, <2>1
<1> QED
  BY <1>2, <1>3

\* A return is an answer.
LEMMA MemoReturn ==
    ASSUME TypeOK, TypeOK', StackOK, NEW t \in Callers, depth[t] > 0,
           NEW kind \in Outcomes, Return(t, kind), UNCHANGED <<storageVars, cached, made>>
    PROVE  Memo!Answer(t, Kind(kind))
<1>1. /\ OthersSame(t, depth[t])
      /\ depth' = [depth EXCEPT ![t] = depth[t] - 1]
      /\ outcome' = [outcome EXCEPT ![t] = kind]
  BY ReturnFrames DEF Return
<1>2. MemoCalls' = [MemoCalls EXCEPT ![t] = SubSeq(@, 1, Len(@) - 1)]
  BY <1>1, CallsPop
<1>3. MemoAnswer' = [MemoAnswer EXCEPT ![t] = Kind(kind)]
  BY <1>1, MemoAnswerSet
<1>4. MemoLife' = MemoLife
  BY MemoLifeSame DEF storageVars
<1> QED
  BY <1>2, <1>3, <1>4 DEF Memo!Answer, storageVars

\* A frame turns to activation x, or begins its computation.
LEMMA ViewChanges ==
    ASSUME NEW f, NEW g, g.entry = f.entry
    PROVE  /\ (g.pc \in Computing) = (f.pc \in Computing)
                 => ViewOf(g) = [ViewOf(f) EXCEPT !.act = g.act]
           /\ g.act = f.act /\ (g.pc \in Computing) = TRUE
                 => ViewOf(g) = [ViewOf(f) EXCEPT !.computing = TRUE]
<1>1. \A x : [ViewOf(f) EXCEPT !.act = x]
               = [entry |-> f.entry, act |-> x, computing |-> f.pc \in Computing]
  BY DEF ViewOf
<1>2. \A x : [ViewOf(f) EXCEPT !.computing = x]
               = [entry |-> f.entry, act |-> f.act, computing |-> x]
  BY DEF ViewOf
<1>3. ASSUME (g.pc \in Computing) = (f.pc \in Computing)
      PROVE  ViewOf(g) = [ViewOf(f) EXCEPT !.act = g.act]
  BY <1>1, <1>3, Zenon DEF ViewOf
<1>4. ASSUME g.act = f.act, (g.pc \in Computing) = TRUE
      PROVE  ViewOf(g) = [ViewOf(f) EXCEPT !.computing = TRUE]
  BY <1>2, <1>4, Zenon DEF ViewOf
<1> QED
  BY <1>3, <1>4

\* A frame that moves without a change to its view.
LEMMA MemoUnseen ==
    ASSUME TypeOK, TypeOK', NEW t \in Callers, depth[t] > 0,
           UNCHANGED <<current, phase, cached, made, outcome, depth>>,
           OthersSame(t, depth[t]), ViewOf(frame'[t][depth[t]]) = ViewOf(Top(t))
    PROVE  UNCHANGED Memo!memoVars
BY CallsTop, MemoLifeSame, MemoAnswerSame DEF Memo!memoVars

\* The running call goes on within, or before, its computation.
LEMMA MemoGo ==
    ASSUME TypeOK, TypeOK', NEW t \in Callers, depth[t] > 0, NEW pc \in PCs, Go(t, pc),
           UNCHANGED <<current, phase, cached, made, outcome, depth>>,
           pc \in Computing <=> Top(t).pc \in Computing
    PROVE  UNCHANGED Memo!memoVars
<1>1. /\ OthersSame(t, depth[t]) /\ frame'[t][depth[t]].pc = pc
      /\ SameWork(frame'[t][depth[t]], Top(t))
  BY GoEffect
<1>2. ViewOf(frame'[t][depth[t]]) = ViewOf(Top(t))
  BY <1>1 DEF ViewOf, SameWork
<1> QED
  BY <1>1, <1>2, MemoUnseen

\* A call is asked for: from outside, or by the running computation.
LEMMA MemoAsk ==
    ASSUME TypeOK, TypeOK', StackOK, NEW t \in Callers, Call(t) \/ CallDependency(t)
    PROVE  Memo!Ask(t)
<1> USE DEF storageVars, ghostVars
<1>1. PICK e \in Entries, p \in Depths :
         /\ p = depth[t] + 1 /\ depth' = [depth EXCEPT ![t] = p]
         /\ frame'[t][p] = Opened(e) /\ OthersSame(t, p)
  <2>1. CASE Call(t)
    <3>1. PICK e \in Entries : frame' = [frame EXCEPT ![t][1] = Opened(e)]
      BY <2>1 DEF Call
    <3>2. PICK p \in Depths : p = 1
      BY ConstantsAssumption
    <3>3. frame'[t][p] = Opened(e)
          /\ \A u \in Callers, i \in Depths : u # t \/ i # p => frame'[u][i] = frame[u][i]
      BY <3>1, <3>2 DEF TypeOK
    <3>4. p = depth[t] + 1 /\ depth' = [depth EXCEPT ![t] = p]
      BY <2>1, <3>2 DEF Call
    <3>5. OthersSame(t, p)
      BY <3>3 DEF OthersSame, SameCall
    <3> QED
      BY <3>3, <3>4, <3>5
  <2>2. CASE CallDependency(t)
    <3>1. PICK e \in Top(t).todo :
             frame' = [frame EXCEPT ![t][depth[t]].todo = @ \ {e},
                                    ![t][depth[t] + 1] = Opened(e)]
      BY <2>2 DEF CallDependency
    <3>2. /\ depth[t] > 0 /\ depth[t] < MaxDepth
          /\ depth' = [depth EXCEPT ![t] = depth[t] + 1]
      BY <2>2 DEF CallDependency, At
    <3>3. e \in Entries
      BY <3>1, <3>2, TopInPlace DEF Frame
    <3>4. /\ depth[t] + 1 \in Depths /\ frame'[t][depth[t] + 1] = Opened(e)
          /\ OthersSame(t, depth[t] + 1)
      BY <3>1, <3>2, <3>3, PushFrames
    <3> QED
      BY <3>2, <3>3, <3>4
  <2> QED
    BY <2>1, <2>2
<1>2. ViewOf(frame'[t][p]) = [entry |-> e, act |-> current, computing |-> FALSE]
  <2>1. Opened(e).pc = "read" /\ Opened(e).entry = e /\ Opened(e).act = current
    BY OpenedIsFrame
  <2>2. ("read" \in Computing) = FALSE
    BY DEF Computing
  <2> QED
    BY <1>1, <2>1, <2>2, Zenon DEF ViewOf
<1>3. MemoCalls' = [MemoCalls EXCEPT ![t] = Append(@, [entry |-> e, act |-> current,
                                                      computing |-> FALSE])]
  BY <1>1, <1>2, CallsPush
<1>4. UNCHANGED <<current, phase, cached, made>> /\ MemoLife' = MemoLife
  BY MemoLifeSame DEF Call, CallDependency
<1>5. MemoCalls[t] # <<>> => Memo!Running(t).computing
  BY MemoTop DEF Call, CallDependency, At, Computing
<1>6. MemoAnswer' = IF MemoCalls[t] = <<>> THEN [MemoAnswer EXCEPT ![t] = "none"] ELSE MemoAnswer
  <2>1. CASE Call(t)
    <3>1. outcome' = [outcome EXCEPT ![t] = "none"] /\ MemoCalls[t] = <<>>
      BY <2>1, MemoTop DEF Call
    <3> QED
      BY <3>1, MemoAnswerSet DEF Kind
  <2>2. CASE CallDependency(t)
    <3>1. UNCHANGED outcome /\ depth[t] > 0
      BY <2>2 DEF CallDependency, At
    <3>2. MemoCalls[t] # <<>>
      BY <3>1, MemoTop
    <3> QED
      BY <3>1, <3>2, MemoAnswerSame
  <2> QED
    BY <2>1, <2>2
<1> QED
  BY <1>3, <1>4, <1>5, <1>6 DEF Memo!Ask

\* A value is handed out of storage in use.
LEMMA MemoServe ==
    ASSUME TypeOK, TypeOK', StackOK, NEW t \in Callers, depth[t] > 0,
           Top(t).pc \notin Computing, Readable(Top(t).act), Top(t).entry \in cached[Top(t).act],
           Return(t, "value"), UNCHANGED <<storageVars, cached, made>>
    PROVE  Memo!MemoNext
<1>1. Top(t).act \in Activations \cup {None}
  BY TopInPlace DEF Frame
<1>2. Memo!Waiting(t) /\ Memo!Usable(Memo!Running(t).act)
      /\ Memo!Running(t).entry \in cached[Memo!Running(t).act]
  BY <1>1, MemoWaiting, MemoTop, MemoUsable
<1>3. Memo!Answer(t, "value")
  <2>1. "value" \in Outcomes /\ Kind("value") = "value"
    BY DEF Outcomes, Kind
  <2> QED
    BY <2>1, MemoReturn
<1>4. Memo!Serve(t)
  BY <1>2, <1>3 DEF Memo!Serve
<1> QED
  BY <1>4 DEF Memo!MemoNext

LEMMA MemoRefuse ==
    ASSUME TypeOK, TypeOK', StackOK, NEW t \in Callers, depth[t] > 0,
           Top(t).pc \notin Computing, NEW kind \in Outcomes \ {"none", "value"},
           Return(t, kind), UNCHANGED <<storageVars, cached, made>>
    PROVE  Memo!MemoNext
<1>1. Memo!Answer(t, "error")
  <2>1. Kind(kind) = "error" /\ kind \in Outcomes
    BY DEF Kind
  <2> QED
    BY <2>1, MemoReturn
<1>2. Memo!Refuse(t)
  BY <1>1, MemoWaiting DEF Memo!Refuse
<1> QED
  BY <1>2 DEF Memo!MemoNext

LEMMA MemoReads ==
    ASSUME TypeOK, TypeOK', StackOK, NEW t \in Callers, Read(t) \/ Reread(t)
    PROVE  Memo!MemoNext
<1> USE DEF storageVars, ghostVars
<1>1. /\ depth[t] > 0 /\ Top(t).pc \in {"read", "reread"} /\ Top(t).pc \notin Computing
      /\ UNCHANGED <<storageVars, cached, made>>
  BY DEF Read, Reread, At, Computing
<1>2. CASE Readable(Top(t).act) /\ Top(t).entry \in cached[Top(t).act] /\ Return(t, "value")
  BY <1>1, <1>2, MemoServe
<1>3. CASE \E kind \in Outcomes \ {"none", "value"} : Return(t, kind)
  BY <1>1, <1>3, MemoRefuse
<1>4. CASE Miss(t)
  <2>1. "lock" \in PCs /\ "lock" \notin Computing
    BY DEF PCs, Computing
  <2>2. UNCHANGED Memo!memoVars
    BY <1>1, <1>4, <2>1, MemoGo DEF Miss
  <2> QED
    BY <2>2 DEF Memo!MemoNext
<1>5. CASE /\ ~Readable(Top(t).act) /\ current # None /\ UNCHANGED <<depth, outcome>>
           /\ SetTop(t, [Top(t) EXCEPT !.act = current, !.pc = "reread"])
  <2> DEFINE f == [Top(t) EXCEPT !.act = current, !.pc = "reread"]
  <2>1. Top(t) \in Frame /\ current \in Activations /\ Top(t).act \in Activations \cup {None}
    BY <1>1, <1>5, TopInPlace DEF TypeOK, Frame
  <2>2. f \in Frame /\ ViewOf(f) = [ViewOf(Top(t)) EXCEPT !.act = current]
    <3>1. /\ f \in Frame /\ f.pc = "reread" /\ f.act = current /\ f.entry = Top(t).entry
      BY <2>1 DEF Frame, PCs
    <3>2. (f.pc \in Computing) = FALSE /\ (Top(t).pc \in Computing) = FALSE
      BY <1>1, <3>1 DEF Computing
    <3>3. ViewOf(f) = [ViewOf(Top(t)) EXCEPT !.act = f.act]
      <4> HIDE DEF f
      <4> QED  BY <3>1, <3>2, ViewChanges
    <3> QED
      BY <3>1, <3>3, Zenon
  <2>3. frame'[t][depth[t]] = f /\ OthersSame(t, depth[t])
    BY <1>1, <1>5, <2>2, MoveEffect
  <2> HIDE DEF f
  <2>4. MemoCalls' = [MemoCalls EXCEPT ![t][Len(MemoCalls[t])]
                                          = [Memo!Running(t) EXCEPT !.act = current]]
    BY <1>1, <1>5, <2>2, <2>3, CallsTop, MemoTop
  <2>5. Memo!Waiting(t) /\ ~Memo!Usable(Memo!Running(t).act)
    BY <1>1, <1>5, <2>1, MemoWaiting, MemoTop, MemoUsable
  <2>6. MemoLife' = MemoLife /\ MemoAnswer' = MemoAnswer
    BY <1>1, <1>5, MemoLifeSame, MemoAnswerSame
  <2>7. Memo!Turn(t)
    BY <1>1, <1>5, <2>4, <2>5, <2>6 DEF Memo!Turn, Memo!Become
  <2> QED
    BY <2>7 DEF Memo!MemoNext
<1>6. CASE Read(t)
  <2>1. \/ Readable(Top(t).act) /\ Top(t).entry \in cached[Top(t).act] /\ Return(t, "value")
        \/ Miss(t)
        \/ Return(t, "Inactive")
        \/ /\ ~Readable(Top(t).act) /\ current # None /\ UNCHANGED <<depth, outcome>>
           /\ SetTop(t, [Top(t) EXCEPT !.act = current, !.pc = "reread"])
    BY <1>6 DEF Read
  <2>2. "Inactive" \in Outcomes \ {"none", "value"}
    BY DEF Outcomes
  <2> QED
    BY <1>2, <1>3, <1>4, <1>5, <2>1, <2>2
<1>7. CASE Reread(t)
  <2>1. \/ /\ ~Emptied(Top(t).act) /\ Top(t).entry \in cached[Top(t).act] /\ Return(t, "value")
           /\ Top(t).pc = "reread"
        \/ Miss(t)
        \/ \E error \in {"Ended", "IndexError"} : Return(t, error)
    BY <1>7 DEF Reread, At
  <2>2. {"Ended", "IndexError"} \subseteq Outcomes \ {"none", "value"}
    BY DEF Outcomes
  <2>3. Top(t).pc = "reread" /\ ~Emptied(Top(t).act) => Readable(Top(t).act)
    BY <1>1, TopInPlace, ConstantsAssumption DEF Readable
  <2> QED
    BY <1>2, <1>3, <1>4, <2>1, <2>2, <2>3
<1> QED
  BY <1>6, <1>7

\* The claim is taken: nobody computes the entry, for this activation or for another.
LEMMA MemoBegin ==
    ASSUME TypeOK, TypeOK', StackOK, ClaimsHeld, NEW t \in Callers, depth[t] > 0,
           Top(t).pc = "lock", ~Emptied(Top(t).act), Top(t).entry \notin cached[Top(t).act],
           claim[Top(t).entry] = None, Go(t, "compute"),
           UNCHANGED <<storageVars, cached, made, depth, outcome>>
    PROVE  Memo!Begin(t)
<1>1. /\ Top(t) \in Frame /\ Top(t).entry \in Entries /\ Top(t).act \in Activations
      /\ Top(t).pc \notin Computing
  BY TopInPlace DEF Computing
<1>2. /\ Memo!Waiting(t) /\ Memo!Usable(Memo!Running(t).act)
      /\ Memo!Running(t).entry \notin cached[Memo!Running(t).act]
  BY <1>1, ConstantsAssumption, MemoWaiting, MemoTop, MemoUsable DEF Readable
<1>3. ~Memo!UnderWay(Memo!Running(t).entry)
  <2>1. SUFFICES ASSUME NEW u \in Callers, NEW d \in DOMAIN MemoCalls[u],
                        MemoCalls[u][d].entry = Top(t).entry, MemoCalls[u][d].computing
                 PROVE  FALSE
    BY MemoTop DEF Memo!UnderWay
  <2>2. d \in Depths /\ MemoCalls[u][d] = ViewOf(frame[u][d])
    BY StackSeq
  <2>3. /\ MemoCalls[u][d].entry = frame[u][d].entry
        /\ MemoCalls[u][d].computing = (frame[u][d].pc \in Computing)
    BY <2>2 DEF ViewOf
  <2>4. frame[u][d].entry = Top(t).entry /\ frame[u][d].pc \in Computing
    BY <2>1, <2>3, Zenon
  <2> QED
    BY <2>2, <2>4, ConstantsAssumption DEF ClaimsHeld, Holds
<1>4. MemoCalls' = [MemoCalls EXCEPT ![t][Len(MemoCalls[t])]
                                        = [Memo!Running(t) EXCEPT !.computing = TRUE]]
  <2>1. "compute" \in PCs /\ ("compute" \in Computing) = TRUE
    BY DEF PCs, Computing
  <2>2. /\ OthersSame(t, depth[t]) /\ frame'[t][depth[t]].pc = "compute"
        /\ SameWork(frame'[t][depth[t]], Top(t))
    BY <2>1, GoEffect
  <2>3. ViewOf(frame'[t][depth[t]]) = [ViewOf(Top(t)) EXCEPT !.computing = TRUE]
    <3>1. /\ frame'[t][depth[t]].entry = Top(t).entry /\ frame'[t][depth[t]].act = Top(t).act
          /\ (frame'[t][depth[t]].pc \in Computing) = TRUE
      BY <2>1, <2>2 DEF SameWork
    <3> QED
      BY <3>1, ViewChanges
  <2>4. Memo!Running(t) = ViewOf(Top(t))
    BY MemoTop
  <2>5. ViewOf(frame'[t][depth[t]]) = [Memo!Running(t) EXCEPT !.computing = TRUE]
    BY <2>3, <2>4, Zenon
  <2> QED
    BY <2>2, <2>5, CallsTop
<1>5. MemoLife' = MemoLife /\ MemoAnswer' = MemoAnswer
  BY MemoLifeSame, MemoAnswerSame DEF storageVars
<1> QED
  BY <1>2, <1>3, <1>4, <1>5 DEF Memo!Begin, Memo!Become, storageVars

LEMMA MemoClaim ==
    ASSUME TypeOK, TypeOK', StackOK, ClaimsHeld, NEW t \in Callers,
           TryClaim(t) \/ Wake(t) \/ CancelWait(t)
    PROVE  Memo!MemoNext
<1> USE DEF storageVars, ghostVars
<1>1. /\ depth[t] > 0 /\ Top(t).pc \in {"lock", "wait"} /\ Top(t).pc \notin Computing
      /\ UNCHANGED <<storageVars, cached, made>>
  BY DEF TryClaim, Watch, Wake, CancelWait, At, Computing
<1>2. Top(t).act \in Activations /\ (Readable(Top(t).act) <=> ~Emptied(Top(t).act))
  BY <1>1, TopInPlace, ConstantsAssumption DEF Readable
<1>3. CASE /\ ~Emptied(Top(t).act) /\ Top(t).entry \in cached[Top(t).act]
           /\ Return(t, "value")
  BY <1>1, <1>2, <1>3, MemoServe
<1>4. CASE \E kind \in Outcomes \ {"none", "value"} : Return(t, kind)
  BY <1>1, <1>4, MemoRefuse
<1>5. CASE UNCHANGED <<depth, outcome>> /\ \E pc \in {"wait", "lock"} : Go(t, pc)
  <2>1. {"wait", "lock"} \subseteq PCs /\ {"wait", "lock"} \cap Computing = {}
    BY DEF PCs, Computing
  <2>2. UNCHANGED Memo!memoVars
    BY <1>1, <1>5, <2>1, MemoGo
  <2> QED
    BY <2>2 DEF Memo!MemoNext
<1>6. CASE /\ Top(t).pc = "lock" /\ ~Emptied(Top(t).act) /\ Top(t).entry \notin cached[Top(t).act]
           /\ claim[Top(t).entry] = None /\ Go(t, "compute") /\ UNCHANGED <<depth, outcome>>
  <2>1. Memo!Begin(t)
    BY <1>1, <1>6, MemoBegin
  <2> QED
    BY <2>1 DEF Memo!MemoNext
<1>7. {"IndexError", "Cycle", "Ended", "Cancelled"} \subseteq Outcomes \ {"none", "value"}
  BY DEF Outcomes
<1>8. CASE TryClaim(t)
  <2>1. \/ Return(t, "IndexError")
        \/ /\ ~Emptied(Top(t).act) /\ Top(t).entry \in cached[Top(t).act]
           /\ Return(t, "value")
        \/ /\ Top(t).pc = "lock" /\ ~Emptied(Top(t).act)
           /\ Top(t).entry \notin cached[Top(t).act]
           /\ claim[Top(t).entry] = None /\ Go(t, "compute") /\ UNCHANGED <<depth, outcome>>
        \/ Return(t, "Cycle")
        \/ Go(t, "wait") /\ UNCHANGED <<depth, outcome>>
    BY <1>8 DEF TryClaim, Watch, Recheck, At
  <2> QED
    BY <1>3, <1>4, <1>5, <1>6, <1>7, <2>1
<1>9. CASE Wake(t)
  <2>1. \/ Return(t, "Ended")
        \/ Go(t, "lock") /\ UNCHANGED <<depth, outcome>>
    BY <1>9 DEF Wake
  <2> QED
    BY <1>4, <1>5, <1>7, <2>1
<1>10. CASE CancelWait(t)
  <2>1. Return(t, "Cancelled")
    BY <1>10 DEF CancelWait
  <2> QED
    BY <1>4, <1>7, <2>1
<1> QED
  BY <1>8, <1>9, <1>10

\* The computation succeeds: the one value of its entry for its activation.
LEMMA MemoMake ==
    ASSUME TypeOK, TypeOK', StackOK, NothingMade, NEW t \in Callers, depth[t] > 0,
           Before(Top(t)), Go(t, "store"), made' = Inc(made, Top(t)),
           UNCHANGED <<current, phase, cached, depth, outcome>>
    PROVE  Memo!Make(t)
<1>1. /\ Top(t) \in Frame /\ Top(t).entry \in Entries /\ Top(t).act \in Activations
      /\ depth[t] \in Depths /\ frame[t][depth[t]] = Top(t)
      /\ Top(t).pc \in Computing
  BY TopInPlace, TopIsFrame DEF Before, Computing, Top
<1>2. made[Top(t).act][Top(t).entry] = 0
  BY <1>1 DEF NothingMade, Before
<1>3. made' = [made EXCEPT ![Top(t).act][Top(t).entry] = 1]
  BY <1>1, <1>2 DEF Inc, TypeOK
<1>4. "store" \in PCs /\ "store" \in Computing
  BY DEF PCs, Computing
<1>5. MemoCalls' = MemoCalls
  <2>1. /\ OthersSame(t, depth[t]) /\ frame'[t][depth[t]].pc = "store"
        /\ SameWork(frame'[t][depth[t]], Top(t))
    BY <1>4, GoEffect
  <2>2. (frame'[t][depth[t]].pc \in Computing) = (Top(t).pc \in Computing)
    BY <1>1, <1>4, <2>1
  <2>3. ViewOf(frame'[t][depth[t]]) = ViewOf(Top(t))
    BY <2>1, <2>2, Zenon DEF ViewOf, SameWork
  <2> QED
    BY <2>1, <2>3, CallsTop
<1>6. MemoLife' = MemoLife /\ MemoAnswer' = MemoAnswer
  BY MemoLifeSame, MemoAnswerSame
<1>7. /\ Memo!Working(t)
      /\ Memo!Running(t).act = Top(t).act /\ Memo!Running(t).entry = Top(t).entry
  BY <1>1, MemoWaiting, MemoTop
<1> QED
  BY <1>2, <1>3, <1>5, <1>6, <1>7 DEF Memo!Make

LEMMA MemoComputes ==
    ASSUME TypeOK, TypeOK', StackOK, NothingMade, NEW t \in Callers,
           Fail(t) \/ Compute(t) \/ Register(t) \/ AppendContext(t)
    PROVE  Memo!MemoNext
<1> USE DEF storageVars, ghostVars
<1>1. /\ depth[t] > 0 /\ Before(Top(t)) /\ Top(t).pc \in Computing
      /\ UNCHANGED <<current, phase, cached, depth, outcome>>
  BY DEF Fail, Compute, Register, AppendContext, At, Before, Computing
<1>2. CASE (Go(t, "register") \/ Go(t, "append")) /\ UNCHANGED made
  <2>1. {"register", "append"} \subseteq PCs /\ {"register", "append"} \subseteq Computing
    BY DEF PCs, Computing
  <2>2. UNCHANGED Memo!memoVars
    BY <1>1, <1>2, <2>1, MemoGo
  <2> QED
    BY <2>2 DEF Memo!MemoNext
<1>3. CASE /\ UNCHANGED made
           /\ \E kind \in Outcomes :
                 SetTop(t, [Top(t) EXCEPT !.pc = "unclaim", !.result = kind])
  <2>1. /\ OthersSame(t, depth[t]) /\ frame'[t][depth[t]].pc = "unclaim"
        /\ SameWork(frame'[t][depth[t]], Top(t))
    BY <1>1, <1>3, UnclaimEffect
  <2>2. (frame'[t][depth[t]].pc \in Computing) = (Top(t).pc \in Computing)
    BY <1>1, <2>1 DEF Computing
  <2>3. ViewOf(frame'[t][depth[t]]) = ViewOf(Top(t))
    BY <2>1, <2>2, Zenon DEF ViewOf, SameWork
  <2>4. UNCHANGED Memo!memoVars
    BY <1>1, <1>3, <2>1, <2>3, MemoUnseen
  <2> QED
    BY <2>4 DEF Memo!MemoNext
<1>4. CASE Go(t, "store") /\ made' = Inc(made, Top(t))
  <2>1. Memo!Make(t)
    BY <1>1, <1>4, MemoMake
  <2> QED
    BY <2>1 DEF Memo!MemoNext
<1>5. {"Failed", "Ended", "IndexError"} \subseteq Outcomes
  BY DEF Outcomes
<1> QED
  BY <1>2, <1>3, <1>4, <1>5 DEF Fail, Compute, Register, AppendContext

\* The store: the value is there for later calls, unless the activation is over.
LEMMA MemoStore ==
    ASSUME TypeOK, TypeOK', StackOK, ResultOK, NEW t \in Callers, Store(t)
    PROVE  Memo!MemoNext
<1> USE DEF storageVars, ghostVars
<1>1. /\ depth[t] > 0 /\ Top(t).pc = "store" /\ Top(t).pc \in Computing
      /\ SetTop(t, [Top(t) EXCEPT !.pc = "unclaim", !.result = "value"])
      /\ StoreSlot(Top(t).act, Top(t).entry)
      /\ UNCHANGED <<current, phase, made, depth, outcome>>
  BY DEF Store, At, Computing
<1>2. /\ Top(t).entry \in Entries /\ Top(t).act \in Activations
      /\ depth[t] \in Depths /\ frame[t][depth[t]] = Top(t)
  BY <1>1, TopInPlace, TopIsFrame DEF Top
<1>3. MemoCalls' = MemoCalls
  <2>1. "value" \in Outcomes
    BY DEF Outcomes
  <2>2. /\ OthersSame(t, depth[t]) /\ frame'[t][depth[t]].pc = "unclaim"
        /\ SameWork(frame'[t][depth[t]], Top(t))
    BY <1>1, <2>1, UnclaimEffect
  <2>3. (frame'[t][depth[t]].pc \in Computing) = (Top(t).pc \in Computing)
    BY <1>1, <2>2 DEF Computing
  <2>4. ViewOf(frame'[t][depth[t]]) = ViewOf(Top(t))
    BY <2>2, <2>3, Zenon DEF ViewOf, SameWork
  <2> QED
    BY <1>1, <2>2, <2>4, CallsTop
<1>4. MemoLife' = MemoLife /\ MemoAnswer' = MemoAnswer
  BY <1>1, MemoLifeSame, MemoAnswerSame
<1>5. CASE Emptied(Top(t).act)
  <2>1. UNCHANGED Memo!memoVars
    BY <1>1, <1>3, <1>4, <1>5 DEF StoreSlot, Memo!memoVars
  <2> QED
    BY <2>1 DEF Memo!MemoNext
<1>6. CASE ~Emptied(Top(t).act)
  <2>1. /\ Memo!Working(t)
        /\ Memo!Running(t).act = Top(t).act /\ Memo!Running(t).entry = Top(t).entry
    BY <1>1, MemoWaiting, MemoTop
  <2>2. Memo!Usable(Top(t).act)
    BY <1>2, <1>6, MemoUsable, ConstantsAssumption DEF Readable
  <2>3. made[Top(t).act][Top(t).entry] = 1
    BY <1>1, <1>2 DEF ResultOK, FrameResult, Valued
  <2>4. cached' = [cached EXCEPT ![Top(t).act] = @ \cup {Top(t).entry}]
    BY <1>1, <1>6 DEF StoreSlot
  <2>5. Memo!Keep(t)
    BY <1>1, <1>3, <1>4, <2>1, <2>2, <2>3, <2>4 DEF Memo!Keep
  <2> QED
    BY <2>5 DEF Memo!MemoNext
<1> QED
  BY <1>5, <1>6

\* The claim is popped: by then the value is kept, unless the activation is over.
LEMMA MemoUnclaim ==
    ASSUME TypeOK, TypeOK', StackOK, ClaimsHeld, MadeIsCached, ResultOK,
           NEW t \in Callers, Unclaim(t)
    PROVE  Memo!MemoNext
<1> USE DEF storageVars, ghostVars
<1>1. /\ depth[t] > 0 /\ Top(t).pc = "unclaim" /\ Top(t).pc \in Computing
      /\ Return(t, Top(t).result) /\ UNCHANGED <<storageVars, cached, made>>
  BY DEF Unclaim, At, Computing
<1>2. /\ Top(t).entry \in Entries /\ Top(t).act \in Activations /\ Top(t).result \in Outcomes
      /\ depth[t] \in Depths /\ frame[t][depth[t]] = Top(t)
  BY <1>1, TopInPlace, TopIsFrame DEF Top, Frame
<1>3. FrameResult(Top(t))
  BY <1>2 DEF ResultOK
<1>4. /\ Memo!Working(t)
      /\ Memo!Running(t).act = Top(t).act /\ Memo!Running(t).entry = Top(t).entry
  BY <1>1, MemoWaiting, MemoTop
<1>5. CASE Top(t).result = "value"
  <2>1. made[Top(t).act][Top(t).entry] = 1
    BY <1>1, <1>3, <1>5 DEF FrameResult, Valued
  <2>2. Memo!Usable(Top(t).act) => Top(t).entry \in cached[Top(t).act]
    <3> SUFFICES ASSUME ~Emptied(Top(t).act), Top(t).entry \notin cached[Top(t).act]
                 PROVE  FALSE
      BY <1>2, MemoUsable DEF Readable
    <3>1. PICK u \in Callers, d \in Depths :
             /\ frame[u][d].pc = "store" /\ frame[u][d].act = Top(t).act
             /\ frame[u][d].entry = Top(t).entry
      BY <1>2, <2>1 DEF MadeIsCached
    <3>2. Holds(u, d) /\ Holds(t, depth[t])
      BY <1>1, <1>2, <3>1 DEF Holds, Computing
    <3>3. u = t /\ d = depth[t]
      BY <1>2, <3>1, <3>2 DEF ClaimsHeld
    <3> QED
      BY <1>1, <1>2, <3>1, <3>3
  <2>3. Memo!Answer(t, "value")
    BY <1>1, <1>2, <1>5, MemoReturn DEF Kind
  <2>4. Memo!Finish(t)
    BY <1>4, <2>1, <2>2, <2>3 DEF Memo!Finish
  <2> QED
    BY <2>4 DEF Memo!MemoNext
<1>6. CASE Top(t).result # "value"
  <2>1. /\ made[Top(t).act][Top(t).entry] # 1
        /\ Top(t).result \in {"Failed", "Ended", "IndexError"}
    BY <1>1, <1>3, <1>6 DEF FrameResult
  <2>2. Kind(Top(t).result) = "error"
    BY <2>1 DEF Kind
  <2>3. Memo!Answer(t, "error")
    BY <1>1, <1>2, <2>2, MemoReturn
  <2>4. Memo!Finish(t)
    BY <1>4, <2>1, <2>3 DEF Memo!Finish
  <2> QED
    BY <2>4 DEF Memo!MemoNext
<1> QED
  BY <1>5, <1>6

LEMMA MemoScope ==
    ASSUME TypeOK, TypeOK', CurrentIsLive, NEW a \in Activations,
           Activate(a) \/ End(a) \/ Closing(a)
    PROVE  Memo!MemoNext
<1> USE DEF storageVars, ghostVars
<1>1. UNCHANGED <<depth, frame, outcome, made>>
  BY DEF Activate, End, Closing, Clear, ExitNext, Drained
<1>2. MemoCalls' = MemoCalls /\ MemoAnswer' = MemoAnswer
  BY <1>1 DEF MemoCalls, MemoAnswer
<1> USE DEF MemoLife, Emptied, TypeOK, Phases
<1>3. CASE Activate(a)
  <2>1. MemoLife[a] = "fresh" /\ MemoLife' = [MemoLife EXCEPT ![a] = "live"]
    BY <1>3 DEF Activate
  <2>2. Memo!Open(a)
    BY <1>1, <1>2, <1>3, <2>1 DEF Activate, Memo!Open
  <2> QED
    BY <2>2 DEF Memo!MemoNext
<1>4. CASE End(a)
  <2>1. MemoLife[a] = "live" /\ MemoLife' = [MemoLife EXCEPT ![a] = "ended"]
    BY <1>4 DEF End, CurrentIsLive
  <2>2. Memo!Leave(a)
    BY <1>1, <1>2, <1>4, <2>1 DEF End, Memo!Leave
  <2> QED
    BY <2>2 DEF Memo!MemoNext
<1>5. CASE Clear(a)
  <2>1. MemoLife[a] = "ended" /\ MemoLife' = [MemoLife EXCEPT ![a] = "over"]
    BY <1>5 DEF Clear
  <2>2. Memo!Forget(a)
    BY <1>1, <1>2, <1>5, <2>1 DEF Clear, Memo!Forget
  <2> QED
    BY <2>2 DEF Memo!MemoNext
<1>6. CASE ExitNext(a) \/ Drained(a)
  <2>1. MemoLife' = MemoLife
    BY <1>6 DEF ExitNext, Drained
  <2>2. UNCHANGED Memo!memoVars
    BY <1>1, <1>2, <1>6, <2>1 DEF ExitNext, Drained, Memo!memoVars
  <2> QED
    BY <2>2 DEF Memo!MemoNext
<1> QED
  BY <1>3, <1>4, <1>5, <1>6 DEF Closing

\* The inductive invariant the refinement needs.
MemoInv == IInv /\ ResultOK

LEMMA MemoStep ==
    ASSUME MemoInv, MemoInv', [Next]_vars
    PROVE  Memo!MemoNext
<1>0. /\ TypeOK /\ TypeOK' /\ StackOK /\ CurrentIsLive /\ ClaimsHeld /\ NothingMade
      /\ MadeIsCached /\ ResultOK
  BY DEF MemoInv, IInv
<1>1. CASE UNCHANGED vars
  <2>1. UNCHANGED Memo!memoVars
    BY <1>1 DEF vars, Memo!memoVars, MemoCalls, MemoLife, MemoAnswer, Emptied
  <2> QED
    BY <2>1 DEF Memo!MemoNext
<1>2. ASSUME NEW t \in Callers, Call(t) \/ CallDependency(t) PROVE Memo!MemoNext
  <2>1. Memo!Ask(t)
    BY <1>0, <1>2, MemoAsk
  <2> QED
    BY <2>1 DEF Memo!MemoNext
<1>3. ASSUME NEW t \in Callers, Read(t) \/ Reread(t) PROVE Memo!MemoNext
  BY <1>0, <1>3, MemoReads
<1>4. ASSUME NEW t \in Callers, TryClaim(t) \/ Wake(t) \/ CancelWait(t) PROVE Memo!MemoNext
  BY <1>0, <1>4, MemoClaim
<1>5. ASSUME NEW t \in Callers, Fail(t) \/ Compute(t) \/ Register(t) \/ AppendContext(t)
      PROVE  Memo!MemoNext
  BY <1>0, <1>5, MemoComputes
<1>6. ASSUME NEW t \in Callers, Store(t) PROVE Memo!MemoNext
  BY <1>0, <1>6, MemoStore
<1>7. ASSUME NEW t \in Callers, Unclaim(t) PROVE Memo!MemoNext
  BY <1>0, <1>7, MemoUnclaim
<1>8. ASSUME NEW a \in Activations, Activate(a) \/ End(a) \/ Closing(a) PROVE Memo!MemoNext
  BY <1>0, <1>8, MemoScope
<1> QED
  BY <1>1, <1>2, <1>3, <1>4, <1>5, <1>6, <1>7, <1>8 DEF Next, Step

LEMMA MemoInvInit == Init => MemoInv
<1> SUFFICES ASSUME Init PROVE MemoInv
  OBVIOUS
<1>1. \A t \in Callers, d \in Depths : frame[t][d].pc = "idle"
  BY DEF Init, NoFrame
<1>2. ResultOK
  BY <1>1 DEF ResultOK, FrameResult, Valued
<1> QED
  BY <1>2, InvInit DEF MemoInv

THEOREM MemoInvariant == Spec => []MemoInv
<1>1. MemoInv /\ [Next]_vars => MemoInv'
  <2> SUFFICES ASSUME MemoInv, [Next]_vars PROVE MemoInv'
    OBVIOUS
  <2>1. IInv'
    BY InvNext DEF MemoInv
  <2>2. ResultOK'
    BY ResultNext DEF MemoInv, IInv
  <2> QED
    BY <2>1, <2>2 DEF MemoInv
<1> QED
  BY <1>1, MemoInvInit, PTL DEF Spec

\* Whatever the callers, entries and activations, and however their reads, claims, stores
\* and the end of the activation interleave, the wrappers do what ScopedMemo promises.
THEOREM MemoImplemented == Spec => ImplementsMemo
<1>1. Init => Memo!MemoInit
  <2> SUFFICES ASSUME Init PROVE Memo!MemoInit
    OBVIOUS
  <2>1. MemoCalls = [t \in Callers |-> <<>>]
    <3>1. \A t \in Callers : MemoCalls[t] = <<>>
      BY TypeInit, MemoTop DEF Init
    <3> QED
      BY <3>1, MemoCallsFcn
  <2>2. MemoLife = [a \in Activations |-> "fresh"] /\ MemoAnswer = [t \in Callers |-> "none"]
    BY DEF Init, MemoLife, MemoAnswer, Emptied
  <2> QED
    BY <2>1, <2>2 DEF Init, Memo!MemoInit
<1>2. MemoInv /\ MemoInv' /\ [Next]_vars => [Memo!MemoNext]_(Memo!memoVars)
  BY MemoStep
<1> QED
  BY <1>1, <1>2, MemoInvariant, PTL DEF Spec, ImplementsMemo, Memo!MemoSpec
=============================================================================
