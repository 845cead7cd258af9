--------------------------- MODULE SlotPoolProofs ---------------------------
(***************************************************************************)
(* Proofs about SlotPool, for any number of threads, activations and       *)
(* functions, dense and sparse, shared and context scopes.  PoolInv is     *)
(* inductive.  A call takes what it finds for its own value; the cell may  *)
(* still hold the value of the slot's former function.  In a context scope *)
(* a function whose slot was used before looks whose value it is (SlotsOK, *)
(* StorageOK); in a shared scope every thread shows the one live           *)
(* activation (CurrentOK), so the finalizer that frees a slot has unset    *)
(* the cell there (FreshOK), and it stays so until the call reads it       *)
(* (ReadsOwn).  ReachesSlot says why a dense storage that is in use is     *)
(* long enough for a function decorated after it was made.                 *)
(***************************************************************************)
EXTENDS SlotPool, TLAPS, SequenceTheorems

-----------------------------------------------------------------------------
(* Types                                                                   *)

Phases == {"new", "copied", "live", "ending", "ended"}
PCs == {"idle", "activating", "allocating", "extending", "missed", "found", "measured",
        "reread", "computing", "returned", "raised"}

Value(f, a) == [by |-> f, in |-> a]
AnyCell == {Unset, Reserved} \cup [by : Cached, in : Activations]
Contents == UNION {[D -> AnyCell] : D \in SUBSET (Nat \ {0})}

\* The last slot there is.
Top == IF Dense THEN template ELSE template - 1

CallRecord == [pc : PCs, fn : Cached \cup {None}, act : Activations \cup {None},
               got : AnyCell, extra : Nat]

TypeOK ==
    /\ scope \in [isolation : {"shared", "context"}, storage : {"dense", "sparse"}]
    /\ template \in Nat /\ Top \in Nat /\ Top > 0
    /\ free \in Seq(Nat)
    /\ function \in [Cached -> [state : {"undecorated", "live", "collected"},
                                slot : Nat, owned : BOOLEAN]]
    /\ current \in [Threads -> Activations \cup {None}]
    /\ storage \in [Activations -> [phase : Phases, cells : Contents]]
    /\ \A a \in Activations : Dense => Cells(a) \in Seq(AnyCell)
    /\ call \in [Threads -> CallRecord]
    /\ finalizer \in [Threads -> [slot : Nat, act : Activations \cup {None}] \cup {None}]

-----------------------------------------------------------------------------
(* The inductive invariant                                                 *)

Decorated(f) == function[f].state # "undecorated"
Lives(f) == function[f].state = "live"

\* A slot belongs to one live function, waits in the pool, or is being released; a function
\* that does not look whose value it reads was the first to be given its slot.
SlotsOK ==
    /\ \A f \in Cached : Decorated(f) => function[f].slot \in 2..Top
    /\ \A i \in 1..Len(free) : free[i] \in 2..Top
    /\ \A i, j \in 1..Len(free) : i # j => free[i] # free[j]
    /\ \A t \in Threads : finalizer[t] # None =>
          /\ finalizer[t].slot \in 2..Top
          /\ \A i \in 1..Len(free) : free[i] # finalizer[t].slot
          /\ \A u \in Threads \ {t} :
                finalizer[u] # None => finalizer[u].slot # finalizer[t].slot
    /\ \A f \in Cached : Lives(f) =>
          /\ \A g \in Cached \ {f} : Lives(g) => function[g].slot # function[f].slot
          /\ \A i \in 1..Len(free) : free[i] # function[f].slot
          /\ \A t \in Threads : finalizer[t] # None => finalizer[t].slot # function[f].slot
          /\ ~Shared /\ ~function[f].owned =>
                \A g \in Cached \ {f} : Decorated(g) => function[g].slot # function[f].slot

\* What storage holds was written there, once it was live, by a function that had the slot.
StorageOK ==
    \A a \in Activations :
        /\ storage[a].phase \in {"copied", "live"} => 1 \in DOMAIN Cells(a)
        /\ \A i \in Nat : i > 1 /\ CellAt(a, i) # Unset =>
              /\ storage[a].phase \notin {"new", "copied"}
              /\ \E g \in Cached :
                    CellAt(a, i) = Value(g, a) /\ Decorated(g) /\ function[g].slot = i

\* In a shared scope, a value of the live activation is a live function's, or that of one
\* whose finalizer is about to unset it.
FreshOK ==
    Shared => \A a \in Activations : storage[a].phase = "live" =>
        \A i \in Nat, g \in Cached :
            i > 1 /\ CellAt(a, i) = Value(g, a) =>
                Lives(g) \/ \E t \in Threads : finalizer[t] = [slot |-> i, act |-> a]

\* Threads share the activation of a shared scope; one of a context scope may have ended.
CurrentOK ==
    /\ \A t \in Threads : current[t] # None => storage[current[t]].phase \notin {"new", "copied"}
    /\ Shared => \A t \in Threads, a \in Activations :
                    storage[a].phase = "live" <=> current[t] = a

CallOK(t) ==
    LET c == call[t] IN
    /\ c.pc \in {"idle", "activating", "allocating", "extending"} <=> c.fn = None
    /\ c.pc \in {"idle", "missed"} <=> c.act = None
    /\ c.pc = "activating" =>
          /\ storage[c.act].phase = "copied"
          /\ \A u \in Threads \ {t} : call[u].pc = "activating" => call[u].act # c.act
    /\ c.act # None /\ c.pc # "activating" => storage[c.act].phase \notin {"new", "copied"}
    /\ c.fn # None => Lives(c.fn)
    /\ c.extra # 0 => Dense
    /\ c.pc = "raised" => storage[c.act].phase # "live"
    /\ c.pc = "returned" => c.got = Value(c.fn, c.act)

\* The cell a call reads or writes is no other function's.
OwnOK(t) ==
    LET c == call[t] IN
    Shared /\ c.fn # None /\ c.act # None =>
        CellAt(c.act, function[c.fn].slot) \in {Unset, Value(c.fn, c.act)}

\* A dense storage reaches as far as the slot that is about to be read.
ReachOK(t) ==
    LET c == call[t] IN
    Dense /\ c.fn # None /\ c.act # None /\ storage[c.act].phase = "live" =>
        /\ c.pc = "measured" => Len(Cells(c.act)) + c.extra >= function[c.fn].slot
        /\ c.pc = "reread" => Len(Cells(c.act)) >= function[c.fn].slot

ReadsOwn == \A t \in Threads : OwnOK(t)
ReachesSlot == \A t \in Threads : ReachOK(t)
CallsOK == \A t \in Threads : CallOK(t)

PoolInv ==
    TypeOK /\ SlotsOK /\ StorageOK /\ FreshOK /\ CurrentOK /\ CallsOK /\ ReadsOwn /\ ReachesSlot

-----------------------------------------------------------------------------
(* Storage                                                                 *)

LEMMA ContentsAre ==
    /\ \A s \in Contents : DOMAIN s \subseteq Nat \ {0} /\ s \in [DOMAIN s -> AnyCell]
    /\ \A D \in SUBSET (Nat \ {0}) : [D -> AnyCell] \subseteq Contents
    /\ Seq(AnyCell) \subseteq Contents
<1>1. \A s \in Contents : DOMAIN s \subseteq Nat \ {0} /\ s \in [DOMAIN s -> AnyCell]
  BY DEF Contents
<1>2. \A D \in SUBSET (Nat \ {0}) : [D -> AnyCell] \subseteq Contents
  BY DEF Contents
<1>3. ASSUME NEW s \in Seq(AnyCell) PROVE s \in Contents
  <2>1. Len(s) \in Nat /\ s \in [1..Len(s) -> AnyCell]
    BY LenProperties
  <2>2. 1..Len(s) \in SUBSET (Nat \ {0})
    BY <2>1
  <2> QED
    BY <1>2, <2>1, <2>2
<1> QED
  BY <1>1, <1>2, <1>3

\* A value says who wrote it where.
LEMMA ValuesSay ==
    ASSUME NEW f \in Cached, NEW a \in Activations
    PROVE  /\ Value(f, a) \in AnyCell /\ Value(f, a) # Unset /\ Value(f, a).by = f
           /\ \A g \in Cached, b \in Activations : Value(f, a) = Value(g, b) => f = g /\ a = b
<1>1. Value(f, a).by = f /\ Value(f, a).in = a /\ Unset.by = None
  BY DEF Value, Unset
<1>2. \A g \in Cached, b \in Activations : Value(g, b).by = g /\ Value(g, b).in = b
  BY DEF Value
<1>3. Value(f, a) \in AnyCell
  BY DEF Value, AnyCell
<1> QED
  BY <1>1, <1>2, <1>3, SlotPoolAssumption

LEMMA CellsAre ==
    ASSUME TypeOK, NEW a \in Activations
    PROVE  /\ Cells(a) \in Contents /\ DOMAIN Cells(a) \subseteq Nat \ {0}
           /\ Cells(a) \in [DOMAIN Cells(a) -> AnyCell]
           /\ \A i \in Nat : CellAt(a, i) \in AnyCell
           /\ Dense => Len(Cells(a)) \in Nat /\ DOMAIN Cells(a) = 1..Len(Cells(a))
<1>1. Cells(a) \in Contents /\ Unset \in AnyCell
  BY DEF TypeOK, Cells, AnyCell
<1>2. Dense => Len(Cells(a)) \in Nat /\ DOMAIN Cells(a) = 1..Len(Cells(a))
  BY LenProperties DEF TypeOK
<1>3. DOMAIN Cells(a) \subseteq Nat \ {0} /\ Cells(a) \in [DOMAIN Cells(a) -> AnyCell]
  BY <1>1, ContentsAre
<1> HIDE DEF Cells
<1>4. \A i \in Nat : CellAt(a, i) \in AnyCell
  BY <1>1, <1>3 DEF CellAt
<1> QED
  BY <1>1, <1>2, <1>3, <1>4

StorageType ==
    /\ storage \in [Activations -> [phase : Phases, cells : Contents]]
    /\ \A a \in Activations : Dense => Cells(a) \in Seq(AnyCell)

\* The storage of a, p being its phase, is s now.
Becomes(a, p, s) == storage' = [storage EXCEPT ![a] = [phase |-> p, cells |-> s]]

LEMMA CellsBecome ==
    ASSUME TypeOK, NEW a \in Activations, NEW s, storage' = [storage EXCEPT ![a].cells = s]
    PROVE  Becomes(a, storage[a].phase, s) /\ storage[a].phase \in Phases
<1>1. storage[a] \in [phase : Phases, cells : Contents]
  BY DEF TypeOK
<1>2. [storage[a] EXCEPT !.cells = s] = [phase |-> storage[a].phase, cells |-> s]
  BY <1>1
<1> QED
  BY <1>1, <1>2 DEF Becomes

LEMMA BecomesEffect ==
    ASSUME TypeOK, scope' = scope, NEW a \in Activations, NEW p \in Phases, NEW s \in Contents,
           Dense => s \in Seq(AnyCell), Becomes(a, p, s)
    PROVE  /\ StorageType'
           /\ storage'[a].phase = p /\ Cells(a)' = s
           /\ \A b \in Activations \ {a} : storage'[b] = storage[b] /\ Cells(b)' = Cells(b)
           /\ \A b \in Activations \ {a}, i \in Nat : CellAt(b, i)' = CellAt(b, i)
<1>1. storage'[a].phase = p /\ Cells(a)' = s
  BY DEF Becomes, TypeOK, Cells
<1>2. \A b \in Activations \ {a} : storage'[b] = storage[b] /\ Cells(b)' = Cells(b)
  BY DEF Becomes, TypeOK, Cells
<1>3. \A b \in Activations \ {a}, i \in Nat : CellAt(b, i)' = CellAt(b, i)
  BY <1>2 DEF CellAt
<1>4. storage' \in [Activations -> [phase : Phases, cells : Contents]]
  BY DEF Becomes, TypeOK
<1>5. \A b \in Activations : Dense' => Cells(b)' \in Seq(AnyCell)
  BY <1>1, <1>2 DEF TypeOK, Dense
<1> QED
  BY <1>1, <1>2, <1>3, <1>4, <1>5 DEF StorageType

\* Writing a cell changes that cell.
LEMMA SetCellEffect ==
    ASSUME TypeOK, scope' = scope, NEW a \in Activations, NEW i \in Nat \ {0}, NEW cell \in AnyCell,
           Dense => i \in DOMAIN Cells(a), SetCell(a, i, cell)
    PROVE  /\ StorageType'
           /\ \A b \in Activations : /\ storage'[b].phase = storage[b].phase
                                     /\ DOMAIN Cells(b) \subseteq DOMAIN Cells(b)'
                                     /\ Dense => Len(Cells(b))' = Len(Cells(b))
           /\ \A b \in Activations, j \in Nat :
                 CellAt(b, j)' = IF b = a /\ j = i THEN cell ELSE CellAt(b, j)
<1> DEFINE s == [j \in DOMAIN Cells(a) \cup {i} |-> IF j = i THEN cell ELSE Cells(a)[j]]
<1>1. Becomes(a, storage[a].phase, s) /\ storage[a].phase \in Phases
  <2>1. storage' = [storage EXCEPT ![a].cells = s]
    BY DEF SetCell, Cells
  <2> QED
    BY <2>1, CellsBecome
<1>2. s \in [DOMAIN Cells(a) \cup {i} -> AnyCell] /\ s \in Contents
  <2>1. \A j \in DOMAIN Cells(a) : Cells(a)[j] \in AnyCell
    BY CellsAre
  <2>2. s \in [DOMAIN Cells(a) \cup {i} -> AnyCell]
    BY <2>1
  <2>3. DOMAIN Cells(a) \cup {i} \in SUBSET (Nat \ {0})
    BY CellsAre
  <2> QED
    BY <2>2, <2>3, ContentsAre
<1>3. Dense => s \in Seq(AnyCell) /\ Len(s) = Len(Cells(a))
  <2> SUFFICES ASSUME Dense PROVE s \in Seq(AnyCell) /\ Len(s) = Len(Cells(a))
    OBVIOUS
  <2>1. DOMAIN Cells(a) \cup {i} = 1..Len(Cells(a)) /\ Len(Cells(a)) \in Nat
    BY CellsAre
  <2>2. s \in [1..Len(Cells(a)) -> AnyCell]
    BY <1>2, <2>1
  <2> HIDE DEF s
  <2>3. s \in Seq(AnyCell)
    BY <2>1, <2>2, SeqDef
  <2> QED
    BY <2>1, <2>2, <2>3, LenProperties
<1>4. DOMAIN s = DOMAIN Cells(a) \cup {i}
      /\ \A j \in Nat : (IF j \in DOMAIN s THEN s[j] ELSE Unset)
                         = IF j = i THEN cell ELSE CellAt(a, j)
  BY DEF CellAt
<1> HIDE DEF s
<1>5. /\ StorageType' /\ storage'[a].phase = storage[a].phase /\ Cells(a)' = s
      /\ \A b \in Activations \ {a} : storage'[b] = storage[b] /\ Cells(b)' = Cells(b)
      /\ \A b \in Activations \ {a}, j \in Nat : CellAt(b, j)' = CellAt(b, j)
  BY <1>1, <1>2, <1>3, BecomesEffect
<1>6. \A j \in Nat : CellAt(a, j)' = IF j = i THEN cell ELSE CellAt(a, j)
  BY <1>4, <1>5 DEF CellAt
<1>7. /\ DOMAIN Cells(a) \subseteq DOMAIN Cells(a)'
      /\ Dense => Len(Cells(a))' = Len(Cells(a))
  BY <1>3, <1>4, <1>5
<1> QED
  BY <1>5, <1>6, <1>7

\* Extending storage changes no cell.
LEMMA ExtendEffect ==
    ASSUME TypeOK, scope' = scope, NEW a \in Activations, NEW n \in Nat, n # 0 => Dense,
           storage' = [storage EXCEPT ![a].cells = Extended(a, n)]
    PROVE  /\ StorageType'
           /\ \A b \in Activations : /\ storage'[b].phase = storage[b].phase
                                     /\ DOMAIN Cells(b) \subseteq DOMAIN Cells(b)'
                                     /\ Dense => /\ Len(Cells(b))' >= Len(Cells(b))
                                                 /\ Len(Cells(a))' = Len(Cells(a)) + n
           /\ \A b \in Activations, j \in Nat : CellAt(b, j)' = CellAt(b, j)
<1> DEFINE s == Extended(a, n)
<1>1. Becomes(a, storage[a].phase, s) /\ storage[a].phase \in Phases
  BY CellsBecome
<1>2. CASE n = 0
  <2>1. s = Cells(a)
    BY <1>2 DEF Extended
  <2>2. storage' = storage
    BY <1>1, <2>1 DEF Becomes, TypeOK, Cells
  <2> QED
    BY <1>2, <2>2, CellsAre DEF StorageType, TypeOK, Cells, CellAt, Dense
<1>3. CASE n # 0
  <2> DEFINE e == [i \in 1..n |-> Unset]
  <2>1. e \in Seq(AnyCell) /\ Len(e) = n /\ \A i \in 1..n : e[i] = Unset
    <3>1. e \in [1..n -> AnyCell]
      BY DEF AnyCell
    <3>2. e \in Seq(AnyCell)
      BY <3>1, SeqDef
    <3> QED
      BY <3>1, <3>2, LenProperties
  <2>2. s = Cells(a) \o e /\ Cells(a) \in Seq(AnyCell)
    BY <1>3 DEF Extended, TypeOK
  <2> HIDE DEF s, e
  <2>3. /\ s \in Seq(AnyCell) /\ Len(s) = Len(Cells(a)) + n
        /\ \A i \in 1..Len(s) : s[i] = IF i <= Len(Cells(a)) THEN Cells(a)[i] ELSE e[i - Len(Cells(a))]
    BY <2>1, <2>2, ConcatProperties, SMTT(40)
  <2>4. /\ Len(Cells(a)) \in Nat /\ DOMAIN Cells(a) = 1..Len(Cells(a)) /\ DOMAIN s = 1..Len(s)
        /\ \A b \in Activations : Len(Cells(b)) \in Nat
    BY <1>3, <2>3, CellsAre, LenProperties
  <2>5. /\ StorageType' /\ storage'[a].phase = storage[a].phase /\ Cells(a)' = s
        /\ \A b \in Activations \ {a} : storage'[b] = storage[b] /\ Cells(b)' = Cells(b)
        /\ \A b \in Activations \ {a}, j \in Nat : CellAt(b, j)' = CellAt(b, j)
    <3>1. s \in Contents
      BY <2>3, ContentsAre
    <3> QED
      BY <1>1, <2>3, <3>1, BecomesEffect
  <2>6. \A j \in Nat : CellAt(a, j)' = CellAt(a, j)
    <3> SUFFICES ASSUME NEW j \in Nat PROVE CellAt(a, j)' = CellAt(a, j)
      OBVIOUS
    <3>1. CASE j \in DOMAIN Cells(a)
      BY <2>3, <2>4, <2>5, <3>1 DEF CellAt
    <3>2. CASE j \in DOMAIN s \ DOMAIN Cells(a)
      <4>1. s[j] = e[j - Len(Cells(a))] /\ j - Len(Cells(a)) \in 1..n
        BY <2>3, <2>4, <3>2
      <4> QED
        BY <2>1, <2>5, <3>2, <4>1 DEF CellAt
    <3>3. CASE j \notin DOMAIN s /\ j \notin DOMAIN Cells(a)
      BY <2>5, <3>3 DEF CellAt
    <3> QED
      BY <3>1, <3>2, <3>3
  <2>7. \A b \in Activations : /\ DOMAIN Cells(b) \subseteq DOMAIN Cells(b)'
                               /\ Len(Cells(b))' >= Len(Cells(b))
    BY <2>3, <2>4, <2>5
  <2> QED
    BY <2>3, <2>5, <2>6, <2>7
<1> QED
  BY <1>2, <1>3

-----------------------------------------------------------------------------
(* What each step does to storage                                          *)

SameCells == \A a \in Activations, i \in Nat : i > 1 => CellAt(a, i)' = CellAt(a, i)
SamePhases == \A a \in Activations : storage'[a].phase = storage[a].phase

\* Storage in use is never cut short.
Grows ==
    /\ StorageType'
    /\ \A a \in Activations : storage[a].phase \in {"copied", "live"} =>
          /\ 1 \in DOMAIN Cells(a) => 1 \in DOMAIN Cells(a)'
          /\ Dense => Len(Cells(a))' >= Len(Cells(a))

LEMMA SameEffect ==
    ASSUME TypeOK, UNCHANGED <<scope, storage>>
    PROVE  SameCells /\ SamePhases /\ Grows
<1>1. \A a \in Activations : Cells(a)' = Cells(a) /\ (Dense => Len(Cells(a)) \in Nat)
  BY CellsAre DEF Cells
<1>2. StorageType'
  BY <1>1 DEF TypeOK, StorageType, Dense
<1> QED
  BY <1>1, <1>2 DEF SameCells, SamePhases, Grows, CellAt

\* A step that gives a new phase and new contents to one activation.
LEMMA OneBecomes ==
    ASSUME TypeOK, scope' = scope, NEW a \in Activations, NEW p \in Phases, NEW s \in Contents,
           Dense => s \in Seq(AnyCell), Becomes(a, p, s),
           storage[a].phase \in {"copied", "live"} => s = Cells(a)
    PROVE  /\ Grows
           /\ storage'[a].phase = p /\ Cells(a)' = s
           /\ \A b \in Activations \ {a} : storage'[b] = storage[b] /\ Cells(b)' = Cells(b)
           /\ \A b \in Activations \ {a}, i \in Nat : CellAt(b, i)' = CellAt(b, i)
<1>1. /\ StorageType'
      /\ storage'[a].phase = p /\ Cells(a)' = s
      /\ \A b \in Activations \ {a} : storage'[b] = storage[b] /\ Cells(b)' = Cells(b)
      /\ \A b \in Activations \ {a}, i \in Nat : CellAt(b, i)' = CellAt(b, i)
  BY BecomesEffect
<1>2. \A b \in Activations : Dense => Len(Cells(b)) \in Nat
  BY CellsAre
<1> QED
  BY <1>1, <1>2 DEF Grows

LEMMA PhaseBecomes ==
    ASSUME TypeOK, scope' = scope, NEW a \in Activations, NEW p \in Phases,
           storage' = [storage EXCEPT ![a].phase = p]
    PROVE  /\ Grows /\ SameCells /\ storage'[a].phase = p
           /\ \A b \in Activations \ {a} : storage'[b].phase = storage[b].phase
<1>1. storage[a] \in [phase : Phases, cells : Contents] /\ Cells(a) \in Contents
      /\ (Dense => Cells(a) \in Seq(AnyCell))
  BY CellsAre DEF TypeOK
<1>2. Becomes(a, p, Cells(a))
  <2>1. [storage[a] EXCEPT !.phase = p] = [phase |-> p, cells |-> storage[a].cells]
    BY <1>1
  <2> QED
    BY <2>1 DEF Becomes, Cells
<1>3. /\ Grows /\ storage'[a].phase = p /\ Cells(a)' = Cells(a)
      /\ \A b \in Activations \ {a} : storage'[b] = storage[b] /\ Cells(b)' = Cells(b)
  BY <1>1, <1>2, OneBecomes
<1>4. SameCells
  BY <1>3 DEF SameCells, CellAt
<1> QED
  BY <1>3, <1>4

LEMMA NewActivationEffect ==
    ASSUME TypeOK, StorageOK, NEW t \in Threads, NEW a \in Activations, NewActivation(t, a)
    PROVE  /\ Grows /\ SameCells
           /\ storage[a].phase = "new" /\ storage'[a].phase = "copied" /\ 1 \in DOMAIN Cells(a)'
           /\ \A b \in Activations \ {a} : storage'[b].phase = storage[b].phase
<1> DEFINE n == IF Dense THEN template ELSE 1
<1>1. n \in Nat /\ n > 0
  BY DEF TypeOK, Top
<1>2. /\ NewCells \in [1..n -> AnyCell] /\ NewCells \in Seq(AnyCell) /\ DOMAIN NewCells = 1..n
      /\ \A i \in Nat : i > 1 /\ i \in DOMAIN NewCells => NewCells[i] = Unset
  <2>1. NewCells = [i \in 1..n |-> IF i = 1 THEN Reserved ELSE Unset]
    BY DEF NewCells
  <2> HIDE DEF n
  <2>2. NewCells \in [1..n -> AnyCell]
    BY <2>1 DEF AnyCell
  <2>3. NewCells \in Seq(AnyCell)
    BY <1>1, <2>2, SeqDef
  <2> QED
    BY <2>1, <2>2, <2>3
<1>3. NewCells \in Contents /\ 1 \in DOMAIN NewCells
  BY <1>1, <1>2, ContentsAre
<1>4. Becomes(a, "copied", NewCells) /\ storage[a].phase = "new" /\ scope' = scope
  BY DEF NewActivation, Becomes
<1>5. /\ Grows /\ storage'[a].phase = "copied" /\ Cells(a)' = NewCells
      /\ \A b \in Activations \ {a} : storage'[b] = storage[b] /\ Cells(b)' = Cells(b)
      /\ \A b \in Activations \ {a}, i \in Nat : CellAt(b, i)' = CellAt(b, i)
  BY <1>2, <1>3, <1>4, OneBecomes DEF Phases
<1>6. \A i \in Nat : i > 1 => CellAt(a, i)' = Unset /\ CellAt(a, i) = Unset
  <2>1. \A i \in Nat : i > 1 => CellAt(a, i) = Unset
    BY <1>4 DEF StorageOK
  <2> QED
    BY <1>2, <1>5, <2>1 DEF CellAt
<1> QED
  BY <1>3, <1>4, <1>5, <1>6 DEF SameCells

LEMMA ClearEffect ==
    ASSUME TypeOK, NEW a \in Activations, Clear(a)
    PROVE  /\ Grows
           /\ storage[a].phase = "ending" /\ storage'[a].phase = "ended"
           /\ \A b \in Activations \ {a} : storage'[b].phase = storage[b].phase
           /\ \A b \in Activations, i \in Nat :
                 CellAt(b, i)' = IF b = a THEN Unset ELSE CellAt(b, i)
<1>1. <<>> \in Contents /\ <<>> \in Seq(AnyCell)
  BY ContentsAre, EmptySeq
<1>2. Becomes(a, "ended", <<>>) /\ storage[a].phase = "ending" /\ scope' = scope
  BY DEF Clear, Becomes
<1>3. /\ Grows /\ storage'[a].phase = "ended" /\ Cells(a)' = <<>>
      /\ \A b \in Activations \ {a} : storage'[b] = storage[b] /\ Cells(b)' = Cells(b)
      /\ \A b \in Activations \ {a}, i \in Nat : CellAt(b, i)' = CellAt(b, i)
  BY <1>1, <1>2, OneBecomes DEF Phases
<1>4. \A i \in Nat : CellAt(a, i)' = Unset
  BY <1>3 DEF CellAt
<1> QED
  BY <1>2, <1>3, <1>4

LEMMA ReleaseEffect ==
    ASSUME TypeOK, SlotsOK, NEW t \in Threads, Release(t)
    PROVE  /\ Grows /\ SamePhases /\ finalizer[t] # None
           /\ \A b \in Activations, i \in Nat : i > 1 =>
                 CellAt(b, i)' = IF b = finalizer[t].act /\ i = finalizer[t].slot
                                 THEN Unset ELSE CellAt(b, i)
<1> DEFINE a == finalizer[t].act
           j == finalizer[t].slot
<1>1. /\ finalizer[t] # None /\ j \in Nat \ {0} /\ a \in Activations \cup {None} /\ scope' = scope
      /\ Unset \in AnyCell
  BY DEF Release, SlotsOK, TypeOK, AnyCell
<1>2. CASE storage' = storage /\ (a = None \/ j \notin DOMAIN Cells(a))
  <2>1. \A b \in Activations : b = a => CellAt(b, j) = Unset
    BY <1>2, SlotPoolAssumption DEF CellAt
  <2> QED
    BY <1>1, <1>2, <2>1, SameEffect DEF SameCells
<1>3. CASE a # None /\ j \in DOMAIN Cells(a) /\ SetCell(a, j, Unset)
  <2>1. a \in Activations
    BY <1>1, <1>3
  <2> HIDE DEF a, j
  <2>2. /\ StorageType'
        /\ \A b \in Activations : /\ storage'[b].phase = storage[b].phase
                                  /\ DOMAIN Cells(b) \subseteq DOMAIN Cells(b)'
                                  /\ Dense => Len(Cells(b))' = Len(Cells(b))
        /\ \A b \in Activations, i \in Nat :
              CellAt(b, i)' = IF b = a /\ i = j THEN Unset ELSE CellAt(b, i)
    BY <1>1, <1>3, <2>1, SetCellEffect
  <2>3. \A b \in Activations : Dense => Len(Cells(b)) \in Nat
    BY CellsAre
  <2>4. Grows /\ SamePhases
    BY <2>2, <2>3 DEF Grows, SamePhases
  <2> QED
    BY <1>1, <2>2, <2>4 DEF a, j
<1> QED
  BY <1>2, <1>3 DEF Release

\* The storage a call or an allocation works on, and the function.
LEMMA CallTypes ==
    ASSUME TypeOK, CallsOK, NEW t \in Threads
    PROVE  /\ call[t] \in CallRecord /\ call[t].pc \in PCs /\ call[t].extra \in Nat
           /\ call[t].pc \notin {"idle", "missed"} => call[t].act \in Activations
           /\ call[t].pc \notin {"idle", "activating", "allocating", "extending"} =>
                 call[t].fn \in Cached /\ Lives(call[t].fn)
BY DEF TypeOK, CallRecord, CallsOK, CallOK

LEMMA ExtendStep ==
    ASSUME TypeOK, CallsOK, NEW t \in Threads, Extend(t)
    PROVE  /\ Grows /\ SamePhases /\ SameCells
           /\ \A a \in Activations : a = call[t].act /\ Dense =>
                 Len(Cells(a)) \in Nat /\ Len(Cells(a))' = Len(Cells(a)) + call[t].extra
<1>1. /\ call[t].act \in Activations /\ call[t].extra \in Nat /\ scope' = scope
      /\ storage' = [storage EXCEPT ![call[t].act].cells = Extended(call[t].act, call[t].extra)]
  BY CallTypes DEF Extend, Runs
<1>2. \A b \in Activations : Dense => Len(Cells(b)) \in Nat
  BY CellsAre
<1>3. PICK a \in Activations, n \in Nat : a = call[t].act /\ n = call[t].extra
  BY <1>1
<1>4. /\ StorageType'
      /\ \A b \in Activations : /\ storage'[b].phase = storage[b].phase
                                /\ DOMAIN Cells(b) \subseteq DOMAIN Cells(b)'
                                /\ Dense => /\ Len(Cells(b))' >= Len(Cells(b))
                                            /\ Len(Cells(a))' = Len(Cells(a)) + n
      /\ \A b \in Activations, j \in Nat : CellAt(b, j)' = CellAt(b, j)
  BY <1>1, <1>3, ExtendEffect DEF CallsOK, CallOK
<1>5. Dense => Len(Cells(a))' = Len(Cells(a)) + n
  BY <1>4
<1> QED
  BY <1>2, <1>3, <1>4, <1>5 DEF Grows, SamePhases, SameCells

LEMMA StoreEffect ==
    ASSUME TypeOK, SlotsOK, CallsOK, NEW t \in Threads, Store(t)
    PROVE  LET c == call[t]  i == function[c.fn].slot IN
           /\ Grows /\ SamePhases
           /\ SameCells \/ \A b \in Activations, j \in Nat : j > 1 =>
                 CellAt(b, j)' = IF b = c.act /\ j = i THEN Value(c.fn, c.act) ELSE CellAt(b, j)
<1>1. PICK f \in Cached, a \in Activations : f = call[t].fn /\ a = call[t].act /\ Lives(f)
  BY CallTypes DEF Store, Runs
<1>2. PICK i \in Nat \ {0} : i = function[f].slot
  <2>1. Top \in Nat /\ function[f].slot \in 2..Top
    BY <1>1 DEF SlotsOK, TypeOK, Lives, Decorated
  <2> QED
    BY <2>1
<1>3. CASE Reads(a, i)
  <2>1. Dense => i \in DOMAIN Cells(a)
    BY <1>3 DEF Reads
  <2>2. SetCell(a, i, Value(f, a)) /\ scope' = scope /\ Value(f, a) \in AnyCell
    BY <1>1, <1>2, <1>3, ValuesSay DEF Store, Value
  <2>3. /\ StorageType'
        /\ \A b \in Activations : /\ storage'[b].phase = storage[b].phase
                                  /\ DOMAIN Cells(b) \subseteq DOMAIN Cells(b)'
                                  /\ Dense => Len(Cells(b))' = Len(Cells(b))
        /\ \A b \in Activations, j \in Nat :
              CellAt(b, j)' = IF b = a /\ j = i THEN Value(f, a) ELSE CellAt(b, j)
    BY <2>1, <2>2, SetCellEffect
  <2>4. \A b \in Activations : Dense => Len(Cells(b)) \in Nat
    BY CellsAre
  <2> QED
    BY <1>1, <1>2, <2>3, <2>4 DEF Grows, SamePhases
<1>4. CASE ~Reads(a, i)
  BY <1>1, <1>2, <1>4, SameEffect DEF Store
<1> QED
  BY <1>3, <1>4

LEMMA ActivatedEffect ==
    ASSUME TypeOK, CallsOK, NEW t \in Threads, Activated(t)
    PROVE  /\ Grows /\ SameCells
           /\ call[t].act \in Activations /\ storage[call[t].act].phase = "copied"
           /\ \A b \in Activations :
                 storage'[b].phase = IF b = call[t].act
                                     THEN IF current[t] = None THEN "live" ELSE "ended"
                                     ELSE storage[b].phase
<1>1. PICK a \in Activations : a = call[t].act /\ storage[a].phase = "copied"
  BY CallTypes DEF Activated, Runs, CallsOK, CallOK
<1>2. PICK p \in Phases : p = IF current[t] = None THEN "live" ELSE "ended"
  BY DEF Phases
<1>3. storage' = [storage EXCEPT ![a].phase = p] /\ scope' = scope
  BY <1>1, <1>2 DEF Activated
<1>4. /\ Grows /\ SameCells /\ storage'[a].phase = p
      /\ \A b \in Activations \ {a} : storage'[b].phase = storage[b].phase
  BY <1>3, PhaseBecomes
<1> QED
  BY <1>1, <1>2, <1>4

LEMMA EndEffect ==
    ASSUME TypeOK, NEW t \in Threads, End(t)
    PROVE  /\ Grows /\ SameCells
           /\ current[t] \in Activations /\ storage[current[t]].phase = "live"
           /\ \A b \in Activations :
                 storage'[b].phase = IF b = current[t] THEN "ending" ELSE storage[b].phase
<1>1. PICK a \in Activations : a = current[t] /\ storage[a].phase = "live"
  BY DEF End, TypeOK
<1>2. storage' = [storage EXCEPT ![a].phase = "ending"] /\ scope' = scope
  BY <1>1 DEF End
<1> QED
  BY <1>1, <1>2, PhaseBecomes, ZenonT(40) DEF Phases

-----------------------------------------------------------------------------
(* What each step does to a call                                           *)

Goes(t, pc, fn, act, got, extra) ==
    /\ call' \in [Threads -> CallRecord]
    /\ call'[t].pc = pc /\ call'[t].fn = fn /\ call'[t].act = act
    /\ call'[t].got = got /\ call'[t].extra = extra
    /\ \A u \in Threads \ {t} : call'[u] = call[u]

LEMMA GoesOn ==
    ASSUME TypeOK, NEW t \in Threads, NEW c \in CallRecord, GoOn(t, c)
    PROVE  Goes(t, c.pc, c.fn, c.act, c.got, c.extra)
BY DEF TypeOK, GoOn, Goes

LEMMA IdleIs ==
    /\ Idle \in CallRecord
    /\ Idle.pc = "idle" /\ Idle.fn = None /\ Idle.act = None /\ Idle.got = Unset /\ Idle.extra = 0
BY DEF Idle, CallRecord, PCs, AnyCell

LEMMA CallIs ==
    ASSUME TypeOK, NEW t \in Threads
    PROVE  /\ call[t] \in CallRecord
           /\ call[t].pc \in PCs /\ call[t].fn \in Cached \cup {None}
           /\ call[t].act \in Activations \cup {None} /\ call[t].got \in AnyCell
           /\ call[t].extra \in Nat
<1>1. call[t] \in CallRecord
  BY DEF TypeOK
<1> QED
  BY <1>1 DEF CallRecord

LEMMA NewActivationGoes ==
    ASSUME TypeOK, NEW t \in Threads, NEW a \in Activations, NewActivation(t, a)
    PROVE  call[t].pc = "idle" /\ Goes(t, "activating", None, a, Unset, 0)
<1>1. PICK c : c = [Idle EXCEPT !.pc = "activating", !.act = a]
  OBVIOUS
<1>2. /\ c \in CallRecord /\ c.pc = "activating" /\ c.fn = None /\ c.act = a /\ c.got = Unset
      /\ c.extra = 0
  BY <1>1, IdleIs DEF CallRecord, PCs
<1>3. GoOn(t, c) /\ call[t].pc = "idle"
  BY <1>1 DEF NewActivation, Runs
<1> QED
  BY <1>2, <1>3, GoesOn

LEMMA IdleGoes ==
    ASSUME TypeOK, NEW t \in Threads, GoOn(t, Idle)
    PROVE  Goes(t, "idle", None, None, Unset, 0)
<1>1. Goes(t, Idle.pc, Idle.fn, Idle.act, Idle.got, Idle.extra)
  BY IdleIs, GoesOn
<1> QED
  BY <1>1, IdleIs

LEMMA AllocateGoes ==
    ASSUME TypeOK, NEW t \in Threads, NEW f \in Cached, Allocate(t, f)
    PROVE  /\ call[t].pc = "idle"
           /\ \/ call' = call
              \/ current[t] \in Activations /\ Goes(t, "allocating", None, current[t], Unset, 0)
<1>1. CASE /\ current[t] \in Activations
           /\ GoOn(t, [Idle EXCEPT !.pc = "allocating", !.act = current[t]])
  <2>1. PICK c : c = [Idle EXCEPT !.pc = "allocating", !.act = current[t]]
    OBVIOUS
  <2>2. /\ c \in CallRecord /\ c.pc = "allocating" /\ c.fn = None /\ c.act = current[t]
        /\ c.got = Unset /\ c.extra = 0
    BY <1>1, <2>1, IdleIs DEF CallRecord, PCs
  <2>3. GoOn(t, c) /\ call[t].pc = "idle"
    BY <1>1, <2>1 DEF Allocate, Runs
  <2> QED
    BY <1>1, <2>2, <2>3, GoesOn
<1>2. CASE UNCHANGED call
  BY <1>2 DEF Allocate, Runs
<1> QED
  BY <1>1, <1>2 DEF Allocate, TypeOK

\* A read ends in a hit or in a computation.
LEMMA OutcomeGoes ==
    ASSUME TypeOK, NEW t \in Threads, NEW f \in Cached, NEW a \in Activations, Outcome(t, f, a)
    PROVE  LET cell == CellAt(a, function[f].slot) IN
           \/ Hit(f, cell) /\ Goes(t, "returned", f, a, cell, 0)
           \/ ~Hit(f, cell) /\ Goes(t, "computing", f, a, cell, 0)
<1> DEFINE cell == CellAt(a, function[f].slot)
           p == IF Hit(f, cell) THEN "returned" ELSE "computing"
           c == [Idle EXCEPT !.pc = p, !.fn = f, !.act = a, !.got = cell]
<1>1. cell \in AnyCell /\ p \in PCs
  BY CellsAre DEF TypeOK, PCs
<1>2. GoOn(t, c)
  BY DEF Outcome
<1> HIDE DEF cell, p
<1>3. c \in CallRecord /\ c.pc = p /\ c.fn = f /\ c.act = a /\ c.got = cell /\ c.extra = 0
  BY <1>1, IdleIs DEF CallRecord
<1> HIDE DEF c
<1>4. Goes(t, p, f, a, cell, 0)
  BY <1>2, <1>3, GoesOn
<1> QED
  BY <1>4 DEF cell, p

LEMMA CallGoes ==
    ASSUME TypeOK, NEW t \in Threads, NEW f \in Cached, Call(t, f)
    PROVE  /\ call[t].pc = "idle" /\ Lives(f)
           /\ \/ Goes(t, "missed", f, None, Unset, 0)
              \/ current[t] \in Activations /\ Outcome(t, f, current[t])
<1>1. CASE GoOn(t, [Idle EXCEPT !.pc = "missed", !.fn = f])
  <2>1. PICK c : c = [Idle EXCEPT !.pc = "missed", !.fn = f]
    OBVIOUS
  <2>2. /\ c \in CallRecord /\ c.pc = "missed" /\ c.fn = f /\ c.act = None
        /\ c.got = Unset /\ c.extra = 0
    BY <1>1, <2>1, IdleIs DEF CallRecord, PCs
  <2>3. Goes(t, "missed", f, None, Unset, 0)
    BY <1>1, <2>1, <2>2, GoesOn
  <2> QED
    BY <2>3 DEF Call, Runs, Lives
<1>2. CASE current[t] # None /\ Outcome(t, f, current[t])
  BY <1>2 DEF Call, Runs, Lives, TypeOK
<1> QED
  BY <1>1, <1>2 DEF Call

LEMMA GetSlotsGoes ==
    ASSUME TypeOK, NEW t \in Threads, GetSlots(t)
    PROVE  /\ call[t].pc = "missed"
           /\ \/ Goes(t, "idle", None, None, Unset, 0)
              \/ /\ current[t] \in Activations
                 /\ Goes(t, "found", call[t].fn, current[t], call[t].got, call[t].extra)
<1>1. CASE GoOn(t, Idle)
  BY <1>1, IdleGoes DEF GetSlots, Runs
<1>2. CASE current[t] # None /\ GoOn(t, [call[t] EXCEPT !.pc = "found", !.act = current[t]])
  <2>0. current[t] \in Activations
    BY <1>2 DEF TypeOK
  <2>1. PICK c : c = [call[t] EXCEPT !.pc = "found", !.act = current[t]]
    OBVIOUS
  <2>2. /\ c \in CallRecord /\ c.pc = "found" /\ c.fn = call[t].fn /\ c.act = current[t]
        /\ c.got = call[t].got /\ c.extra = call[t].extra
    BY <2>0, <2>1, CallIs DEF CallRecord, PCs
  <2>3. Goes(t, "found", call[t].fn, current[t], call[t].got, call[t].extra)
    BY <1>2, <2>1, <2>2, GoesOn
  <2> QED
    BY <2>0, <2>3 DEF GetSlots, Runs
<1> QED
  BY <1>1, <1>2 DEF GetSlots

LEMMA MeasureGoes ==
    ASSUME TypeOK, CallsOK, NEW t \in Threads, Measure(t)
    PROVE  /\ call[t].act \in Activations /\ Missing(call[t].act) \in Nat
           /\ \/ /\ call[t].pc = "found"
                 /\ Goes(t, "measured", call[t].fn, call[t].act, call[t].got, Missing(call[t].act))
              \/ /\ call[t].pc = "allocating"
                 /\ Goes(t, "extending", call[t].fn, call[t].act, call[t].got, Missing(call[t].act))
<1>1. call[t].act \in Activations /\ call[t].pc \in {"found", "allocating"}
  BY CallTypes DEF Measure, Runs
<1>2. Missing(call[t].act) \in Nat
  BY <1>1, CellsAre DEF TypeOK, Missing
<1>3. PICK p \in PCs : p = IF call[t].pc = "found" THEN "measured" ELSE "extending"
  BY DEF PCs
<1>4. PICK c : c = [call[t] EXCEPT !.extra = Missing(call[t].act), !.pc = p]
  OBVIOUS
<1>5. /\ c \in CallRecord /\ c.pc = p /\ c.fn = call[t].fn /\ c.act = call[t].act
      /\ c.got = call[t].got /\ c.extra = Missing(call[t].act)
  BY <1>2, <1>4, CallIs DEF CallRecord
<1>6. GoOn(t, c)
  BY <1>3, <1>4 DEF Measure
<1>7. Goes(t, p, call[t].fn, call[t].act, call[t].got, Missing(call[t].act))
  BY <1>5, <1>6, GoesOn
<1> QED
  BY <1>1, <1>2, <1>3, <1>7

LEMMA ExtendGoes ==
    ASSUME TypeOK, NEW t \in Threads, Extend(t)
    PROVE  \/ call[t].pc = "extending" /\ Goes(t, "idle", None, None, Unset, 0)
           \/ /\ call[t].pc = "measured"
              /\ Goes(t, "reread", call[t].fn, call[t].act, call[t].got, call[t].extra)
<1>1. CASE call[t].pc = "extending"
  BY <1>1, IdleGoes DEF Extend
<1>2. CASE call[t].pc = "measured"
  <2>1. PICK c : c = [call[t] EXCEPT !.pc = "reread"]
    OBVIOUS
  <2>2. /\ c \in CallRecord /\ c.pc = "reread" /\ c.fn = call[t].fn /\ c.act = call[t].act
        /\ c.got = call[t].got /\ c.extra = call[t].extra
    BY <2>1, CallIs DEF CallRecord, PCs
  <2>3. GoOn(t, c)
    BY <1>2, <2>1 DEF Extend
  <2> QED
    BY <1>2, <2>2, <2>3, GoesOn
<1> QED
  BY <1>1, <1>2 DEF Extend, Runs

LEMMA RereadGoes ==
    ASSUME TypeOK, CallsOK, NEW t \in Threads, Reread(t)
    PROVE  /\ call[t].pc = "reread" /\ call[t].fn \in Cached /\ call[t].act \in Activations
           /\ \/ Outcome(t, call[t].fn, call[t].act)
              \/ /\ ~Reads(call[t].act, function[call[t].fn].slot)
                 /\ Goes(t, "raised", call[t].fn, call[t].act, call[t].got, call[t].extra)
<1>1. call[t].pc = "reread" /\ call[t].fn \in Cached /\ call[t].act \in Activations
  BY CallTypes DEF Reread, Runs
<1>2. ASSUME GoOn(t, [call[t] EXCEPT !.pc = "raised"])
      PROVE  Goes(t, "raised", call[t].fn, call[t].act, call[t].got, call[t].extra)
  <2>1. PICK c : c = [call[t] EXCEPT !.pc = "raised"]
    OBVIOUS
  <2>2. /\ c \in CallRecord /\ c.pc = "raised" /\ c.fn = call[t].fn /\ c.act = call[t].act
        /\ c.got = call[t].got /\ c.extra = call[t].extra
    BY <2>1, CallIs DEF CallRecord, PCs
  <2> QED
    BY <1>2, <2>1, <2>2, GoesOn
<1> QED
  BY <1>1, <1>2 DEF Reread

LEMMA StoreGoes ==
    ASSUME TypeOK, CallsOK, NEW t \in Threads, Store(t)
    PROVE  /\ call[t].pc = "computing" /\ call[t].fn \in Cached /\ call[t].act \in Activations
           /\ Goes(t, "returned", call[t].fn, call[t].act, Value(call[t].fn, call[t].act),
                   call[t].extra)
<1>1. call[t].pc = "computing" /\ call[t].fn \in Cached /\ call[t].act \in Activations
  BY CallTypes DEF Store, Runs
<1>2. Value(call[t].fn, call[t].act) \in AnyCell
  BY <1>1, ValuesSay
<1>3. PICK c : c = [call[t] EXCEPT !.pc = "returned", !.got = Value(call[t].fn, call[t].act)]
  OBVIOUS
<1>4. /\ c \in CallRecord /\ c.pc = "returned" /\ c.fn = call[t].fn /\ c.act = call[t].act
      /\ c.got = Value(call[t].fn, call[t].act) /\ c.extra = call[t].extra
  BY <1>2, <1>3, CallIs DEF CallRecord, PCs
<1>5. GoOn(t, c)
  BY <1>3 DEF Store, Value
<1> QED
  BY <1>1, <1>4, <1>5, GoesOn

-----------------------------------------------------------------------------
(* What each step does to the pool                                         *)

LEMMA FreeIs ==
    ASSUME TypeOK
    PROVE  /\ Len(free) \in Nat
           /\ \A i \in 1..Len(free) : free[i] \in Nat
           /\ free # <<>> <=> Len(free) > 0
<1>1. free \in Seq(Nat)
  BY DEF TypeOK
<1> QED
  BY <1>1, LenProperties, EmptySeq

\* A slot from the pool, or one more.
LEMMA AllocateEffect ==
    ASSUME TypeOK, NEW t \in Threads, NEW f \in Cached, Allocate(t, f)
    PROVE  \E s \in Nat :
              /\ function[f].state = "undecorated"
              /\ function' \in [Cached -> [state : {"undecorated", "live", "collected"},
                                          slot : Nat, owned : BOOLEAN]]
              /\ function'[f].state = "live" /\ function'[f].slot = s
              /\ \A g \in Cached \ {f} : function'[g] = function[g]
              /\ template' \in Nat /\ Top' \in Nat /\ free' \in Seq(Nat) /\ Len(free') \in Nat
              /\ \/ /\ Len(free) > 0 /\ s = free[Len(free)] /\ Top' = Top
                    /\ function'[f].owned = ~Shared
                    /\ Len(free') = Len(free) - 1
                    /\ \A i \in 1..Len(free') : free'[i] = free[i]
                 \/ s = Top + 1 /\ Top' = Top + 1 /\ free' = free /\ ~function'[f].owned
<1> DEFINE reused == free # <<>>
           slot == IF reused THEN Last(free) ELSE IF Dense THEN template + 1 ELSE template
<1>1. /\ function[f].state = "undecorated" /\ scope' = scope
      /\ function' = [function EXCEPT ![f] =
             [state |-> "live", slot |-> slot, owned |-> Owned(reused)]]
      /\ free' = IF reused THEN Front(free) ELSE free
      /\ template' = IF reused THEN template ELSE template + 1
  BY DEF Allocate
<1>2. slot \in Nat
  BY FreeIs DEF Last, TypeOK
<1>3. /\ function' \in [Cached -> [state : {"undecorated", "live", "collected"}, slot : Nat,
                                  owned : BOOLEAN]]
      /\ function'[f].state = "live" /\ function'[f].slot = slot
      /\ function'[f].owned = Owned(reused)
      /\ \A g \in Cached \ {f} : function'[g] = function[g]
  <2> HIDE DEF slot, reused
  <2>1. Owned(reused) \in BOOLEAN
    BY DEF Owned, reused
  <2> QED
    BY <1>1, <1>2, <2>1 DEF TypeOK
<1>4. CASE reused
  <2>1. /\ free' = SubSeq(free, 1, Len(free) - 1) /\ Len(free) - 1 \in Nat /\ free \in Seq(Nat)
        /\ Len(free) > 0
    BY <1>1, <1>4, FreeIs DEF Front, TypeOK
  <2>2. /\ free' \in Seq(Nat) /\ Len(free') = Len(free) - 1
        /\ \A i \in 1..Len(free') : free'[i] = free[i]
    <3>1. PICK n \in Nat : n = Len(free) - 1
      BY <2>1
    <3>2. \A i \in 1..n : free[i] \in Nat
      BY <2>1, <3>1, FreeIs
    <3>3. /\ SubSeq(free, 1, n) \in Seq(Nat)
          /\ Len(SubSeq(free, 1, n)) = IF 1 <= n THEN n - 1 + 1 ELSE 0
          /\ \A i \in 1..(n - 1 + 1) : SubSeq(free, 1, n)[i] = free[1 + i - 1]
      BY <3>2, SubSeqProperties
    <3>4. Len(free') = n
      BY <2>1, <3>1, <3>3
    <3> QED
      BY <2>1, <3>1, <3>3, <3>4
  <2>3. Top' = Top /\ template' \in Nat /\ Top' \in Nat
    BY <1>1, <1>4 DEF Top, TypeOK, Dense
  <2>4. Len(free') \in Nat
    BY <2>2, LenProperties
  <2> QED
    BY <1>1, <1>2, <1>3, <1>4, <2>1, <2>2, <2>3, <2>4 DEF Owned, Last
<1>5. CASE ~reused
  <2>1. Top' = Top + 1 /\ slot = Top + 1 /\ template' \in Nat /\ Top' \in Nat
    BY <1>1, <1>5 DEF Top, TypeOK, Dense
  <2> QED
    BY <1>1, <1>2, <1>3, <1>5, <2>1, FreeIs DEF Owned, TypeOK
<1> QED
  BY <1>4, <1>5

LEMMA CollectEffect ==
    ASSUME TypeOK, NEW t \in Threads, NEW f \in Cached, Collect(t, f)
    PROVE  /\ finalizer[t] = None /\ Lives(f) /\ \A u \in Threads : call[u].fn # f
           /\ function' \in [Cached -> [state : {"undecorated", "live", "collected"},
                                       slot : Nat, owned : BOOLEAN]]
           /\ function'[f].state = "collected" /\ function'[f].slot = function[f].slot
           /\ function'[f].owned = function[f].owned
           /\ \A g \in Cached \ {f} : function'[g] = function[g]
           /\ \A u \in Threads \ {t} : finalizer'[u] = finalizer[u]
           /\ finalizer' \in [Threads -> [slot : Nat, act : Activations \cup {None}] \cup {None}]
           /\ finalizer'[t] # None /\ finalizer'[t].slot = function[f].slot
           /\ \/ finalizer'[t] = [slot |-> function[f].slot, act |-> current[t]]
              \/ current[t] = None
              \/ Dense /\ function[f].slot \notin DOMAIN Cells(current[t])
           /\ UNCHANGED <<scope, template, free, current, storage, call>>
<1> DEFINE R == [slot : Nat, act : Activations \cup {None}]
<1>1. PICK a \in Activations \cup {None}, i \in Nat :
         /\ i = function[f].slot
         /\ finalizer' = [finalizer EXCEPT ![t] = [slot |-> i, act |-> a]]
         /\ \/ a = current[t]
            \/ current[t] = None
            \/ Dense /\ i \notin DOMAIN Cells(current[t])
  BY DEF Collect, TypeOK
<1>2. [slot |-> i, act |-> a] \in R
  OBVIOUS
<1>3. PICK r \in R : r = [slot |-> i, act |-> a]
  BY <1>2
<1>4. r.slot = i
  BY <1>3
<1>5. r # None
  BY SlotPoolAssumption
<1> HIDE DEF R
<1>6. finalizer' = [finalizer EXCEPT ![t] = r] /\ finalizer \in [Threads -> R \cup {None}]
  BY <1>1, <1>3 DEF TypeOK, R
<1>7. /\ finalizer' \in [Threads -> R \cup {None}] /\ finalizer'[t] = r
      /\ \A u \in Threads \ {t} : finalizer'[u] = finalizer[u]
  BY <1>6
<1>8. function' = [function EXCEPT ![f].state = "collected"]
  BY DEF Collect
<1>9. /\ function' \in [Cached -> [state : {"undecorated", "live", "collected"}, slot : Nat,
                                  owned : BOOLEAN]]
      /\ function'[f].state = "collected" /\ function'[f].slot = function[f].slot
      /\ function'[f].owned = function[f].owned
      /\ \A g \in Cached \ {f} : function'[g] = function[g]
  BY <1>8, SMTT(40) DEF TypeOK
<1>10. /\ finalizer[t] = None /\ Lives(f) /\ \A u \in Threads : call[u].fn # f
       /\ UNCHANGED <<scope, template, free, current, storage, call>>
  BY DEF Collect, Lives
<1>11. \/ r = [slot |-> function[f].slot, act |-> current[t]]
       \/ current[t] = None
       \/ Dense /\ function[f].slot \notin DOMAIN Cells(current[t])
  <2>1. CASE a = current[t]
    BY <1>1, <1>3, <2>1
  <2>2. CASE a # current[t]
    BY <1>1, <2>2
  <2> QED
    BY <2>1, <2>2
<1>12. finalizer'[t] # None /\ finalizer'[t].slot = function[f].slot
  BY <1>1, <1>4, <1>5, <1>7
<1> QED
  BY <1>7, <1>9, <1>10, <1>11, <1>12 DEF R

LEMMA ReleasePool ==
    ASSUME TypeOK, NEW t \in Threads, Release(t)
    PROVE  /\ finalizer[t] # None /\ finalizer'[t] = None
           /\ finalizer' \in [Threads -> [slot : Nat, act : Activations \cup {None}] \cup {None}]
           /\ \A u \in Threads \ {t} : finalizer'[u] = finalizer[u]
           /\ free' \in Seq(Nat) /\ Len(free') \in Nat
           /\ \/ free' = free
              \/ /\ Len(free') = Len(free) + 1
                 /\ \A i \in 1..Len(free) : free'[i] = free[i]
                 /\ free'[Len(free) + 1] = finalizer[t].slot
           /\ UNCHANGED <<scope, template, function, current, call>>
<1>1. /\ finalizer[t] # None /\ finalizer' = [finalizer EXCEPT ![t] = None]
      /\ free' \in {free, Append(free, finalizer[t].slot)}
      /\ UNCHANGED <<scope, template, function, current, call>>
  BY DEF Release
<1>2. finalizer[t].slot \in Nat /\ free \in Seq(Nat)
  BY <1>1 DEF TypeOK
<1>3. CASE free' = Append(free, finalizer[t].slot)
  <2>1. /\ free' \in Seq(Nat) /\ Len(free') = Len(free) + 1
        /\ \A i \in 1..Len(free) : free'[i] = free[i]
        /\ free'[Len(free) + 1] = finalizer[t].slot
    BY <1>2, <1>3, AppendProperties
  <2> QED
    BY <1>1, <2>1, LenProperties DEF TypeOK
<1> QED
  BY <1>1, <1>2, <1>3, FreeIs DEF TypeOK

-----------------------------------------------------------------------------
(* Every step keeps it                                                     *)

\* Every step keeps the scope's kind, and the storage that is in use.
LEMMA StepGrows ==
    ASSUME TypeOK, SlotsOK, StorageOK, CallsOK, [Next]_vars
    PROVE  Grows /\ scope' = scope
<1>1. ASSUME NEW t \in Threads, NEW a \in Activations, NewActivation(t, a) PROVE Grows /\ scope' = scope
  BY <1>1, NewActivationEffect DEF NewActivation, GoOn, Runs, pool
<1>2. ASSUME NEW t \in Threads, Activated(t) PROVE Grows /\ scope' = scope
  BY <1>2, ActivatedEffect DEF Activated, GoOn, Runs, Shown, pool
<1>3. ASSUME NEW t \in Threads, End(t) PROVE Grows /\ scope' = scope
  BY <1>3, EndEffect DEF End, Runs, Shown, pool
<1>4. ASSUME NEW a \in Activations, Clear(a) PROVE Grows /\ scope' = scope
  BY <1>4, ClearEffect DEF Clear, pool
<1>5. ASSUME NEW t \in Threads, NEW u \in Threads, Copy(t, u) PROVE Grows /\ scope' = scope
  BY <1>5, SameEffect DEF Copy, Runs, pool
<1>6. ASSUME NEW t \in Threads, NEW f \in Cached, Allocate(t, f) PROVE Grows /\ scope' = scope
  BY <1>6, SameEffect DEF Allocate, GoOn, Runs, pool
<1>7. ASSUME NEW t \in Threads, NEW f \in Cached, Collect(t, f) PROVE Grows /\ scope' = scope
  BY <1>7, SameEffect DEF Collect, pool
<1>8. ASSUME NEW t \in Threads, Release(t) PROVE Grows /\ scope' = scope
  BY <1>8, ReleaseEffect DEF Release, pool
<1>9. ASSUME NEW t \in Threads, NEW f \in Cached, Call(t, f) PROVE Grows /\ scope' = scope
  BY <1>9, SameEffect DEF Call, GoOn, Runs, Outcome, pool
<1>10. ASSUME NEW t \in Threads, GetSlots(t) PROVE Grows /\ scope' = scope
  BY <1>10, SameEffect DEF GetSlots, GoOn, Runs, pool
<1>11. ASSUME NEW t \in Threads, Measure(t) PROVE Grows /\ scope' = scope
  BY <1>11, SameEffect DEF Measure, GoOn, Runs, pool
<1>12. ASSUME NEW t \in Threads, Extend(t) PROVE Grows /\ scope' = scope
  BY <1>12, ExtendStep DEF Extend, GoOn, Runs, pool
<1>13. ASSUME NEW t \in Threads, Reread(t) PROVE Grows /\ scope' = scope
  BY <1>13, SameEffect DEF Reread, GoOn, Runs, Outcome, pool
<1>14. ASSUME NEW t \in Threads, Store(t) PROVE Grows /\ scope' = scope
  BY <1>14, StoreEffect DEF Store, GoOn, Runs, pool
<1>15. ASSUME NEW t \in Threads, Return(t) PROVE Grows /\ scope' = scope
  BY <1>15, SameEffect DEF Return, GoOn, Runs, pool
<1>16. CASE UNCHANGED vars
  BY <1>16, SameEffect DEF vars
<1> QED
  BY <1>1, <1>2, <1>3, <1>4, <1>5, <1>6, <1>7, <1>8, <1>9, <1>10, <1>11,
     <1>12, <1>13, <1>14, <1>15, <1>16 DEF Next, Step

\* No slot is ever given out twice.
LEMMA SlotsKept ==
    ASSUME TypeOK, SlotsOK, [Next]_vars
    PROVE  SlotsOK'
<1>0. ASSUME UNCHANGED <<scope, pool, finalizer>> PROVE SlotsOK'
  BY <1>0 DEF pool, SlotsOK, Decorated, Lives, Top, Dense, Shared
<1>1. ASSUME NEW t \in Threads, NEW a \in Activations, NewActivation(t, a) PROVE SlotsOK'
  BY <1>1, <1>0 DEF NewActivation, GoOn, Runs, pool
<1>2. ASSUME NEW t \in Threads, Activated(t) PROVE SlotsOK'
  BY <1>2, <1>0 DEF Activated, GoOn, Runs, Shown, pool
<1>3. ASSUME NEW t \in Threads, End(t) PROVE SlotsOK'
  BY <1>3, <1>0 DEF End, Runs, Shown, pool
<1>4. ASSUME NEW a \in Activations, Clear(a) PROVE SlotsOK'
  BY <1>4, <1>0 DEF Clear, pool
<1>5. ASSUME NEW t \in Threads, NEW u \in Threads, Copy(t, u) PROVE SlotsOK'
  BY <1>5, <1>0 DEF Copy, Runs, pool
<1>6. ASSUME NEW t \in Threads, NEW f \in Cached, Allocate(t, f) PROVE SlotsOK'
  <2>1. PICK s \in Nat :
           /\ function[f].state = "undecorated"
           /\ function'[f].state = "live" /\ function'[f].slot = s
           /\ \A g \in Cached \ {f} : function'[g] = function[g]
           /\ Top' \in Nat /\ Len(free') \in Nat
           /\ \/ /\ Len(free) > 0 /\ s = free[Len(free)] /\ Top' = Top
                 /\ function'[f].owned = ~Shared
                 /\ Len(free') = Len(free) - 1
                 /\ \A i \in 1..Len(free') : free'[i] = free[i]
              \/ s = Top + 1 /\ Top' = Top + 1 /\ free' = free /\ ~function'[f].owned
    BY <1>6, AllocateEffect
  <2>2. /\ Len(free) \in Nat /\ Top \in Nat /\ Top > 0
        /\ finalizer' = finalizer /\ Shared' = Shared
    BY <1>6, FreeIs DEF Allocate, TypeOK, Shared
  <2>3. /\ \A i \in 1..Len(free) : free[i] \in 2..Top
        /\ \A i, j \in 1..Len(free) : i # j => free[i] # free[j]
        /\ \A u \in Threads : finalizer[u] # None => finalizer[u].slot \in 2..Top
        /\ \A u \in Threads, i \in 1..Len(free) : finalizer[u] # None => free[i] # finalizer[u].slot
        /\ \A g \in Cached : Decorated(g) => function[g].slot \in 2..Top
        /\ \A g \in Cached, i \in 1..Len(free) : Lives(g) => free[i] # function[g].slot
    BY <2>2 DEF SlotsOK
  <2>4. /\ s \in 2..Top' /\ Top' >= Top
        /\ \A i \in 1..Len(free') : i \in 1..Len(free) /\ free'[i] = free[i] /\ free[i] # s
        /\ \A u \in Threads : finalizer[u] # None => finalizer[u].slot # s
        /\ \A g \in Cached : Lives(g) => function[g].slot # s
        /\ ~Shared /\ ~function'[f].owned => \A g \in Cached : Decorated(g) => function[g].slot # s
    <3>1. CASE /\ Len(free) > 0 /\ s = free[Len(free)] /\ Top' = Top
               /\ function'[f].owned = ~Shared
               /\ Len(free') = Len(free) - 1
               /\ \A i \in 1..Len(free') : free'[i] = free[i]
      <4>1. Len(free) \in 1..Len(free) /\ s \in 2..Top' /\ Top' >= Top
        BY <2>2, <2>3, <3>1
      <4>2. \A i \in 1..Len(free') : i \in 1..Len(free) /\ i # Len(free) /\ free'[i] = free[i]
        BY <2>1, <2>2, <3>1
      <4>3. \A i \in 1..Len(free') : free[i] # s
        BY <2>3, <3>1, <4>1, <4>2
      <4>4. \A u \in Threads : finalizer[u] # None => finalizer[u].slot # s
        BY <2>3, <3>1, <4>1
      <4>5. \A g \in Cached : Lives(g) => function[g].slot # s
        BY <2>3, <3>1, <4>1
      <4> QED
        BY <3>1, <4>1, <4>2, <4>3, <4>4, <4>5
    <3>2. CASE s = Top + 1 /\ Top' = Top + 1 /\ free' = free /\ ~function'[f].owned
      <4>1. s \notin 2..Top /\ s \in 2..Top' /\ Top' >= Top
        BY <2>2, <3>2
      <4>2. \A i \in 1..Len(free') : i \in 1..Len(free) /\ free'[i] = free[i] /\ free[i] # s
        BY <2>3, <3>2, <4>1
      <4>3. \A u \in Threads : finalizer[u] # None => finalizer[u].slot # s
        BY <2>3, <4>1
      <4>4. \A g \in Cached : Decorated(g) => function[g].slot # s
        BY <2>3, <4>1
      <4>5. \A g \in Cached : Lives(g) => function[g].slot # s
        BY <4>4 DEF Lives, Decorated
      <4> QED
        BY <4>1, <4>2, <4>3, <4>4, <4>5
    <3> QED
      BY <2>1, <3>1, <3>2
  <2>5. 2..Top \subseteq 2..Top'
    BY <2>1, <2>2, <2>4
  <2>8. \A g \in Cached \ {f} : (Lives(g)' <=> Lives(g)) /\ (Decorated(g)' <=> Decorated(g))
    BY <2>1 DEF Lives, Decorated
  <2>9. ~Decorated(f) /\ ~Lives(f) /\ Lives(f)' /\ Decorated(f)'
    BY <2>1 DEF Lives, Decorated
  <2>10. /\ \A g \in Cached : Decorated(g)' => function'[g].slot \in 2..Top'
         /\ \A i \in 1..Len(free') : free'[i] \in 2..Top'
         /\ \A i, j \in 1..Len(free') : i # j => free'[i] # free'[j]
    BY <2>1, <2>3, <2>4, <2>5, <2>8
  <2>11. \A u \in Threads : finalizer'[u] # None =>
            /\ finalizer'[u].slot \in 2..Top'
            /\ \A i \in 1..Len(free') : free'[i] # finalizer'[u].slot
            /\ \A v \in Threads \ {u} :
                  finalizer'[v] # None => finalizer'[v].slot # finalizer'[u].slot
    BY <2>2, <2>3, <2>4, <2>5 DEF SlotsOK
  <2>12. ASSUME NEW g \in Cached, Lives(g)'
         PROVE  /\ \A h \in Cached \ {g} : Lives(h)' => function'[h].slot # function'[g].slot
                /\ \A i \in 1..Len(free') : free'[i] # function'[g].slot
                /\ \A u \in Threads : finalizer'[u] # None => finalizer'[u].slot # function'[g].slot
                /\ ~Shared' /\ ~function'[g].owned =>
                      \A h \in Cached \ {g} : Decorated(h)' => function'[h].slot # function'[g].slot
    <3>1. CASE g = f
      BY <2>1, <2>2, <2>4, <2>8, <3>1
    <3>2. CASE g # f
      <4>1. /\ Lives(g) /\ function'[g] = function[g] /\ function[g].slot # s /\ function'[f].slot = s
            /\ Decorated(g)
        BY <2>1, <2>4, <2>8, <2>12, <3>2 DEF Lives, Decorated
      <4>2. /\ \A h \in Cached \ {g} : Lives(h) => function[h].slot # function[g].slot
            /\ \A u \in Threads : finalizer[u] # None => finalizer[u].slot # function[g].slot
            /\ ~Shared /\ ~function[g].owned =>
                  \A h \in Cached \ {g} : Decorated(h) => function[h].slot # function[g].slot
        BY <4>1 DEF SlotsOK
      <4> QED
        BY <2>1, <2>2, <2>3, <2>4, <2>8, <4>1, <4>2
    <3> QED
      BY <3>1, <3>2
  <2> QED
    BY <2>10, <2>11, <2>12 DEF SlotsOK
<1>7. ASSUME NEW t \in Threads, NEW f \in Cached, Collect(t, f) PROVE SlotsOK'
  <2>1. /\ finalizer[t] = None /\ Lives(f) /\ Top' = Top /\ Shared' = Shared /\ free' = free
        /\ function'[f].state = "collected" /\ function'[f].slot = function[f].slot
        /\ \A g \in Cached \ {f} : function'[g] = function[g]
        /\ \A u \in Threads \ {t} : finalizer'[u] = finalizer[u]
        /\ finalizer'[t] # None /\ finalizer'[t].slot = function[f].slot
    BY <1>7, CollectEffect, ZenonT(40) DEF Top, Dense, Shared
  <2>2. \A g \in Cached \ {f} : (Lives(g)' <=> Lives(g)) /\ (Decorated(g)' <=> Decorated(g))
    BY <2>1 DEF Lives, Decorated
  <2>3. Decorated(f) /\ ~Lives(f)' /\ Decorated(f)'
    BY <2>1 DEF Lives, Decorated
  <2>4. \A g \in Cached : function'[g].slot = function[g].slot
                         /\ (Lives(g)' => function'[g] = function[g])
    BY <2>1, <2>3
  <2> QED
    BY <2>1, <2>2, <2>3, <2>4 DEF SlotsOK
<1>8. ASSUME NEW t \in Threads, Release(t) PROVE SlotsOK'
  <2>1. /\ finalizer[t] # None /\ finalizer'[t] = None /\ function' = function
        /\ Top' = Top /\ Shared' = Shared /\ Len(free') \in Nat
        /\ \A u \in Threads \ {t} : finalizer'[u] = finalizer[u]
        /\ \/ free' = free
           \/ /\ Len(free') = Len(free) + 1
              /\ \A i \in 1..Len(free) : free'[i] = free[i]
              /\ free'[Len(free) + 1] = finalizer[t].slot
    BY <1>8, ReleasePool DEF Top, Dense, Shared
  <2>2. \A g \in Cached : (Lives(g)' <=> Lives(g)) /\ (Decorated(g)' <=> Decorated(g))
    BY <2>1 DEF Lives, Decorated
  <2>3. ASSUME NEW i \in 1..Len(free')
        PROVE  \/ i \in 1..Len(free) /\ free'[i] = free[i]
               \/ i = Len(free) + 1 /\ free'[i] = finalizer[t].slot
    <3>1. CASE free' = free
      BY <3>1
    <3>2. CASE free' # free
      BY <2>1, <3>2, FreeIs
    <3> QED
      BY <3>1, <3>2
  <2>4. Len(free) + 1 \notin 1..Len(free)
    BY FreeIs
  <2>5. \A u \in Threads : finalizer'[u] # None => u # t /\ finalizer'[u] = finalizer[u]
    BY <2>1
  <2>6. /\ \A i \in 1..Len(free') : free'[i] \in 2..Top'
        /\ \A i, j \in 1..Len(free') : i # j => free'[i] # free'[j]
        /\ \A u \in Threads, i \in 1..Len(free') :
              finalizer'[u] # None => free'[i] # finalizer'[u].slot
        /\ \A g \in Cached, i \in 1..Len(free') : Lives(g) => free'[i] # function'[g].slot
    BY <2>1, <2>3, <2>4, <2>5 DEF SlotsOK
  <2> QED
    BY <2>1, <2>2, <2>5, <2>6 DEF SlotsOK
<1>9. ASSUME NEW t \in Threads, NEW f \in Cached, Call(t, f) PROVE SlotsOK'
  BY <1>9, <1>0 DEF Call, GoOn, Runs, Outcome, pool
<1>10. ASSUME NEW t \in Threads, GetSlots(t) PROVE SlotsOK'
  BY <1>10, <1>0 DEF GetSlots, GoOn, Runs, pool
<1>11. ASSUME NEW t \in Threads, Measure(t) PROVE SlotsOK'
  BY <1>11, <1>0 DEF Measure, GoOn, Runs, pool
<1>12. ASSUME NEW t \in Threads, Extend(t) PROVE SlotsOK'
  BY <1>12, <1>0 DEF Extend, GoOn, Runs, pool
<1>13. ASSUME NEW t \in Threads, Reread(t) PROVE SlotsOK'
  BY <1>13, <1>0 DEF Reread, GoOn, Runs, Outcome, pool
<1>14. ASSUME NEW t \in Threads, Store(t) PROVE SlotsOK'
  BY <1>14, <1>0 DEF Store, GoOn, Runs, pool
<1>15. ASSUME NEW t \in Threads, Return(t) PROVE SlotsOK'
  BY <1>15, <1>0 DEF Return, GoOn, Runs, pool
<1>16. CASE UNCHANGED vars
  BY <1>16, <1>0 DEF vars, pool
<1> QED
  BY <1>1, <1>2, <1>3, <1>4, <1>5, <1>6, <1>7, <1>8, <1>9, <1>10, <1>11,
     <1>12, <1>13, <1>14, <1>15, <1>16 DEF Next, Step

-----------------------------------------------------------------------------
(* What every step does                                                    *)

PhasesAdvance ==
    \A a \in Activations :
        /\ storage[a].phase \notin {"new", "copied"} => storage'[a].phase \notin {"new", "copied"}
        /\ storage'[a].phase = "live" => storage[a].phase \in {"copied", "live"}
        /\ storage'[a].phase = "copied" => storage[a].phase = "copied" \/ 1 \in DOMAIN Cells(a)'

\* A decorated function keeps its slot; one that is being called stays alive.
FunctionsAdvance ==
    \A f \in Cached : Decorated(f) =>
        /\ function'[f].state # "undecorated" /\ function'[f].slot = function[f].slot
        /\ Lives(f) /\ (\E u \in Threads : call[u].fn = f) => function'[f].state = "live"

\* A cell stays, is unset, or is written by a live function that has the slot.
CellsAdvance ==
    \A a \in Activations, i \in Nat : i > 1 =>
        \/ CellAt(a, i)' = CellAt(a, i)
        \/ CellAt(a, i)' = Unset
        \/ \E f \in Cached : /\ Lives(f) /\ function'[f].state = "live" /\ function[f].slot = i
                             /\ CellAt(a, i)' = Value(f, a)
                             /\ storage[a].phase \notin {"new", "copied"}

\* Storage becomes live only from a copy of the template, and once.
LEMMA PhasesDo ==
    ASSUME TypeOK, SlotsOK, StorageOK, CallsOK, [Next]_vars
    PROVE  PhasesAdvance
<1> USE DEF PhasesAdvance
<1>1. ASSUME NEW t \in Threads, NEW a \in Activations, NewActivation(t, a) PROVE PhasesAdvance
  BY <1>1, NewActivationEffect DEF NewActivation, GoOn, Runs, SamePhases
<1>2. ASSUME NEW t \in Threads, Activated(t) PROVE PhasesAdvance
  BY <1>2, ActivatedEffect DEF Activated, GoOn, Runs, Shown, SamePhases
<1>3. ASSUME NEW t \in Threads, End(t) PROVE PhasesAdvance
  BY <1>3, EndEffect DEF End, Runs, Shown, SamePhases
<1>4. ASSUME NEW a \in Activations, Clear(a) PROVE PhasesAdvance
  BY <1>4, ClearEffect DEF Clear, SamePhases
<1>5. ASSUME NEW t \in Threads, NEW u \in Threads, Copy(t, u) PROVE PhasesAdvance
  BY <1>5, SameEffect DEF Copy, Runs, SamePhases
<1>6. ASSUME NEW t \in Threads, NEW f \in Cached, Allocate(t, f) PROVE PhasesAdvance
  BY <1>6, SameEffect DEF Allocate, GoOn, Runs, SamePhases
<1>7. ASSUME NEW t \in Threads, NEW f \in Cached, Collect(t, f) PROVE PhasesAdvance
  BY <1>7, SameEffect DEF Collect, SamePhases
<1>8. ASSUME NEW t \in Threads, Release(t) PROVE PhasesAdvance
  BY <1>8, ReleaseEffect DEF Release, SamePhases
<1>9. ASSUME NEW t \in Threads, NEW f \in Cached, Call(t, f) PROVE PhasesAdvance
  BY <1>9, SameEffect DEF Call, GoOn, Runs, Outcome, SamePhases
<1>10. ASSUME NEW t \in Threads, GetSlots(t) PROVE PhasesAdvance
  BY <1>10, SameEffect DEF GetSlots, GoOn, Runs, SamePhases
<1>11. ASSUME NEW t \in Threads, Measure(t) PROVE PhasesAdvance
  BY <1>11, SameEffect DEF Measure, GoOn, Runs, SamePhases
<1>12. ASSUME NEW t \in Threads, Extend(t) PROVE PhasesAdvance
  BY <1>12, ExtendStep DEF Extend, GoOn, Runs, SamePhases
<1>13. ASSUME NEW t \in Threads, Reread(t) PROVE PhasesAdvance
  BY <1>13, SameEffect DEF Reread, GoOn, Runs, Outcome, SamePhases
<1>14. ASSUME NEW t \in Threads, Store(t) PROVE PhasesAdvance
  BY <1>14, StoreEffect DEF Store, GoOn, Runs, SamePhases
<1>15. ASSUME NEW t \in Threads, Return(t) PROVE PhasesAdvance
  BY <1>15, SameEffect DEF Return, GoOn, Runs, SamePhases
<1>16. CASE UNCHANGED vars
  BY <1>16, SameEffect DEF vars, SamePhases
<1> QED
  BY <1>1, <1>2, <1>3, <1>4, <1>5, <1>6, <1>7, <1>8, <1>9, <1>10, <1>11,
     <1>12, <1>13, <1>14, <1>15, <1>16 DEF Next, Step

\* A function is decorated once; the finalizer of one that is being called does not run.
LEMMA FunctionsDo ==
    ASSUME TypeOK, [Next]_vars
    PROVE  FunctionsAdvance
<1> USE DEF FunctionsAdvance
<1>1. ASSUME NEW t \in Threads, NEW a \in Activations, NewActivation(t, a) PROVE FunctionsAdvance
  BY <1>1 DEF NewActivation, GoOn, Runs, pool, Decorated, Lives
<1>2. ASSUME NEW t \in Threads, Activated(t) PROVE FunctionsAdvance
  BY <1>2 DEF Activated, GoOn, Runs, Shown, pool, Decorated, Lives
<1>3. ASSUME NEW t \in Threads, End(t) PROVE FunctionsAdvance
  BY <1>3 DEF End, Runs, Shown, pool, Decorated, Lives
<1>4. ASSUME NEW a \in Activations, Clear(a) PROVE FunctionsAdvance
  BY <1>4 DEF Clear, pool, Decorated, Lives
<1>5. ASSUME NEW t \in Threads, NEW u \in Threads, Copy(t, u) PROVE FunctionsAdvance
  BY <1>5 DEF Copy, Runs, pool, Decorated, Lives
<1>6. ASSUME NEW t \in Threads, NEW f \in Cached, Allocate(t, f) PROVE FunctionsAdvance
  BY <1>6, AllocateEffect DEF Decorated, Lives
<1>7. ASSUME NEW t \in Threads, NEW f \in Cached, Collect(t, f) PROVE FunctionsAdvance
  <2>1. \A u \in Threads : call[u].fn # f
    BY <1>7 DEF Collect
  <2>2. /\ function'[f].state = "collected" /\ function'[f].slot = function[f].slot
        /\ \A g \in Cached \ {f} : function'[g] = function[g]
    BY <1>7, CollectEffect, ZenonT(40)
  <2> QED
    BY <2>1, <2>2 DEF Decorated, Lives
<1>8. ASSUME NEW t \in Threads, Release(t) PROVE FunctionsAdvance
  BY <1>8 DEF Release, pool, Decorated, Lives
<1>9. ASSUME NEW t \in Threads, NEW f \in Cached, Call(t, f) PROVE FunctionsAdvance
  BY <1>9 DEF Call, GoOn, Runs, Outcome, pool, Decorated, Lives
<1>10. ASSUME NEW t \in Threads, GetSlots(t) PROVE FunctionsAdvance
  BY <1>10 DEF GetSlots, GoOn, Runs, pool, Decorated, Lives
<1>11. ASSUME NEW t \in Threads, Measure(t) PROVE FunctionsAdvance
  BY <1>11 DEF Measure, GoOn, Runs, pool, Decorated, Lives
<1>12. ASSUME NEW t \in Threads, Extend(t) PROVE FunctionsAdvance
  BY <1>12 DEF Extend, GoOn, Runs, pool, Decorated, Lives
<1>13. ASSUME NEW t \in Threads, Reread(t) PROVE FunctionsAdvance
  BY <1>13 DEF Reread, GoOn, Runs, Outcome, pool, Decorated, Lives
<1>14. ASSUME NEW t \in Threads, Store(t) PROVE FunctionsAdvance
  BY <1>14 DEF Store, GoOn, Runs, pool, Decorated, Lives
<1>15. ASSUME NEW t \in Threads, Return(t) PROVE FunctionsAdvance
  BY <1>15 DEF Return, GoOn, Runs, pool, Decorated, Lives
<1>16. CASE UNCHANGED vars
  BY <1>16 DEF vars, pool, Decorated, Lives
<1> QED
  BY <1>1, <1>2, <1>3, <1>4, <1>5, <1>6, <1>7, <1>8, <1>9, <1>10, <1>11,
     <1>12, <1>13, <1>14, <1>15, <1>16 DEF Next, Step

\* Only a function that has the slot writes to it.
LEMMA CellsDo ==
    ASSUME TypeOK, SlotsOK, StorageOK, CallsOK, [Next]_vars
    PROVE  CellsAdvance
<1>1. ASSUME NEW t \in Threads, NEW a \in Activations, NewActivation(t, a) PROVE CellsAdvance
  BY <1>1, NewActivationEffect DEF NewActivation, GoOn, Runs, SameCells, CellsAdvance
<1>2. ASSUME NEW t \in Threads, Activated(t) PROVE CellsAdvance
  BY <1>2, ActivatedEffect DEF Activated, GoOn, Runs, Shown, SameCells, CellsAdvance
<1>3. ASSUME NEW t \in Threads, End(t) PROVE CellsAdvance
  BY <1>3, EndEffect DEF End, Runs, Shown, SameCells, CellsAdvance
<1>4. ASSUME NEW a \in Activations, Clear(a) PROVE CellsAdvance
  BY <1>4, ClearEffect DEF CellsAdvance
<1>5. ASSUME NEW t \in Threads, NEW u \in Threads, Copy(t, u) PROVE CellsAdvance
  BY <1>5, SameEffect DEF Copy, Runs, SameCells, CellsAdvance
<1>6. ASSUME NEW t \in Threads, NEW f \in Cached, Allocate(t, f) PROVE CellsAdvance
  BY <1>6, SameEffect DEF Allocate, GoOn, Runs, SameCells, CellsAdvance
<1>7. ASSUME NEW t \in Threads, NEW f \in Cached, Collect(t, f) PROVE CellsAdvance
  BY <1>7, SameEffect DEF Collect, SameCells, CellsAdvance
<1>8. ASSUME NEW t \in Threads, Release(t) PROVE CellsAdvance
  BY <1>8, ReleaseEffect DEF CellsAdvance
<1>9. ASSUME NEW t \in Threads, NEW f \in Cached, Call(t, f) PROVE CellsAdvance
  BY <1>9, SameEffect DEF Call, GoOn, Runs, Outcome, SameCells, CellsAdvance
<1>10. ASSUME NEW t \in Threads, GetSlots(t) PROVE CellsAdvance
  BY <1>10, SameEffect DEF GetSlots, GoOn, Runs, SameCells, CellsAdvance
<1>11. ASSUME NEW t \in Threads, Measure(t) PROVE CellsAdvance
  BY <1>11, SameEffect DEF Measure, GoOn, Runs, SameCells, CellsAdvance
<1>12. ASSUME NEW t \in Threads, Extend(t) PROVE CellsAdvance
  BY <1>12, ExtendStep DEF Extend, GoOn, Runs, SameCells, CellsAdvance
<1>13. ASSUME NEW t \in Threads, Reread(t) PROVE CellsAdvance
  BY <1>13, SameEffect DEF Reread, GoOn, Runs, Outcome, SameCells, CellsAdvance
<1>14. ASSUME NEW t \in Threads, Store(t) PROVE CellsAdvance
  <2>1. /\ call[t].fn \in Cached /\ Lives(call[t].fn) /\ call[t].act \in Activations
        /\ storage[call[t].act].phase \notin {"new", "copied"} /\ function' = function
    BY <1>14, CallTypes DEF Store, Runs, CallsOK, CallOK, pool
  <2>2. CASE SameCells
    BY <2>2 DEF SameCells, CellsAdvance
  <2>3. CASE ~SameCells
    <3>1. \A b \in Activations, j \in Nat : j > 1 =>
             CellAt(b, j)' = IF b = call[t].act /\ j = function[call[t].fn].slot
                             THEN Value(call[t].fn, call[t].act) ELSE CellAt(b, j)
      BY <1>14, <2>3, StoreEffect
    <3> QED
      BY <2>1, <3>1 DEF CellsAdvance, Lives
  <2> QED
    BY <2>2, <2>3
<1>15. ASSUME NEW t \in Threads, Return(t) PROVE CellsAdvance
  BY <1>15, SameEffect DEF Return, GoOn, Runs, SameCells, CellsAdvance
<1>16. CASE UNCHANGED vars
  BY <1>16, SameEffect DEF vars, SameCells, CellsAdvance
<1> QED
  BY <1>1, <1>2, <1>3, <1>4, <1>5, <1>6, <1>7, <1>8, <1>9, <1>10, <1>11,
     <1>12, <1>13, <1>14, <1>15, <1>16 DEF Next, Step

PoolTypes ==
    /\ scope \in [isolation : {"shared", "context"}, storage : {"dense", "sparse"}]
    /\ template \in Nat /\ Top \in Nat /\ Top > 0
    /\ free \in Seq(Nat)
    /\ function \in [Cached -> [state : {"undecorated", "live", "collected"},
                                slot : Nat, owned : BOOLEAN]]
    /\ finalizer \in [Threads -> [slot : Nat, act : Activations \cup {None}] \cup {None}]

\* Every variable keeps its type.
LEMMA TypesKept ==
    ASSUME TypeOK, SlotsOK, StorageOK, CallsOK, [Next]_vars
    PROVE  TypeOK'
<1>0. Grows /\ scope' = scope
  BY StepGrows
<1>1. ASSUME NEW t \in Threads, NEW a \in Activations, NewActivation(t, a) PROVE TypeOK'
  <2>1. call' \in [Threads -> CallRecord]
    BY <1>1, NewActivationGoes DEF Goes, TypeOK
  <2>2. current' \in [Threads -> Activations \cup {None}]
    BY <1>1 DEF NewActivation, TypeOK
  <2>3. PoolTypes'
    BY <1>1 DEF NewActivation, pool, PoolTypes, TypeOK, Top, Dense
  <2> QED
    BY <1>0, <2>1, <2>2, <2>3 DEF TypeOK, PoolTypes, Grows, StorageType
<1>2. ASSUME NEW t \in Threads, Activated(t) PROVE TypeOK'
  <2>1. call' \in [Threads -> CallRecord]
    BY <1>2, IdleGoes DEF Activated, Goes, TypeOK
  <2>2. current' \in [Threads -> Activations \cup {None}]
    BY <1>2, ActivatedEffect DEF Activated, Runs, Shown, TypeOK
  <2>3. PoolTypes'
    BY <1>2 DEF Activated, pool, PoolTypes, TypeOK, Top, Dense
  <2> QED
    BY <1>0, <2>1, <2>2, <2>3 DEF TypeOK, PoolTypes, Grows, StorageType
<1>3. ASSUME NEW t \in Threads, End(t) PROVE TypeOK'
  <2>1. call' \in [Threads -> CallRecord]
    BY <1>3 DEF End, TypeOK
  <2>2. current' \in [Threads -> Activations \cup {None}]
    BY <1>3 DEF End, Runs, Shown, TypeOK
  <2>3. PoolTypes'
    BY <1>3 DEF End, pool, PoolTypes, TypeOK, Top, Dense
  <2> QED
    BY <1>0, <2>1, <2>2, <2>3 DEF TypeOK, PoolTypes, Grows, StorageType
<1>4. ASSUME NEW a \in Activations, Clear(a) PROVE TypeOK'
  <2>1. call' \in [Threads -> CallRecord]
    BY <1>4 DEF Clear, TypeOK
  <2>2. current' \in [Threads -> Activations \cup {None}]
    BY <1>4 DEF Clear, TypeOK
  <2>3. PoolTypes'
    BY <1>4 DEF Clear, pool, PoolTypes, TypeOK, Top, Dense
  <2> QED
    BY <1>0, <2>1, <2>2, <2>3 DEF TypeOK, PoolTypes, Grows, StorageType
<1>5. ASSUME NEW t \in Threads, NEW u \in Threads, Copy(t, u) PROVE TypeOK'
  <2>1. call' \in [Threads -> CallRecord]
    BY <1>5 DEF Copy, TypeOK
  <2>2. current' \in [Threads -> Activations \cup {None}]
    BY <1>5 DEF Copy, TypeOK
  <2>3. PoolTypes'
    BY <1>5 DEF Copy, pool, PoolTypes, TypeOK, Top, Dense
  <2> QED
    BY <1>0, <2>1, <2>2, <2>3 DEF TypeOK, PoolTypes, Grows, StorageType
<1>6. ASSUME NEW t \in Threads, NEW f \in Cached, Allocate(t, f) PROVE TypeOK'
  <2>1. call' \in [Threads -> CallRecord]
    BY <1>6, AllocateGoes DEF Goes, TypeOK
  <2>2. current' \in [Threads -> Activations \cup {None}]
    BY <1>6 DEF Allocate, TypeOK
  <2>3. PoolTypes'
    <3>1. /\ template' \in Nat /\ Top' \in Nat /\ Top' > 0 /\ free' \in Seq(Nat)
          /\ function' \in [Cached -> [state : {"undecorated", "live", "collected"}, slot : Nat,
                                      owned : BOOLEAN]]
      BY <1>6, AllocateEffect DEF TypeOK
    <3>2. finalizer' = finalizer /\ scope' = scope
      BY <1>6 DEF Allocate
    <3> QED
      BY <3>1, <3>2 DEF PoolTypes, TypeOK
  <2> QED
    BY <1>0, <2>1, <2>2, <2>3 DEF TypeOK, PoolTypes, Grows, StorageType
<1>7. ASSUME NEW t \in Threads, NEW f \in Cached, Collect(t, f) PROVE TypeOK'
  <2>1. call' \in [Threads -> CallRecord]
    BY <1>7 DEF Collect, TypeOK
  <2>2. current' \in [Threads -> Activations \cup {None}]
    BY <1>7 DEF Collect, TypeOK
  <2>3. PoolTypes'
    BY <1>7, CollectEffect, ZenonT(40) DEF PoolTypes, TypeOK, Top, Dense
  <2> QED
    BY <1>0, <2>1, <2>2, <2>3 DEF TypeOK, PoolTypes, Grows, StorageType
<1>8. ASSUME NEW t \in Threads, Release(t) PROVE TypeOK'
  <2>1. call' \in [Threads -> CallRecord]
    BY <1>8 DEF Release, TypeOK
  <2>2. current' \in [Threads -> Activations \cup {None}]
    BY <1>8 DEF Release, TypeOK
  <2>3. PoolTypes'
    BY <1>8, ReleasePool DEF PoolTypes, TypeOK, Top, Dense
  <2> QED
    BY <1>0, <2>1, <2>2, <2>3 DEF TypeOK, PoolTypes, Grows, StorageType
<1>9. ASSUME NEW t \in Threads, NEW f \in Cached, Call(t, f) PROVE TypeOK'
  <2>1. call' \in [Threads -> CallRecord]
    BY <1>9, CallGoes, OutcomeGoes DEF Goes, TypeOK
  <2>2. current' \in [Threads -> Activations \cup {None}]
    BY <1>9 DEF Call, TypeOK
  <2>3. PoolTypes'
    BY <1>9 DEF Call, pool, PoolTypes, TypeOK, Top, Dense
  <2> QED
    BY <1>0, <2>1, <2>2, <2>3 DEF TypeOK, PoolTypes, Grows, StorageType
<1>10. ASSUME NEW t \in Threads, GetSlots(t) PROVE TypeOK'
  <2>1. call' \in [Threads -> CallRecord]
    BY <1>10, GetSlotsGoes DEF Goes, TypeOK
  <2>2. current' \in [Threads -> Activations \cup {None}]
    BY <1>10 DEF GetSlots, TypeOK
  <2>3. PoolTypes'
    BY <1>10 DEF GetSlots, pool, PoolTypes, TypeOK, Top, Dense
  <2> QED
    BY <1>0, <2>1, <2>2, <2>3 DEF TypeOK, PoolTypes, Grows, StorageType
<1>11. ASSUME NEW t \in Threads, Measure(t) PROVE TypeOK'
  <2>1. call' \in [Threads -> CallRecord]
    BY <1>11, MeasureGoes DEF Goes, TypeOK
  <2>2. current' \in [Threads -> Activations \cup {None}]
    BY <1>11 DEF Measure, TypeOK
  <2>3. PoolTypes'
    BY <1>11 DEF Measure, pool, PoolTypes, TypeOK, Top, Dense
  <2> QED
    BY <1>0, <2>1, <2>2, <2>3 DEF TypeOK, PoolTypes, Grows, StorageType
<1>12. ASSUME NEW t \in Threads, Extend(t) PROVE TypeOK'
  <2>1. call' \in [Threads -> CallRecord]
    BY <1>12, ExtendGoes DEF Goes, TypeOK
  <2>2. current' \in [Threads -> Activations \cup {None}]
    BY <1>12 DEF Extend, TypeOK
  <2>3. PoolTypes'
    BY <1>12 DEF Extend, pool, PoolTypes, TypeOK, Top, Dense
  <2> QED
    BY <1>0, <2>1, <2>2, <2>3 DEF TypeOK, PoolTypes, Grows, StorageType
<1>13. ASSUME NEW t \in Threads, Reread(t) PROVE TypeOK'
  <2>1. call' \in [Threads -> CallRecord]
    BY <1>13, RereadGoes, OutcomeGoes DEF Goes, TypeOK
  <2>2. current' \in [Threads -> Activations \cup {None}]
    BY <1>13 DEF Reread, TypeOK
  <2>3. PoolTypes'
    BY <1>13 DEF Reread, pool, PoolTypes, TypeOK, Top, Dense
  <2> QED
    BY <1>0, <2>1, <2>2, <2>3 DEF TypeOK, PoolTypes, Grows, StorageType
<1>14. ASSUME NEW t \in Threads, Store(t) PROVE TypeOK'
  <2>1. call' \in [Threads -> CallRecord]
    BY <1>14, StoreGoes DEF Goes, TypeOK
  <2>2. current' \in [Threads -> Activations \cup {None}]
    BY <1>14 DEF Store, TypeOK
  <2>3. PoolTypes'
    BY <1>14 DEF Store, pool, PoolTypes, TypeOK, Top, Dense
  <2> QED
    BY <1>0, <2>1, <2>2, <2>3 DEF TypeOK, PoolTypes, Grows, StorageType
<1>15. ASSUME NEW t \in Threads, Return(t) PROVE TypeOK'
  <2>1. call' \in [Threads -> CallRecord]
    BY <1>15, IdleGoes DEF Return, Goes, TypeOK
  <2>2. current' \in [Threads -> Activations \cup {None}]
    BY <1>15 DEF Return, TypeOK
  <2>3. PoolTypes'
    BY <1>15 DEF Return, pool, PoolTypes, TypeOK, Top, Dense
  <2> QED
    BY <1>0, <2>1, <2>2, <2>3 DEF TypeOK, PoolTypes, Grows, StorageType
<1>16. CASE UNCHANGED vars
  BY <1>0, <1>16 DEF vars, TypeOK, Grows, StorageType, Top, Dense
<1> QED
  BY <1>1, <1>2, <1>3, <1>4, <1>5, <1>6, <1>7, <1>8, <1>9, <1>10, <1>11,
     <1>12, <1>13, <1>14, <1>15, <1>16 DEF Next, Step

\* What a cell holds was written there by a function that has, or had, the slot.
LEMMA StorageKept ==
    ASSUME TypeOK, SlotsOK, StorageOK, CallsOK, [Next]_vars
    PROVE  StorageOK'
<1>1. Grows /\ PhasesAdvance /\ FunctionsAdvance /\ CellsAdvance
  BY StepGrows, PhasesDo, FunctionsDo, CellsDo
<1> SUFFICES ASSUME NEW a \in Activations
             PROVE  /\ storage'[a].phase \in {"copied", "live"} => 1 \in DOMAIN Cells(a)'
                    /\ \A i \in Nat : i > 1 /\ CellAt(a, i)' # Unset =>
                          /\ storage'[a].phase \notin {"new", "copied"}
                          /\ \E g \in Cached : /\ CellAt(a, i)' = Value(g, a) /\ Decorated(g)'
                                               /\ function'[g].slot = i
  BY DEF StorageOK
<1>2. storage'[a].phase \in {"copied", "live"} => 1 \in DOMAIN Cells(a)'
  BY <1>1 DEF StorageOK, Grows, PhasesAdvance
<1>3. ASSUME NEW i \in Nat, i > 1, CellAt(a, i)' # Unset
      PROVE  /\ storage'[a].phase \notin {"new", "copied"}
             /\ \E g \in Cached : /\ CellAt(a, i)' = Value(g, a) /\ Decorated(g)'
                                  /\ function'[g].slot = i
  <2>1. PICK g \in Cached : /\ CellAt(a, i)' = Value(g, a) /\ Decorated(g) /\ function[g].slot = i
                            /\ storage[a].phase \notin {"new", "copied"}
    <3>1. CASE CellAt(a, i)' = CellAt(a, i)
      BY <1>3, <3>1 DEF StorageOK
    <3>2. CASE CellAt(a, i)' # CellAt(a, i)
      BY <1>1, <1>3, <3>2 DEF CellsAdvance, Lives, Decorated
    <3> QED
      BY <3>1, <3>2
  <2>2. Decorated(g)' /\ function'[g].slot = i
    BY <1>1, <2>1 DEF FunctionsAdvance, Decorated
  <2> QED
    BY <1>1, <2>1, <2>2 DEF PhasesAdvance
<1> QED
  BY <1>2, <1>3

-----------------------------------------------------------------------------
(* What a call reads                                                       *)

\* In a shared scope, a live function finds its own value or none in what is active.
LEMMA CurrentReadsOwn ==
    ASSUME TypeOK, SlotsOK, StorageOK, FreshOK, CurrentOK, Shared,
           NEW t \in Threads, NEW a \in Activations, current[t] = a, NEW f \in Cached, Lives(f)
    PROVE  CellAt(a, function[f].slot) \in {Unset, Value(f, a)}
<1>1. PICK i \in Nat : i = function[f].slot /\ i > 1
  <2>1. Top \in Nat /\ function[f].slot \in 2..Top
    BY DEF SlotsOK, TypeOK, Lives, Decorated
  <2> QED
    BY <2>1
<1>2. storage[a].phase = "live"
  BY DEF CurrentOK
<1> SUFFICES ASSUME CellAt(a, i) # Unset PROVE CellAt(a, i) = Value(f, a)
  BY <1>1
<1>3. PICK g \in Cached : CellAt(a, i) = Value(g, a) /\ Decorated(g) /\ function[g].slot = i
  BY <1>1 DEF StorageOK
<1>4. Lives(g) \/ \E u \in Threads : finalizer[u] = [slot |-> i, act |-> a]
  BY <1>1, <1>2, <1>3 DEF FreshOK
<1>5. ASSUME NEW u \in Threads, finalizer[u] = [slot |-> i, act |-> a] PROVE FALSE
  <2>1. finalizer[u] # None /\ finalizer[u].slot = i
    BY <1>5, SlotPoolAssumption
  <2> QED
    BY <1>1, <2>1 DEF SlotsOK
<1>6. Lives(g)
  BY <1>4, <1>5
<1>7. g = f
  BY <1>1, <1>3, <1>6 DEF SlotsOK
<1> QED
  BY <1>3, <1>7

\* What a call takes for a hit is its own function's value.
LEMMA HitIsOwn ==
    ASSUME TypeOK, SlotsOK, StorageOK, NEW f \in Cached, NEW a \in Activations, Lives(f),
           Shared => CellAt(a, function[f].slot) \in {Unset, Value(f, a)},
           Hit(f, CellAt(a, function[f].slot))
    PROVE  CellAt(a, function[f].slot) = Value(f, a)
<1>1. PICK i \in Nat : i = function[f].slot /\ i > 1
  <2>1. Top \in Nat /\ function[f].slot \in 2..Top
    BY DEF SlotsOK, TypeOK, Lives, Decorated
  <2> QED
    BY <2>1
<1>2. CellAt(a, i) # Unset
  <2>1. Unset.by = None
    BY DEF Unset
  <2>2. CASE function[f].owned
    BY <1>1, <2>1, <2>2, SlotPoolAssumption DEF Hit
  <2>3. CASE ~function[f].owned
    BY <1>1, <2>3 DEF Hit
  <2> QED
    BY <2>2, <2>3
<1>3. PICK g \in Cached : CellAt(a, i) = Value(g, a) /\ Decorated(g) /\ function[g].slot = i
  BY <1>1, <1>2 DEF StorageOK
<1>4. CASE Shared
  BY <1>1, <1>2, <1>4
<1>5. CASE ~Shared /\ function[f].owned
  <2>1. Value(g, a).by = f /\ Value(g, a).by = g
    BY <1>1, <1>3, <1>5, ValuesSay DEF Hit
  <2> QED
    BY <1>1, <1>3, <2>1
<1>6. CASE ~Shared /\ ~function[f].owned
  <2>1. g = f
    BY <1>1, <1>3, <1>6 DEF SlotsOK
  <2> QED
    BY <1>1, <1>3, <2>1
<1> QED
  BY <1>4, <1>5, <1>6

\* The read after get_slots raises only in storage that is ending.
LEMMA LiveReads ==
    ASSUME TypeOK, SlotsOK, StorageOK, ReachesSlot, NEW t \in Threads, call[t].pc = "reread",
           NEW f \in Cached, call[t].fn = f, Lives(f), NEW a \in Activations, call[t].act = a,
           storage[a].phase = "live"
    PROVE  Reads(a, function[f].slot)
<1>1. Top \in Nat /\ function[f].slot \in 2..Top
  BY DEF SlotsOK, TypeOK, Lives, Decorated
<1>2. CASE Dense
  <2>1. Len(Cells(a)) >= function[f].slot
    BY <1>2, SlotPoolAssumption DEF ReachesSlot, ReachOK
  <2>2. Len(Cells(a)) \in Nat /\ DOMAIN Cells(a) = 1..Len(Cells(a))
    BY <1>2, CellsAre
  <2> QED
    BY <1>1, <1>2, <2>1, <2>2 DEF Reads
<1>3. CASE ~Dense
  <2>1. 1 \in DOMAIN Cells(a)
    BY DEF StorageOK
  <2>2. Cells(a) # <<>>
    BY <2>1
  <2> QED
    BY <1>3, <2>2 DEF Reads, Emptied
<1> QED
  BY <1>2, <1>3

-----------------------------------------------------------------------------
(* Calls                                                                   *)

\* A call that another thread's step leaves alone.
LEMMA CallStays ==
    ASSUME TypeOK, CallsOK, PhasesAdvance, FunctionsAdvance, scope' = scope,
           NEW u \in Threads, call'[u] = call[u],
           call[u].pc = "activating" =>
               /\ storage'[call[u].act].phase = "copied"
               /\ \A v \in Threads \ {u} : call'[v].pc = "activating" => call'[v].act # call[u].act
    PROVE  CallOK(u)'
<1>1. CallOK(u) /\ (Dense' <=> Dense)
  BY DEF CallsOK, Dense
<1>2. call[u].act # None => call[u].act \in Activations
  BY CallIs
<1>3. call[u].act # None /\ call[u].pc # "activating" =>
         /\ storage'[call[u].act].phase \notin {"new", "copied"}
         /\ storage[call[u].act].phase # "live" => storage'[call[u].act].phase # "live"
  BY <1>1, <1>2 DEF CallOK, PhasesAdvance
<1>4. call[u].fn # None => function'[call[u].fn].state = "live"
  <2>1. call[u].fn # None => call[u].fn \in Cached /\ Lives(call[u].fn)
    BY <1>1, CallIs DEF CallOK
  <2> QED
    BY <2>1 DEF FunctionsAdvance, Decorated, Lives
<1>5. call[u].pc = "raised" => call[u].act # None
  BY <1>1 DEF CallOK
<1> QED
  BY <1>1, <1>3, <1>4, <1>5 DEF CallOK, Lives, Value

LEMMA CallsStay ==
    ASSUME TypeOK, CallsOK, PhasesAdvance, FunctionsAdvance, scope' = scope, call' = call,
           \A b \in Activations : storage[b].phase = "copied" => storage'[b].phase = "copied"
    PROVE  CallsOK'
<1> SUFFICES ASSUME NEW u \in Threads PROVE CallOK(u)'
  BY DEF CallsOK
<1>1. call[u].pc = "activating" =>
         /\ call[u].act \in Activations /\ storage[call[u].act].phase = "copied"
         /\ \A v \in Threads \ {u} : call[v].pc = "activating" => call[v].act # call[u].act
  BY CallTypes DEF CallsOK, CallOK
<1> QED
  BY <1>1, CallStays

\* A call that goes on, and does not activate.
LEMMA CallGoesOn ==
    ASSUME TypeOK, CallsOK, PhasesAdvance, FunctionsAdvance, scope' = scope, NEW t \in Threads,
           NEW pc, NEW fn, NEW act, NEW got, NEW extra, Goes(t, pc, fn, act, got, extra),
           \A u \in Threads \ {t} : call[u].pc = "activating" =>
               storage'[call[u].act].phase = "copied",
           pc # "activating",
           pc \in {"idle", "allocating", "extending"} <=> fn = None,
           pc \in {"idle", "missed"} <=> act = None,
           act # None => storage'[act].phase \notin {"new", "copied"},
           fn # None => function'[fn].state = "live",
           extra # 0 => Dense,
           pc = "raised" => storage'[act].phase # "live",
           pc = "returned" => got = Value(fn, act)
    PROVE  CallsOK'
<1>1. CallOK(t)'
  BY DEF CallOK, Goes, Lives, Dense, Value
<1>2. ASSUME NEW u \in Threads \ {t} PROVE CallOK(u)'
  <2>1. call'[u] = call[u] /\ call'[t].pc # "activating" /\ \A v \in Threads \ {t} : call'[v] = call[v]
    BY <1>2 DEF Goes
  <2>2. call[u].pc = "activating" =>
           \A v \in Threads \ {u} : call[v].pc = "activating" => call[v].act # call[u].act
    BY DEF CallsOK, CallOK
  <2> QED
    BY <2>1, <2>2, CallStays
<1> QED
  BY <1>1, <1>2 DEF CallsOK

\* A read that ends in a hit or in a computation.
LEMMA OutcomeIsOwn ==
    ASSUME TypeOK, SlotsOK, StorageOK, CallsOK, PhasesAdvance, FunctionsAdvance, scope' = scope,
           NEW t \in Threads, NEW f \in Cached, NEW a \in Activations, Outcome(t, f, a),
           storage' = storage, function' = function, Lives(f),
           storage[a].phase \notin {"new", "copied"},
           Shared => CellAt(a, function[f].slot) \in {Unset, Value(f, a)}
    PROVE  CallsOK'
<1>1. PICK cell \in AnyCell : cell = CellAt(a, function[f].slot)
  BY CellsAre DEF TypeOK
<1>2. \A u \in Threads \ {t} : call[u].pc = "activating" => storage'[call[u].act].phase = "copied"
  BY DEF CallsOK, CallOK
<1>3. a # None /\ f # None /\ function'[f].state = "live"
  BY SlotPoolAssumption DEF Lives
<1>4. CASE Hit(f, cell)
  <2>1. cell = Value(f, a)
    BY <1>1, <1>4, HitIsOwn
  <2>2. Goes(t, "returned", f, a, cell, 0)
    BY <1>1, <1>4, OutcomeGoes
  <2> QED
    BY <1>2, <1>3, <2>1, <2>2, CallGoesOn
<1>5. CASE ~Hit(f, cell)
  <2>1. Goes(t, "computing", f, a, cell, 0)
    BY <1>1, <1>5, OutcomeGoes
  <2> QED
    BY <1>2, <1>3, <2>1, CallGoesOn
<1> QED
  BY <1>4, <1>5

\* A call returns its own function's value, and raises only when what it found is ending.
LEMMA CallsKept ==
    ASSUME TypeOK, SlotsOK, StorageOK, FreshOK, CurrentOK, CallsOK, ReadsOwn, ReachesSlot, [Next]_vars
    PROVE  CallsOK'
<1>0. PhasesAdvance /\ FunctionsAdvance /\ scope' = scope
  BY PhasesDo, FunctionsDo, StepGrows
<1>1. ASSUME NEW t \in Threads, NEW a \in Activations, NewActivation(t, a) PROVE CallsOK'
  <2>1. Goes(t, "activating", None, a, Unset, 0)
    BY <1>1, NewActivationGoes
  <2>2. \A u \in Threads \ {t} : call[u].pc = "activating" =>
           /\ call[u].act # a /\ storage'[call[u].act].phase = "copied"
           /\ \A v \in Threads \ {u} : call[v].pc = "activating" => call[v].act # call[u].act
    BY <1>1, CallTypes, NewActivationEffect DEF CallsOK, CallOK
  <2>3. ASSUME NEW u \in Threads \ {t} PROVE CallOK(u)'
    BY <1>0, <2>1, <2>2, CallStays DEF Goes
  <2>4. CallOK(t)'
    <3>1. storage'[a].phase = "copied" /\ a # None
      BY <1>1, NewActivationEffect, SlotPoolAssumption
    <3> QED
      BY <2>1, <2>2, <3>1 DEF Goes, CallOK
  <2> QED
    BY <2>3, <2>4 DEF CallsOK
<1>2. ASSUME NEW t \in Threads, Activated(t) PROVE CallsOK'
  <2>1. \A u \in Threads \ {t} : call[u].pc = "activating" => storage'[call[u].act].phase = "copied"
    BY <1>2, CallTypes, ActivatedEffect DEF Activated, CallsOK, CallOK, SamePhases
  <2>2. Goes(t, "idle", None, None, Unset, 0)
    BY <1>2, IdleGoes DEF Activated
  <2> QED
    BY <1>0, <2>1, <2>2, CallGoesOn
<1>3. ASSUME NEW t \in Threads, End(t) PROVE CallsOK'
  <2>1. /\ call' = call
        /\ \A b \in Activations : storage[b].phase = "copied" => storage'[b].phase = "copied"
    BY <1>3, EndEffect DEF End, Runs, Shown, SamePhases
  <2> QED
    BY <1>0, <2>1, CallsStay
<1>4. ASSUME NEW a \in Activations, Clear(a) PROVE CallsOK'
  <2>1. /\ call' = call
        /\ \A b \in Activations : storage[b].phase = "copied" => storage'[b].phase = "copied"
    BY <1>4, ClearEffect DEF Clear, SamePhases
  <2> QED
    BY <1>0, <2>1, CallsStay
<1>5. ASSUME NEW t \in Threads, NEW u \in Threads, Copy(t, u) PROVE CallsOK'
  <2>1. /\ call' = call
        /\ \A b \in Activations : storage[b].phase = "copied" => storage'[b].phase = "copied"
    BY <1>5, SameEffect DEF Copy, Runs, SamePhases
  <2> QED
    BY <1>0, <2>1, CallsStay
<1>6. ASSUME NEW t \in Threads, NEW f \in Cached, Allocate(t, f) PROVE CallsOK'
  <2>1. \A u \in Threads \ {t} : call[u].pc = "activating" => storage'[call[u].act].phase = "copied"
    BY <1>6, CallTypes DEF Allocate, CallsOK, CallOK, SamePhases
  <2>2. CASE call' = call
    <3>1. storage' = storage
      BY <1>6 DEF Allocate
    <3> QED
      BY <1>0, <2>2, <3>1, CallsStay
  <2>3. CASE call' # call
    <3>1. current[t] \in Activations /\ Goes(t, "allocating", None, current[t], Unset, 0)
      BY <1>6, <2>3, AllocateGoes
    <3>2. current[t] # None /\ storage'[current[t]].phase \notin {"new", "copied"}
      BY <1>6, <3>1, SlotPoolAssumption DEF Allocate, CurrentOK
    <3> QED
      BY <1>0, <2>1, <3>1, <3>2, CallGoesOn
  <2> QED
    BY <2>2, <2>3
<1>7. ASSUME NEW t \in Threads, NEW f \in Cached, Collect(t, f) PROVE CallsOK'
  <2>1. /\ call' = call
        /\ \A b \in Activations : storage[b].phase = "copied" => storage'[b].phase = "copied"
    BY <1>7, SameEffect DEF Collect, SamePhases
  <2> QED
    BY <1>0, <2>1, CallsStay
<1>8. ASSUME NEW t \in Threads, Release(t) PROVE CallsOK'
  <2>1. /\ call' = call
        /\ \A b \in Activations : storage[b].phase = "copied" => storage'[b].phase = "copied"
    BY <1>8, ReleaseEffect DEF Release, SamePhases
  <2> QED
    BY <1>0, <2>1, CallsStay
<1>9. ASSUME NEW t \in Threads, NEW f \in Cached, Call(t, f) PROVE CallsOK'
  <2>1. \A u \in Threads \ {t} : call[u].pc = "activating" => storage'[call[u].act].phase = "copied"
    BY <1>9, CallTypes DEF Call, CallsOK, CallOK, SamePhases
  <2>2. Lives(f) /\ f # None /\ storage' = storage /\ function' = function
    BY <1>9, CallGoes, SlotPoolAssumption DEF Call, pool
  <2>3. CASE Goes(t, "missed", f, None, Unset, 0)
    BY <1>0, <2>1, <2>2, <2>3, CallGoesOn DEF Lives
  <2>4. CASE current[t] \in Activations /\ Outcome(t, f, current[t])
    <3>1. PICK a \in Activations : a = current[t]
      BY <2>4
    <3>2. storage[a].phase \notin {"new", "copied"}
      BY <3>1, SlotPoolAssumption DEF CurrentOK
    <3>3. Shared => CellAt(a, function[f].slot) \in {Unset, Value(f, a)}
      BY <2>2, <3>1, CurrentReadsOwn
    <3> QED
      BY <1>0, <2>2, <2>4, <3>1, <3>2, <3>3, OutcomeIsOwn
  <2> QED
    BY <1>9, <2>3, <2>4, CallGoes
<1>10. ASSUME NEW t \in Threads, GetSlots(t) PROVE CallsOK'
  <2>1. \A u \in Threads \ {t} : call[u].pc = "activating" => storage'[call[u].act].phase = "copied"
    BY <1>10, CallTypes DEF GetSlots, CallsOK, CallOK, SamePhases
  <2>2. CASE Goes(t, "idle", None, None, Unset, 0)
    BY <1>0, <2>1, <2>2, CallGoesOn
  <2>3. CASE /\ current[t] \in Activations
             /\ Goes(t, "found", call[t].fn, current[t], call[t].got, call[t].extra)
    <3>1. /\ call[t].fn \in Cached /\ Lives(call[t].fn) /\ function' = function
          /\ call[t].extra # 0 => Dense
      BY <1>10, CallTypes, GetSlotsGoes DEF GetSlots, pool, CallsOK, CallOK
    <3>2. call[t].fn # None /\ function'[call[t].fn].state = "live"
      BY <3>1, SlotPoolAssumption DEF Lives
    <3>3. current[t] # None /\ storage'[current[t]].phase \notin {"new", "copied"}
      BY <1>10, <2>3, SlotPoolAssumption DEF GetSlots, CurrentOK
    <3> QED
      BY <1>0, <2>1, <2>3, <3>1, <3>2, <3>3, CallGoesOn
  <2> QED
    BY <1>10, <2>2, <2>3, GetSlotsGoes
<1>11. ASSUME NEW t \in Threads, Measure(t) PROVE CallsOK'
  <2>1. \A u \in Threads \ {t} : call[u].pc = "activating" => storage'[call[u].act].phase = "copied"
    BY <1>11, CallTypes DEF Measure, CallsOK, CallOK, SamePhases
  <2>2. /\ call[t].act # None /\ storage'[call[t].act].phase \notin {"new", "copied"}
        /\ Missing(call[t].act) # 0 => Dense
    BY <1>11, MeasureGoes, SlotPoolAssumption DEF Measure, CallsOK, CallOK, Missing
  <2>3. /\ call[t].pc = "found" => call[t].fn # None /\ function'[call[t].fn].state = "live"
        /\ call[t].pc = "allocating" => call[t].fn = None
    BY <1>11 DEF Measure, pool, CallsOK, CallOK, Lives
  <2>4. CASE /\ call[t].pc = "found"
             /\ Goes(t, "measured", call[t].fn, call[t].act, call[t].got, Missing(call[t].act))
    BY <1>0, <2>1, <2>2, <2>3, <2>4, CallGoesOn
  <2>5. CASE /\ call[t].pc = "allocating"
             /\ Goes(t, "extending", call[t].fn, call[t].act, call[t].got, Missing(call[t].act))
    BY <1>0, <2>1, <2>2, <2>3, <2>5, CallGoesOn
  <2> QED
    BY <1>11, <2>4, <2>5, MeasureGoes
<1>12. ASSUME NEW t \in Threads, Extend(t) PROVE CallsOK'
  <2>1. \A u \in Threads \ {t} : call[u].pc = "activating" => storage'[call[u].act].phase = "copied"
    BY <1>12, CallTypes, ExtendStep DEF Extend, CallsOK, CallOK, SamePhases
  <2>2. CASE Goes(t, "idle", None, None, Unset, 0)
    BY <1>0, <2>1, <2>2, CallGoesOn
  <2>3. CASE /\ call[t].pc = "measured"
             /\ Goes(t, "reread", call[t].fn, call[t].act, call[t].got, call[t].extra)
    <3>1. /\ call[t].act \in Activations /\ call[t].act # None /\ call[t].fn # None
          /\ storage[call[t].act].phase \notin {"new", "copied"} /\ Lives(call[t].fn)
          /\ call[t].extra # 0 => Dense
      BY <2>3, CallTypes, SlotPoolAssumption DEF CallsOK, CallOK
    <3>2. /\ storage'[call[t].act].phase \notin {"new", "copied"}
          /\ function'[call[t].fn].state = "live"
      BY <1>12, <3>1, ExtendStep DEF Extend, pool, SamePhases, Lives
    <3> QED
      BY <1>0, <2>1, <2>3, <3>1, <3>2, CallGoesOn
  <2> QED
    BY <1>12, <2>2, <2>3, ExtendGoes
<1>13. ASSUME NEW t \in Threads, Reread(t) PROVE CallsOK'
  <2>1. \A u \in Threads \ {t} : call[u].pc = "activating" => storage'[call[u].act].phase = "copied"
    BY <1>13, CallTypes DEF Reread, CallsOK, CallOK, SamePhases
  <2>2. PICK f \in Cached, a \in Activations :
           /\ f = call[t].fn /\ a = call[t].act /\ call[t].pc = "reread"
           /\ Outcome(t, f, a) \/ (/\ ~Reads(a, function[f].slot)
                                  /\ Goes(t, "raised", f, a, call[t].got, call[t].extra))
    BY <1>13, RereadGoes
  <2>3. /\ Lives(f) /\ f # None /\ a # None /\ storage' = storage /\ function' = function
        /\ storage[a].phase \notin {"new", "copied"} /\ (call[t].extra # 0 => Dense)
    BY <1>13, <2>2, SlotPoolAssumption DEF Reread, pool, CallsOK, CallOK
  <2>4. Shared => CellAt(a, function[f].slot) \in {Unset, Value(f, a)}
    BY <2>2, <2>3 DEF ReadsOwn, OwnOK
  <2>5. CASE Outcome(t, f, a)
    BY <1>0, <2>3, <2>4, <2>5, OutcomeIsOwn
  <2>6. CASE /\ ~Reads(a, function[f].slot)
             /\ Goes(t, "raised", f, a, call[t].got, call[t].extra)
    <3>1. storage[a].phase # "live"
      BY <2>2, <2>3, <2>6, LiveReads
    <3> QED
      BY <1>0, <2>1, <2>3, <2>6, <3>1, CallGoesOn DEF Lives
  <2> QED
    BY <2>2, <2>5, <2>6
<1>14. ASSUME NEW t \in Threads, Store(t) PROVE CallsOK'
  <2>1. \A u \in Threads \ {t} : call[u].pc = "activating" => storage'[call[u].act].phase = "copied"
    BY <1>14, CallTypes, StoreEffect DEF Store, CallsOK, CallOK, SamePhases
  <2>2. /\ call[t].fn \in Cached /\ call[t].act \in Activations
        /\ Goes(t, "returned", call[t].fn, call[t].act, Value(call[t].fn, call[t].act),
                call[t].extra)
    BY <1>14, StoreGoes
  <2>3. /\ call[t].act # None /\ call[t].fn # None /\ Lives(call[t].fn)
        /\ storage[call[t].act].phase \notin {"new", "copied"} /\ (call[t].extra # 0 => Dense)
    BY <1>14, <2>2, SlotPoolAssumption DEF Store, Runs, CallsOK, CallOK
  <2>4. /\ storage'[call[t].act].phase \notin {"new", "copied"}
        /\ function'[call[t].fn].state = "live"
    BY <1>14, <2>2, <2>3, StoreEffect DEF Store, pool, SamePhases, Lives
  <2> QED
    BY <1>0, <2>1, <2>2, <2>3, <2>4, CallGoesOn
<1>15. ASSUME NEW t \in Threads, Return(t) PROVE CallsOK'
  <2>1. \A u \in Threads \ {t} : call[u].pc = "activating" => storage'[call[u].act].phase = "copied"
    BY <1>15, CallTypes DEF Return, CallsOK, CallOK, SamePhases
  <2>2. Goes(t, "idle", None, None, Unset, 0)
    BY <1>15, IdleGoes DEF Return
  <2> QED
    BY <1>0, <2>1, <2>2, CallGoesOn
<1>16. CASE UNCHANGED vars
  <2>1. call' = call /\ storage' = storage
    BY <1>16 DEF vars
  <2> QED
    BY <1>0, <2>1, CallsStay
<1> QED
  BY <1>1, <1>2, <1>3, <1>4, <1>5, <1>6, <1>7, <1>8, <1>9, <1>10, <1>11,
     <1>12, <1>13, <1>14, <1>15, <1>16 DEF Next, Step

\* A value outlives its function in a shared scope only while a finalizer is about to unset it.
LEMMA FreshKept ==
    ASSUME TypeOK, SlotsOK, StorageOK, FreshOK, CurrentOK, CallsOK, [Next]_vars
    PROVE  FreshOK'
<1>1. /\ PhasesAdvance /\ FunctionsAdvance /\ CellsAdvance /\ scope' = scope
      /\ (Shared' <=> Shared)
  BY PhasesDo, FunctionsDo, CellsDo, StepGrows DEF Shared
<1> SUFFICES ASSUME Shared, NEW a \in Activations, storage'[a].phase = "live",
                    NEW i \in Nat, NEW g \in Cached, i > 1, CellAt(a, i)' = Value(g, a),
                    function'[g].state # "live"
             PROVE  \E t \in Threads : finalizer'[t] = [slot |-> i, act |-> a]
  BY <1>1 DEF FreshOK, Lives
<1>2. CellAt(a, i) = Value(g, a)
  <2>1. CellAt(a, i)' # Unset
    BY ValuesSay
  <2>2. ASSUME NEW f \in Cached, function'[f].state = "live", CellAt(a, i)' = Value(f, a)
        PROVE  FALSE
    <3>1. Value(f, a).by = f /\ Value(g, a).by = g
      BY ValuesSay
    <3> QED
      BY <2>2, <3>1
  <2> QED
    BY <1>1, <2>1, <2>2 DEF CellsAdvance
<1>3. storage[a].phase = "live" /\ Decorated(g) /\ function[g].slot = i
  <2>1. CellAt(a, i) # Unset
    BY <1>2, ValuesSay
  <2>2. PICK h \in Cached : CellAt(a, i) = Value(h, a) /\ Decorated(h) /\ function[h].slot = i
    BY <2>1 DEF StorageOK
  <2>3. h = g
    <3>1. Value(h, a).by = h /\ Value(g, a).by = g
      BY ValuesSay
    <3> QED
      BY <1>2, <2>2, <3>1
  <2> QED
    BY <1>1, <2>1, <2>2, <2>3 DEF StorageOK, PhasesAdvance
<1>4. CASE Lives(g)
  <2>1. PICK t \in Threads : Collect(t, g)
    <3>1. ASSUME NEW t \in Threads, NEW f \in Cached, Allocate(t, f) PROVE FALSE
      <4>1. function[f].state = "undecorated" /\ \A h \in Cached \ {f} : function'[h] = function[h]
        BY <3>1, AllocateEffect
      <4> QED
        BY <1>4, <4>1 DEF Lives
    <3>2. ASSUME NEW t \in Threads, NEW f \in Cached, Collect(t, f) PROVE f = g
      <4>1. \A h \in Cached \ {f} : function'[h] = function[h]
        BY <3>2, CollectEffect
      <4> QED
        BY <1>4, <4>1 DEF Lives
    <3>3. function' # function
      BY <1>4 DEF Lives
    <3> QED
      BY <3>1, <3>2, <3>3 DEF Next, Step, vars, pool, NewActivation, Activated, End, Clear, Copy,
         Release, Call, GetSlots, Measure, Extend, Reread, Store, Return
  <2>2. current[t] = a /\ a # None
    BY <1>3, SlotPoolAssumption DEF CurrentOK
  <2>3. i \in DOMAIN Cells(a)
    BY <1>2, ValuesSay DEF CellAt
  <2>4. finalizer'[t] = [slot |-> i, act |-> a]
    BY <1>3, <2>1, <2>2, <2>3, CollectEffect
  <2> QED
    BY <2>4
<1>5. CASE ~Lives(g)
  <2>1. PICK t \in Threads : finalizer[t] = [slot |-> i, act |-> a]
    BY <1>2, <1>3, <1>5 DEF FreshOK
  <2>2. finalizer[t] # None /\ finalizer[t].slot = i /\ finalizer[t].act = a
    BY <2>1, SlotPoolAssumption
  <2>3. ~Release(t)
    <3>1. CellAt(a, i)' # Unset
      BY ValuesSay
    <3> QED
      BY <2>2, <3>1, ReleaseEffect
  <2>4. finalizer'[t] = finalizer[t]
    <3>1. ASSUME NEW u \in Threads, NEW f \in Cached, Collect(u, f) PROVE finalizer'[t] = finalizer[t]
      BY <2>2, <3>1, CollectEffect
    <3>2. ASSUME NEW u \in Threads, Release(u) PROVE finalizer'[t] = finalizer[t]
      BY <2>3, <3>2, ReleasePool
    <3>3. CASE finalizer' = finalizer
      BY <3>3
    <3> QED
      BY <3>1, <3>2, <3>3 DEF Next, Step, vars, NewActivation, Activated, End, Clear, Copy,
         Allocate, Call, GetSlots, Measure, Extend, Reread, Store, Return
  <2> QED
    BY <2>1, <2>4
<1> QED
  BY <1>4, <1>5

\* The threads of a shared scope show the one live activation.
LEMMA CurrentKept ==
    ASSUME TypeOK, SlotsOK, StorageOK, CurrentOK, CallsOK, [Next]_vars
    PROVE  CurrentOK'
<1>a. \A t \in Threads : current[t] # None => current[t] \in Activations
  BY DEF TypeOK
<1>0. ASSUME UNCHANGED <<scope, current>>,
             \A a \in Activations : storage'[a].phase = storage[a].phase
      PROVE  CurrentOK'
  BY <1>a, <1>0 DEF CurrentOK, Shared
<1>1. ASSUME NEW t \in Threads, NEW a \in Activations, NewActivation(t, a) PROVE CurrentOK'
  <2>1. /\ UNCHANGED <<scope, current>>
        /\ storage[a].phase = "new" /\ storage'[a].phase = "copied"
        /\ \A b \in Activations \ {a} : storage'[b].phase = storage[b].phase
    BY <1>1, NewActivationEffect DEF NewActivation
  <2> QED
    BY <1>a, <2>1 DEF CurrentOK, Shared
<1>2. ASSUME NEW t \in Threads, Activated(t) PROVE CurrentOK'
  <2>1. PICK a \in Activations :
           /\ a = call[t].act /\ storage[a].phase = "copied" /\ a # None
           /\ \A b \in Activations \ {a} : storage'[b].phase = storage[b].phase
           /\ storage'[a].phase = IF current[t] = None THEN "live" ELSE "ended"
    BY <1>2, ActivatedEffect, SlotPoolAssumption
  <2>2. scope' = scope /\ (Shared' <=> Shared)
    BY <1>2 DEF Activated, Shared
  <2>3. CASE current[t] # None
    <3>1. current' = current /\ storage'[a].phase = "ended"
      BY <1>2, <2>1, <2>3 DEF Activated
    <3> QED
      BY <1>a, <2>1, <2>2, <3>1 DEF CurrentOK
  <2>4. CASE current[t] = None
    <3>1. current' = Shown(t, a) /\ storage'[a].phase = "live"
      BY <1>2, <2>1, <2>4 DEF Activated
    <3>2. \A u \in Threads : current'[u] = IF Shared \/ u = t THEN a ELSE current[u]
      BY <3>1 DEF Shown, TypeOK
    <3>3. Shared => \A b \in Activations : storage[b].phase # "live"
      BY <2>4, SlotPoolAssumption DEF CurrentOK
    <3> QED
      BY <1>a, <2>1, <2>2, <3>1, <3>2, <3>3 DEF CurrentOK
  <2> QED
    BY <2>3, <2>4
<1>3. ASSUME NEW t \in Threads, End(t) PROVE CurrentOK'
  <2>1. PICK a \in Activations :
           /\ a = current[t] /\ storage[a].phase = "live" /\ a # None
           /\ \A b \in Activations \ {a} : storage'[b].phase = storage[b].phase
           /\ storage'[a].phase = "ending"
    BY <1>3, EndEffect, SlotPoolAssumption
  <2>2. scope' = scope /\ (Shared' <=> Shared) /\ current' = Shown(t, None)
    BY <1>3 DEF End, Shared
  <2>3. \A u \in Threads : current'[u] = IF Shared \/ u = t THEN None ELSE current[u]
    BY <2>2 DEF Shown, TypeOK
  <2>4. Shared => \A b \in Activations \ {a} : storage[b].phase # "live"
    BY <2>1 DEF CurrentOK
  <2> QED
    BY <1>a, <2>1, <2>2, <2>3, <2>4, SlotPoolAssumption DEF CurrentOK
<1>4. ASSUME NEW a \in Activations, Clear(a) PROVE CurrentOK'
  <2>1. /\ UNCHANGED <<scope, current>>
        /\ storage[a].phase = "ending" /\ storage'[a].phase = "ended"
        /\ \A b \in Activations \ {a} : storage'[b].phase = storage[b].phase
    BY <1>4, ClearEffect DEF Clear
  <2> QED
    BY <1>a, <2>1 DEF CurrentOK, Shared
<1>5. ASSUME NEW t \in Threads, NEW u \in Threads, Copy(t, u) PROVE CurrentOK'
  <2>1. /\ ~Shared /\ scope' = scope /\ storage' = storage
        /\ current' = [current EXCEPT ![t] = current[u]]
    BY <1>5 DEF Copy
  <2> QED
    BY <2>1 DEF CurrentOK, Shared, TypeOK
<1>6. ASSUME NEW t \in Threads, NEW f \in Cached, Allocate(t, f) PROVE CurrentOK'
  <2>1. /\ UNCHANGED <<scope, current>>
        /\ \A a \in Activations : storage'[a].phase = storage[a].phase
    BY <1>6, SameEffect DEF Allocate, GoOn, Runs, SamePhases
  <2> QED
    BY <1>0, <2>1
<1>7. ASSUME NEW t \in Threads, NEW f \in Cached, Collect(t, f) PROVE CurrentOK'
  <2>1. /\ UNCHANGED <<scope, current>>
        /\ \A a \in Activations : storage'[a].phase = storage[a].phase
    BY <1>7, SameEffect DEF Collect, SamePhases
  <2> QED
    BY <1>0, <2>1
<1>8. ASSUME NEW t \in Threads, Release(t) PROVE CurrentOK'
  <2>1. /\ UNCHANGED <<scope, current>>
        /\ \A a \in Activations : storage'[a].phase = storage[a].phase
    BY <1>8, ReleaseEffect DEF Release, SamePhases
  <2> QED
    BY <1>0, <2>1
<1>9. ASSUME NEW t \in Threads, NEW f \in Cached, Call(t, f) PROVE CurrentOK'
  <2>1. /\ UNCHANGED <<scope, current>>
        /\ \A a \in Activations : storage'[a].phase = storage[a].phase
    BY <1>9, SameEffect DEF Call, GoOn, Runs, Outcome, SamePhases
  <2> QED
    BY <1>0, <2>1
<1>10. ASSUME NEW t \in Threads, GetSlots(t) PROVE CurrentOK'
  <2>1. /\ UNCHANGED <<scope, current>>
        /\ \A a \in Activations : storage'[a].phase = storage[a].phase
    BY <1>10, SameEffect DEF GetSlots, GoOn, Runs, SamePhases
  <2> QED
    BY <1>0, <2>1
<1>11. ASSUME NEW t \in Threads, Measure(t) PROVE CurrentOK'
  <2>1. /\ UNCHANGED <<scope, current>>
        /\ \A a \in Activations : storage'[a].phase = storage[a].phase
    BY <1>11, SameEffect DEF Measure, GoOn, Runs, SamePhases
  <2> QED
    BY <1>0, <2>1
<1>12. ASSUME NEW t \in Threads, Extend(t) PROVE CurrentOK'
  <2>1. /\ UNCHANGED <<scope, current>>
        /\ \A a \in Activations : storage'[a].phase = storage[a].phase
    BY <1>12, ExtendStep DEF Extend, GoOn, Runs, SamePhases
  <2> QED
    BY <1>0, <2>1
<1>13. ASSUME NEW t \in Threads, Reread(t) PROVE CurrentOK'
  <2>1. /\ UNCHANGED <<scope, current>>
        /\ \A a \in Activations : storage'[a].phase = storage[a].phase
    BY <1>13, SameEffect DEF Reread, GoOn, Runs, Outcome, SamePhases
  <2> QED
    BY <1>0, <2>1
<1>14. ASSUME NEW t \in Threads, Store(t) PROVE CurrentOK'
  <2>1. /\ UNCHANGED <<scope, current>>
        /\ \A a \in Activations : storage'[a].phase = storage[a].phase
    BY <1>14, StoreEffect DEF Store, GoOn, Runs, SamePhases
  <2> QED
    BY <1>0, <2>1
<1>15. ASSUME NEW t \in Threads, Return(t) PROVE CurrentOK'
  <2>1. /\ UNCHANGED <<scope, current>>
        /\ \A a \in Activations : storage'[a].phase = storage[a].phase
    BY <1>15, SameEffect DEF Return, GoOn, Runs, SamePhases
  <2> QED
    BY <1>0, <2>1
<1>16. CASE UNCHANGED vars
  BY <1>0, <1>16 DEF vars
<1> QED
  BY <1>1, <1>2, <1>3, <1>4, <1>5, <1>6, <1>7, <1>8, <1>9, <1>10, <1>11,
     <1>12, <1>13, <1>14, <1>15, <1>16 DEF Next, Step

CallsAdvance ==
    \A u \in Threads :
        /\ \/ call'[u].fn = None
           \/ call'[u].act = None
           \/ call'[u].fn = call[u].fn /\ call'[u].act = call[u].act
           \/ call'[u].act = current[u] /\ call'[u].fn \in Cached /\ Lives(call'[u].fn)
        /\ call'[u].pc \in {"measured", "reread"} => call'[u] = call[u] \/ Measure(u) \/ Extend(u)

\* A call finds its storage in the variable of its thread.
LEMMA CallsDo ==
    ASSUME TypeOK, CallsOK, [Next]_vars
    PROVE  CallsAdvance
<1>1. ASSUME NEW t \in Threads, NEW a \in Activations, NewActivation(t, a) PROVE CallsAdvance
  BY <1>1, NewActivationGoes, CallTypes DEF CallsAdvance, Goes
<1>2. ASSUME NEW t \in Threads, Activated(t) PROVE CallsAdvance
  BY <1>2, IdleGoes, CallTypes DEF CallsAdvance, Goes, Activated
<1>3. ASSUME NEW t \in Threads, End(t) PROVE CallsAdvance
  BY <1>3 DEF End, CallsAdvance
<1>4. ASSUME NEW a \in Activations, Clear(a) PROVE CallsAdvance
  BY <1>4 DEF Clear, CallsAdvance
<1>5. ASSUME NEW t \in Threads, NEW u \in Threads, Copy(t, u) PROVE CallsAdvance
  BY <1>5 DEF Copy, CallsAdvance
<1>6. ASSUME NEW t \in Threads, NEW f \in Cached, Allocate(t, f) PROVE CallsAdvance
  BY <1>6, AllocateGoes, CallTypes DEF CallsAdvance, Goes
<1>7. ASSUME NEW t \in Threads, NEW f \in Cached, Collect(t, f) PROVE CallsAdvance
  BY <1>7 DEF Collect, CallsAdvance
<1>8. ASSUME NEW t \in Threads, Release(t) PROVE CallsAdvance
  BY <1>8 DEF Release, CallsAdvance
<1>9. ASSUME NEW t \in Threads, NEW f \in Cached, Call(t, f) PROVE CallsAdvance
  BY <1>9, CallGoes, OutcomeGoes, CallTypes DEF CallsAdvance, Goes
<1>10. ASSUME NEW t \in Threads, GetSlots(t) PROVE CallsAdvance
  BY <1>10, GetSlotsGoes, CallTypes DEF CallsAdvance, Goes, CallsOK, CallOK
<1>11. ASSUME NEW t \in Threads, Measure(t) PROVE CallsAdvance
  BY <1>11, MeasureGoes, CallTypes DEF CallsAdvance, Goes
<1>12. ASSUME NEW t \in Threads, Extend(t) PROVE CallsAdvance
  BY <1>12, ExtendGoes, CallTypes DEF CallsAdvance, Goes
<1>13. ASSUME NEW t \in Threads, Reread(t) PROVE CallsAdvance
  BY <1>13, RereadGoes, OutcomeGoes, CallTypes DEF CallsAdvance, Goes
<1>14. ASSUME NEW t \in Threads, Store(t) PROVE CallsAdvance
  BY <1>14, StoreGoes, CallTypes DEF CallsAdvance, Goes
<1>15. ASSUME NEW t \in Threads, Return(t) PROVE CallsAdvance
  BY <1>15, IdleGoes, CallTypes DEF CallsAdvance, Goes, Return
<1>16. CASE UNCHANGED vars
  BY <1>16 DEF vars, CallsAdvance
<1> QED
  BY <1>1, <1>2, <1>3, <1>4, <1>5, <1>6, <1>7, <1>8, <1>9, <1>10, <1>11,
     <1>12, <1>13, <1>14, <1>15, <1>16 DEF Next, Step

\* No other function's value gets into the cell a call is about to read.
LEMMA ReadsOwnKept ==
    ASSUME TypeOK, SlotsOK, StorageOK, FreshOK, CurrentOK, CallsOK, ReadsOwn, ReachesSlot,
           [Next]_vars
    PROVE  ReadsOwn'
<1>1. /\ FunctionsAdvance /\ CellsAdvance /\ CallsAdvance /\ (Shared' <=> Shared)
  BY FunctionsDo, CellsDo, CallsDo, StepGrows DEF Shared
<1>2. CallsOK' /\ TypeOK'
  BY TypesKept, CallsKept
<1> SUFFICES ASSUME Shared, NEW u \in Threads, NEW f \in Cached, NEW a \in Activations, NEW j,
                    call'[u].fn = f, call'[u].act = a, function'[f].slot = j
             PROVE  CellAt(a, j)' \in {Unset, Value(f, a)}
  <2>1. \A v \in Threads : /\ call'[v].fn \in Cached \cup {None}
                           /\ call'[v].act \in Activations \cup {None}
    BY <1>2 DEF TypeOK, CallRecord
  <2> QED
    BY <1>1, <2>1 DEF ReadsOwn, OwnOK, Value, CellAt, Cells
<1>3. Lives(f) /\ CellAt(a, function[f].slot) \in {Unset, Value(f, a)}
  <2>1. f # None /\ a # None
    BY SlotPoolAssumption
  <2>2. CASE call'[u].fn = call[u].fn /\ call'[u].act = call[u].act
    BY <2>1, <2>2 DEF CallsOK, CallOK, ReadsOwn, OwnOK
  <2>3. CASE call'[u].act = current[u] /\ Lives(call'[u].fn)
    BY <2>3, CurrentReadsOwn
  <2> QED
    BY <1>1, <2>1, <2>2, <2>3 DEF CallsAdvance
<1>4. PICK i \in Nat : i = function[f].slot /\ i > 1 /\ i = function'[f].slot
  <2>1. Top \in Nat /\ function[f].slot \in 2..Top
    BY <1>3 DEF SlotsOK, TypeOK, Lives, Decorated
  <2>2. function'[f].slot = function[f].slot
    BY <1>1, <1>3 DEF FunctionsAdvance, Lives, Decorated
  <2> QED
    BY <2>1, <2>2
<1>5. CellAt(a, i)' \in {Unset, Value(f, a)}
  <2>1. \A g \in Cached : Lives(g) /\ function[g].slot = i => g = f
    BY <1>3, <1>4 DEF SlotsOK
  <2> QED
    BY <1>1, <1>3, <1>4, <2>1 DEF CellsAdvance
<1> QED
  BY <1>4, <1>5

\* A storage in use reaches the slot that was measured for.
LEMMA ReachesSlotKept ==
    ASSUME TypeOK, SlotsOK, StorageOK, FreshOK, CurrentOK, CallsOK, ReadsOwn, ReachesSlot,
           [Next]_vars
    PROVE  ReachesSlot'
<1>1. /\ PhasesAdvance /\ FunctionsAdvance /\ CallsAdvance /\ Grows /\ (Dense' <=> Dense)
  BY PhasesDo, FunctionsDo, CallsDo, StepGrows DEF Dense
<1>2. CallsOK' /\ TypeOK' /\ SlotsOK'
  BY TypesKept, CallsKept, SlotsKept
<1> SUFFICES ASSUME NEW u \in Threads, Dense, NEW f \in Cached, NEW a \in Activations,
                    call'[u].fn = f, call'[u].act = a, storage'[a].phase = "live"
             PROVE  /\ call'[u].pc = "measured" =>
                          Len(Cells(a)') + call'[u].extra >= function'[f].slot
                    /\ call'[u].pc = "reread" => Len(Cells(a)') >= function'[f].slot
  BY <1>1, <1>2 DEF ReachesSlot, ReachOK, TypeOK, CallRecord, Cells
<1>3. Len(Cells(a)) \in Nat /\ Len(Cells(a)') \in Nat /\ call[u].extra \in Nat /\ template \in Nat
  BY <1>1, CellsAre, CallIs, LenProperties DEF TypeOK, Grows, StorageType
<1>4. ASSUME call[u].fn = f, call[u].act = a, call[u].pc # "activating"
      PROVE  /\ storage[a].phase = "live" /\ Len(Cells(a)') >= Len(Cells(a))
             /\ function'[f].slot = function[f].slot /\ function[f].slot \in 2..template
             /\ f # None /\ a # None
  <2>1. Lives(f) /\ storage[a].phase \notin {"new", "copied"} /\ f # None /\ a # None
    BY <1>4, SlotPoolAssumption DEF CallsOK, CallOK
  <2>2. storage[a].phase = "live"
    BY <1>1, <2>1 DEF PhasesAdvance
  <2>3. function'[f].slot = function[f].slot /\ function[f].slot \in 2..Top
    BY <1>1, <2>1 DEF FunctionsAdvance, SlotsOK, Lives, Decorated
  <2> QED
    BY <1>1, <2>1, <2>2, <2>3 DEF Grows, Top
<1>5. CASE call'[u] = call[u]
  <2>1. call'[u].pc \in {"measured", "reread"} => call[u].pc # "activating"
    BY <1>5
  <2> QED
    BY <1>3, <1>4, <1>5, <2>1, SMTT(40) DEF ReachesSlot, ReachOK
<1>6. CASE Measure(u)
  <2>1. /\ call[u].fn = f /\ call[u].act = a /\ call[u].pc # "activating"
        /\ call'[u].pc = "measured" => call'[u].extra = Missing(a)
        /\ call'[u].pc # "reread"
    BY <1>6, MeasureGoes DEF Goes
  <2>2. /\ Cells(a)' = Cells(a)
        /\ Missing(a) = IF Len(Cells(a)) < template THEN template - Len(Cells(a)) ELSE 0
    BY <1>6 DEF Measure, Missing, Cells
  <2> QED
    BY <1>3, <1>4, <2>1, <2>2
<1>7. CASE Extend(u) /\ call'[u].fn # None
  <2>1. /\ call[u].fn = f /\ call[u].act = a /\ call[u].pc = "measured" /\ call'[u].pc = "reread"
    BY <1>7, SlotPoolAssumption, ExtendGoes DEF Goes
  <2>2. Len(Cells(a))' = Len(Cells(a)) + call[u].extra
    BY <1>7, <2>1, ExtendStep
  <2>3. Len(Cells(a)) + call[u].extra >= function[f].slot
    BY <1>4, <2>1 DEF ReachesSlot, ReachOK
  <2> QED
    BY <1>3, <1>4, <2>1, <2>2, <2>3
<1> QED
  BY <1>1, <1>5, <1>6, <1>7, SlotPoolAssumption DEF CallsAdvance

-----------------------------------------------------------------------------
(* The theorems                                                            *)

LEMMA InitHolds ==
    ASSUME Init PROVE PoolInv
<1> USE DEF Init
<1>1. Idle \in CallRecord
  BY IdleIs
<1>2. /\ scope \in [isolation : {"shared", "context"}, storage : {"dense", "sparse"}]
      /\ template \in Nat /\ Top \in Nat /\ Top > 0 /\ free \in Seq(Nat) /\ Len(free) = 0
  BY EmptySeq DEF Top
<1>3. /\ function \in [Cached -> [state : {"undecorated", "live", "collected"},
                                slot : Nat, owned : BOOLEAN]]
      /\ current \in [Threads -> Activations \cup {None}]
      /\ finalizer \in [Threads -> [slot : Nat, act : Activations \cup {None}] \cup {None}]
      /\ call \in [Threads -> CallRecord]
  BY <1>1
<1>4. <<>> \in Contents /\ <<>> \in Seq(AnyCell)
  BY ContentsAre, EmptySeq
<1>5. /\ storage \in [Activations -> [phase : Phases, cells : Contents]]
      /\ \A a \in Activations : storage[a].phase = "new" /\ Cells(a) = <<>>
  BY <1>4 DEF Phases, Cells
<1>6. TypeOK
  BY <1>2, <1>3, <1>4, <1>5 DEF TypeOK
<1>7. SlotsOK
  BY <1>2 DEF SlotsOK, Decorated, Lives
<1>8. StorageOK /\ FreshOK
  <2>1. \A a \in Activations, i \in Nat : CellAt(a, i) = Unset
    BY <1>5 DEF CellAt
  <2> QED
    BY <1>5, <2>1 DEF StorageOK, FreshOK
<1>9. CurrentOK
  BY <1>5, SlotPoolAssumption DEF CurrentOK
<1>10. CallsOK /\ ReadsOwn /\ ReachesSlot
  BY IdleIs DEF CallsOK, CallOK, ReadsOwn, OwnOK, ReachesSlot, ReachOK
<1> QED
  BY <1>6, <1>7, <1>8, <1>9, <1>10 DEF PoolInv

\* The invariant, of every execution.
THEOREM PoolInvariant == Spec => []PoolInv
<1>1. Init => PoolInv
  BY InitHolds
<1>2. PoolInv /\ [Next]_vars => PoolInv'
  BY TypesKept, SlotsKept, StorageKept, FreshKept, CurrentKept, CallsKept, ReadsOwnKept,
     ReachesSlotKept DEF PoolInv
<1> QED
  BY <1>1, <1>2, PTL DEF Spec

\* Every variable keeps its type: slots are numbers, storage holds cells, a thread's call names a
\* function and an activation that exist.
THEOREM TypeCorrect == Spec => []TypeOK
<1>1. PoolInv => TypeOK
  BY DEF PoolInv
<1> QED
  BY <1>1, PoolInvariant, PTL

\* A call returns what its own function computed in the activation the call found, however many
\* threads decorate, collect, activate, end and call in between, and whoever had its slot before
\* (scope.py:350-382, _wrappers.py:67-139).
THEOREM CallsReturnTheirOwn == Spec => []NoForeignValue
<1>1. PoolInv => NoForeignValue
  BY DEF PoolInv, CallsOK, CallOK, NoForeignValue, Value
<1> QED
  BY <1>1, PoolInvariant, PTL

\* A call that raises found an activation that is ending, also when its function was decorated
\* after the activation began; and two live functions never share a slot (scope.py:265-285).
THEOREM LiveServe == Spec => []LiveActivationsServe
<1>1. PoolInv => LiveActivationsServe
  BY DEF PoolInv, CallsOK, CallOK, SlotsOK, Lives, LiveActivationsServe
<1> QED
  BY <1>1, PoolInvariant, PTL
=============================================================================
