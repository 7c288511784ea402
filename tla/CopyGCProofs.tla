---------------------------- MODULE CopyGCProofs ----------------------------
(***************************************************************************)
(* Proofs about CopyGC, for every size of the halves, every set of          *)
(* registers and every program.                                             *)
(***************************************************************************)
EXTENDS CopyGC, TLAPS, FiniteSetTheorems, WellFoundedInduction

(* The cells of the old half that were in use when the collection began.    *)
OldCells == First(Old) .. end - 1
Moved == {c \in OldCells : fwd[c]}

(* What the collector has done with a cell of the new half, which it scans  *)
(* car first: the children it has relocated, and those it has not.          *)
CarDone(c) == pc = "free" \/ (pc = "scan" /\ (c < ptr \/ (c = ptr /\ field = "cdr")))
CdrDone(c) == pc = "free" \/ (pc = "scan" /\ c < ptr)
Relocated(c) ==
  {x \in {car[c]} : HasCar(type[c]) /\ CarDone(c) /\ x # NIL}
    \cup {x \in {cdr[c]} : HasCdr(type[c]) /\ CdrDone(c) /\ x # NIL}
NotRelocated(c) ==
  {x \in {car[c]} : HasCar(type[c]) /\ ~CarDone(c) /\ x # NIL}
    \cup {x \in {cdr[c]} : HasCdr(type[c]) /\ ~CdrDone(c) /\ x # NIL}

CellsOK == \A c \in Used : type[c] \in Kinds /\ id[c] \in Ids /\ ~fwd[c]

(* The collection runs between two forms, when no C frame holds a pointer.  *)
LocalsOK == pc \notin {"run", "exit"} => locals = {}

CursorsOK ==
  Moving =>
    /\ end \in First(Old) .. First(Old) + HeapSize
    /\ pc = "scan" => ptr \in First(org) .. heap
    /\ pc = "free" => ptr \in First(Old) .. end
    /\ pc # "registers" => pending = {}

(* A cell of the old half has its contents, or where they are now.          *)
OldOK ==
  Moving =>
    \A c \in OldCells :
      /\ type[c] \in Kinds /\ id[c] \in Ids
      /\ fwd[c] => car[c] \in Used /\ id[car[c]] = id[c]
      /\ ~fwd[c] => Children(c) \subseteq OldCells

(* Scanned words lead to the new half, the others still to the old one.     *)
NewOK ==
  Moving =>
    /\ \A c \in Used : Relocated(c) \subseteq Used /\ NotRelocated(c) \subseteq OldCells
    /\ \A r \in Regs : reg[r] \in {NIL} \cup (IF r \in pending THEN OldCells ELSE Used)

(* Cells are moved one for one, so that there is room for the next.         *)
MovedOK == Moving => Cardinality(Moved) = heap - First(org)

(* A cell is moved because a register or a cell before it points to it.     *)
NeededOK ==
  Moving =>
    \A c \in Used :
      \/ \E r \in Regs \ pending : reg[r] = c
      \/ \E d \in Used : d < c /\ c \in Relocated(d)

CopyInv ==
  /\ TypeOK /\ CellsOK /\ NoOldPointer /\ LocalsOK
  /\ CursorsOK /\ OldOK /\ NewOK /\ MovedOK /\ NeededOK
  /\ CopiedOnce /\ CopyFits /\ MemoryOfArrays

-----------------------------------------------------------------------------
(* The two halves. *)

LEMMA HalfFacts ==
  ASSUME org \in {0, 1}
  PROVE  /\ HeapSize \in Nat /\ HeapSize > 0
         /\ Cells = 1 .. HeapSize + HeapSize
         /\ HeapEnd = First(org) + HeapSize
         /\ Half(Old) = First(Old) .. First(Old) + HeapSize - 1
         /\ \/ First(org) = 1 /\ First(Old) = HeapSize + 1
            \/ First(org) = HeapSize + 1 /\ First(Old) = 1
         /\ Old \in {0, 1} /\ 1 - Old = org
<1>1. HeapSize \in Nat /\ HeapSize > 0
  BY SizeAssumption
<1>2. First(0) = 1 /\ First(1) = HeapSize + 1
  BY <1>1 DEF First
<1>3. Half(0) = 1 .. HeapSize /\ Half(1) = HeapSize + 1 .. HeapSize + HeapSize
  BY <1>1 DEF Half
<1>4. Cells = 1 .. HeapSize + HeapSize
  BY <1>1 DEF Cells
<1>5. CASE org = 0
  BY <1>1, <1>2, <1>3, <1>4, <1>5 DEF Old, HeapEnd
<1>6. CASE org = 1
  BY <1>1, <1>2, <1>3, <1>4, <1>6 DEF Old, HeapEnd
<1>7. QED
  BY <1>5, <1>6

LEMMA UsedFacts ==
  ASSUME TypeOK
  PROVE  /\ Used \subseteq Cells
         /\ NIL \notin Cells
         /\ heap \in Nat /\ heap \notin Used
         /\ \A c \in Used : c \in Nat /\ c < heap /\ c \notin Half(Old)
         /\ Half(Old) \subseteq Cells
         /\ heap < HeapEnd => heap \in Cells /\ heap \notin Half(Old)
         /\ heap <= HeapEnd /\ HeapEnd \in Nat
<1>1. org \in {0, 1} /\ heap \in First(org) .. HeapEnd
  BY DEF TypeOK
<1>2. QED
  BY <1>1, HalfFacts DEF Used, NIL

LEMMA MovingFacts ==
  ASSUME TypeOK, CursorsOK, Moving
  PROVE  /\ OldCells \subseteq Half(Old) /\ OldCells \subseteq Cells
         /\ \A c \in Used : c \notin OldCells
         /\ heap < HeapEnd => heap \notin OldCells
         /\ InUse = Used \cup {c \in OldCells : ~fwd[c] /\ (pc = "free" => c >= ptr)}
<1>1. org \in {0, 1} /\ end \in First(Old) .. First(Old) + HeapSize
  BY DEF TypeOK, CursorsOK
<1>2. OldCells = {c \in Half(Old) : c < end}
  BY <1>1, HalfFacts DEF OldCells
<1>3. Unmoved = {c \in OldCells : ~fwd[c] /\ (pc = "free" => c >= ptr)}
  BY <1>2 DEF Unmoved
<1>4. QED
  BY <1>2, <1>3, UsedFacts DEF InUse

LEMMA QuietFacts == ASSUME ~Moving PROVE InUse = Used
  BY DEF InUse, Unmoved

-----------------------------------------------------------------------------
LEMMA CopyInit == Init => CopyInv
<1> SUFFICES ASSUME Init PROVE CopyInv
  OBVIOUS
<1>1. org = 0 /\ HeapSize \in Nat /\ HeapSize > 0 /\ Cells = 1 .. HeapSize + HeapSize
  BY HalfFacts DEF Init
<1>2. HeapEnd = First(org) + HeapSize /\ First(org) = 1
  BY <1>1, HalfFacts DEF First, Init
<1>3. Used = {}
  BY <1>1, <1>2 DEF Used, Init
<1>4. ~Moving
  BY DEF Moving, Init
<1>5. TypeOK
  <2>1. heap \in First(org) .. HeapEnd
    BY <1>1, <1>2 DEF Init
  <2>2. end \in 1 .. 2 * HeapSize + 1 /\ ptr \in 1 .. 2 * HeapSize + 1
    BY <1>1 DEF Init
  <2>3. QED
    BY <2>1, <2>2 DEF Init, TypeOK, Words
<1>6. InUse = {}
  BY <1>3, <1>4, QuietFacts
<1>7. Roots = {}
  BY DEF Init, Roots, RegRoots
<1>8. CellsOK /\ NoOldPointer /\ LocalsOK /\ CopiedOnce /\ CopyFits /\ MemoryOfArrays
  BY <1>3, <1>6, <1>7 DEF CellsOK, NoOldPointer, LocalsOK, CopiedOnce, CopyFits, MemoryOfArrays, Init
<1>9. QED
  BY <1>4, <1>5, <1>8 DEF CopyInv, CursorsOK, OldOK, NewOK, MovedOK, NeededOK

(* Nothing but the pointers of the program and the flags changes.           *)
LEMMA QuietStep ==
  ASSUME CopyInv, TypeOK', ~Moving, ~Moving', UNCHANGED <<type, fwd, id, data, org, heap>>,
         Roots' \subseteq Used, \A c \in Used : (Children(c))' \subseteq Used,
         LocalsOK', CopyFits'
  PROVE  CopyInv'
<1>1. Used' = Used /\ InUse = Used /\ InUse' = Used
  BY QuietFacts DEF Used, First, InUse, Unmoved
<1>2. CellsOK' /\ CopiedOnce' /\ MemoryOfArrays'
  BY <1>1 DEF CopyInv, CellsOK, CopiedOnce, MemoryOfArrays
<1>3. NoOldPointer'
  BY <1>1 DEF NoOldPointer
<1>4. QED
  BY <1>2, <1>3 DEF CopyInv, CursorsOK, OldOK, NewOK, MovedOK, NeededOK

LEMMA RunFacts ==
  ASSUME CopyInv, pc = "run"
  PROVE  /\ ~Moving /\ TypeOK
         /\ locals \subseteq Used /\ RegRoots \subseteq Used
         /\ \A c \in Used : Children(c) \subseteq Used
  BY DEF CopyInv, Moving, NoOldPointer, Roots

LEMMA HoldStep == ASSUME CopyInv, NEW v \in Used \cup {NIL}, Hold(v) PROVE CopyInv'
<1>1. ~Moving /\ ~Moving' /\ TypeOK
  BY RunFacts DEF Hold, Moving
<1>2. v \in Cells
  BY <1>1, UsedFacts DEF Hold
<1>3. TypeOK'
  BY <1>1, <1>2 DEF TypeOK, Hold, memory, cursors, First, HeapEnd
<1>4. Roots' \subseteq Used
  BY RunFacts DEF Hold, Roots, RegRoots
<1>5. \A c \in Used : (Children(c))' \subseteq Used
  BY RunFacts DEF Hold, memory, Children
<1>6. LocalsOK' /\ CopyFits'
  BY DEF Hold, LocalsOK, CopyFits
<1>7. QED
  BY <1>1, <1>3, <1>4, <1>5, <1>6, QuietStep DEF Hold, memory

LEMMA DropStep == ASSUME CopyInv, NEW c \in locals, Drop(c) PROVE CopyInv'
<1>1. ~Moving /\ ~Moving' /\ TypeOK
  BY RunFacts DEF Drop, Moving
<1>3. TypeOK'
  BY <1>1 DEF TypeOK, Drop, memory, cursors, First, HeapEnd
<1>4. Roots' \subseteq Used
  BY RunFacts DEF Drop, Roots, RegRoots
<1>5. \A d \in Used : (Children(d))' \subseteq Used
  BY RunFacts DEF Drop, memory, Children
<1>6. LocalsOK' /\ CopyFits'
  BY DEF Drop, LocalsOK, CopyFits
<1>7. QED
  BY <1>1, <1>3, <1>4, <1>5, <1>6, QuietStep DEF Drop, memory

LEMMA StoreRegisterStep ==
  ASSUME CopyInv, NEW r \in Regs, NEW v \in locals \cup {NIL}, StoreRegister(r, v)
  PROVE  CopyInv'
<1>1. ~Moving /\ ~Moving' /\ TypeOK /\ v \in Used \cup {NIL} /\ v \in Words
  BY RunFacts, UsedFacts DEF StoreRegister, Moving, Words
<1>3. TypeOK'
  BY <1>1 DEF TypeOK, StoreRegister, memory, cursors, First, HeapEnd
<1>4. Roots' \subseteq Used
  BY <1>1, RunFacts DEF StoreRegister, Roots, RegRoots, TypeOK
<1>5. \A d \in Used : (Children(d))' \subseteq Used
  BY RunFacts DEF StoreRegister, memory, Children
<1>6. LocalsOK' /\ CopyFits'
  BY DEF StoreRegister, LocalsOK, CopyFits
<1>7. QED
  BY <1>1, <1>3, <1>4, <1>5, <1>6, QuietStep DEF StoreRegister, memory

LEMMA SetFieldStep ==
  ASSUME CopyInv, NEW c \in locals, NEW v \in locals \cup {NIL}, siod_setcar(c, v) \/ siod_setcdr(c, v)
  PROVE  CopyInv'
<1>1. ~Moving /\ ~Moving' /\ TypeOK /\ v \in Used \cup {NIL} /\ v \in Words
  BY RunFacts, UsedFacts DEF siod_setcar, siod_setcdr, Moving, Words
<1>3. TypeOK'
  <2>1. CASE siod_setcar(c, v)
    BY <1>1, <2>1 DEF TypeOK, siod_setcar, program, cursors, First, HeapEnd
  <2>2. CASE siod_setcdr(c, v)
    BY <1>1, <2>2 DEF TypeOK, siod_setcdr, program, cursors, First, HeapEnd
  <2>3. QED
    BY <2>1, <2>2
<1>4. Roots' \subseteq Used
  BY RunFacts DEF siod_setcar, siod_setcdr, program, Roots, RegRoots
<1>5. \A d \in Used : (Children(d))' \subseteq Used
  <2>1. \A d \in Used : d \in Cells /\ Children(d) \subseteq Used
    BY <1>1, RunFacts, UsedFacts DEF siod_setcar, siod_setcdr
  <2>2. CASE siod_setcar(c, v)
    BY <1>1, <2>1, <2>2 DEF siod_setcar, Children, TypeOK
  <2>3. CASE siod_setcdr(c, v)
    BY <1>1, <2>1, <2>3 DEF siod_setcdr, Children, TypeOK
  <2>4. QED
    BY <2>2, <2>3
<1>6. LocalsOK' /\ CopyFits'
  BY DEF siod_setcar, siod_setcdr, program, LocalsOK, CopyFits
<1>7. QED
  BY <1>1, <1>3, <1>4, <1>5, <1>6, QuietStep DEF siod_setcar, siod_setcdr

LEMMA FlagStep ==
  ASSUME CopyInv, siod_gc_status \/ OutOfStorage \/ FormEnds \/ FormStarts
  PROVE  CopyInv'
<1>1. ~Moving /\ ~Moving' /\ TypeOK /\ pc' \in {"run", "repl", "exit"} /\ locals' \subseteq locals
  BY DEF CopyInv, Moving, siod_gc_status, OutOfStorage, FormEnds, FormStarts, program
<1>2. UNCHANGED <<memory, data, org, heap, reg, end, pending, ptr, field>>
      /\ status' \in BOOLEAN /\ errjmp_ok' \in BOOLEAN
  BY <1>1 DEF siod_gc_status, OutOfStorage, FormEnds, FormStarts, program, cursors, TypeOK
<1>3. TypeOK'
  BY <1>1, <1>2 DEF TypeOK, memory, First, HeapEnd
<1>4. Roots' \subseteq Used
  BY <1>1, <1>2 DEF CopyInv, NoOldPointer, Roots, RegRoots
<1>5. \A d \in Used : (Children(d))' \subseteq Used
  BY <1>1, <1>2 DEF CopyInv, NoOldPointer, memory, Children
<1>6. LocalsOK'
  BY <1>1 DEF CopyInv, LocalsOK, siod_gc_status, OutOfStorage, FormEnds, FormStarts, program
<1>7. CopyFits'
  BY <1>1 DEF CopyFits
<1>8. QED
  BY <1>1, <1>2, <1>3, <1>4, <1>5, <1>6, <1>7, QuietStep DEF memory

-----------------------------------------------------------------------------
(* There are more names for objects than cells in a half. *)

LEMMA MinInSet ==
  ASSUME NEW S, S \subseteq Nat, S # {}
  PROVE  \E n \in S : \A m \in S : n <= m
<1> DEFINE R == OpToRel(<, Nat)
<1>1. PICK n \in S : \A m \in S : ~(<<m, n>> \in R)
  BY NatLessThanWellFounded, WFMin
<1>2. \A m \in S : ~(m < n)
  BY <1>1 DEF OpToRel
<1>3. QED
  BY <1>2

LEMMA NewIdFacts ==
  ASSUME TypeOK, Room
  PROVE  NewId \in Ids /\ \A c \in Used : id[c] # NewId
<1> DEFINE unused == Ids \ {id[c] : c \in Used}
<1>1. HeapSize \in Nat /\ HeapSize > 0 /\ HeapEnd = First(org) + HeapSize /\ First(org) \in Nat
  BY HalfFacts DEF TypeOK
<1>2. /\ IsFiniteSet(Used) /\ Cardinality(Used) <= HeapSize
      /\ IsFiniteSet(Ids) /\ Cardinality(Ids) = HeapSize + 1
  <2>1. heap \in First(org) .. HeapEnd
    BY DEF TypeOK
  <2>2. Used = First(org) .. heap - 1 /\ Ids = 1 .. HeapSize + 1
    BY DEF Used, Ids
  <2>3. First(org) \in Int /\ heap - 1 \in Int /\ 1 \in Int /\ HeapSize + 1 \in Int
    BY <1>1, <2>1
  <2>4. IsFiniteSet(Used) /\ Cardinality(Used) = IF First(org) > heap - 1 THEN 0 ELSE (heap - 1) - First(org) + 1
    BY <2>2, <2>3, FS_Interval
  <2>5. IsFiniteSet(Ids) /\ Cardinality(Ids) = IF 1 > HeapSize + 1 THEN 0 ELSE (HeapSize + 1) - 1 + 1
    BY <2>2, <2>3, FS_Interval
  <2>6. QED
    BY <1>1, <2>1, <2>4, <2>5
<1>3. unused # {}
  <2>1. SUFFICES ASSUME unused = {} PROVE FALSE
    OBVIOUS
  <2>2. \A n \in Ids : \E c \in Used : id[c] = n
    BY <2>1
  <2> DEFINE f == [n \in Ids |-> CHOOSE c \in Used : id[c] = n]
  <2>3. \A n \in Ids : f[n] \in Used /\ id[f[n]] = n
    BY <2>2
  <2>4. f \in [Ids -> Used]
    BY <2>3
  <2>5. Cardinality(Used) \in Nat /\ Cardinality(Used) < Cardinality(Ids)
    BY <1>1, <1>2, FS_CardinalityType
  <2> HIDE DEF f
  <2>6. \E m, n \in Ids : m # n /\ f[m] = f[n]
    BY <1>2, <2>4, <2>5, FS_PigeonHole
  <2>7. QED
    BY <2>3, <2>6
<1>4. \E n \in unused : \A m \in unused : n <= m
  <2>1. unused \subseteq Nat
    BY <1>1 DEF Ids
  <2> HIDE DEF unused
  <2>2. QED
    BY <1>3, <2>1, MinInSet
<1>5. NewId \in unused
  BY <1>4 DEF NewId
<1>6. QED
  BY <1>5

LEMMA NewcellStep ==
  ASSUME CopyInv, NEW kind \in Kinds, NEW x \in locals \cup {NIL}, NEW y \in locals \cup {NIL},
         NEWCELL(kind, x, y)
  PROVE  CopyInv'
<1>1. pc = "run" /\ Room /\ ~Moving /\ ~Moving' /\ TypeOK
  BY RunFacts DEF NEWCELL, Moving
<1>2. /\ NewId \in Ids /\ \A c \in Used : id[c] # NewId
      /\ x \in Used \cup {NIL} /\ y \in Used \cup {NIL}
  BY <1>1, NewIdFacts, RunFacts
<1>3. /\ heap \in Cells /\ heap \in Nat /\ heap \notin Used /\ heap < HeapEnd /\ HeapEnd \in Nat
      /\ Used \subseteq Cells /\ NIL \notin Cells
  BY <1>1, UsedFacts DEF Room
<1>4. /\ type' = [type EXCEPT ![heap] = kind] /\ fwd' = [fwd EXCEPT ![heap] = FALSE]
      /\ car' = [car EXCEPT ![heap] = x] /\ cdr' = [cdr EXCEPT ![heap] = y]
      /\ id' = [id EXCEPT ![heap] = NewId]
      /\ data' = IF kind = "array" THEN data \cup {NewId} ELSE data
      /\ heap' = heap + 1 /\ locals' = locals \cup {heap}
      /\ UNCHANGED <<org, reg, status, errjmp_ok, pc, cursors>>
  BY DEF NEWCELL
<1> HIDE DEF NEWCELL
<1>5. Used' = Used \cup {heap}
  <2>1. heap \in First(org) .. HeapEnd /\ First(org) \in Nat
    BY <1>1, HalfFacts DEF TypeOK
  <2>2. QED
    BY <1>3, <1>4, <2>1 DEF Used, First
<1>6. TypeOK'
  <2>1. heap' \in First(org) .. HeapEnd /\ First(org)' = First(org) /\ HeapEnd' = HeapEnd
    <3>1. heap \in First(org) .. HeapEnd /\ First(org) \in Nat
      BY <1>1, HalfFacts DEF TypeOK
    <3>2. QED
      BY <1>3, <1>4, <3>1 DEF First, HeapEnd
  <2>2. x \in Words /\ y \in Words
    BY <1>2, <1>3 DEF Words
  <2>3. /\ type' \in [Cells -> Kinds \cup {"raw"}] /\ fwd' \in [Cells -> BOOLEAN]
        /\ car' \in [Cells -> Words] /\ cdr' \in [Cells -> Words]
        /\ id' \in [Cells -> Ids \cup {NIL}]
    BY <1>1, <1>2, <1>4, <2>2 DEF TypeOK
  <2>4. data' \in SUBSET Ids /\ locals' \in SUBSET Cells
    BY <1>1, <1>2, <1>3, <1>4 DEF TypeOK
  <2>5. QED
    BY <1>1, <1>4, <2>1, <2>3, <2>4 DEF TypeOK, cursors
<1>7. /\ \A c \in Used : type'[c] = type[c] /\ fwd'[c] = fwd[c] /\ car'[c] = car[c] /\ cdr'[c] = cdr[c] /\ id'[c] = id[c]
      /\ type'[heap] = kind /\ ~fwd'[heap] /\ car'[heap] = x /\ cdr'[heap] = y /\ id'[heap] = NewId
  BY <1>1, <1>3, <1>4 DEF TypeOK
<1>8. CellsOK'
  BY <1>2, <1>5, <1>7 DEF CellsOK, CopyInv
<1>9. NoOldPointer'
  <2>1. Roots' \subseteq Used'
    BY <1>1, <1>4, <1>5, RunFacts DEF Roots, RegRoots
  <2>2. \A c \in Used : (Children(c))' = Children(c)
    BY <1>7 DEF Children
  <2>3. ASSUME NEW c, c = heap PROVE (Children(c))' \subseteq {x, y} \ {NIL}
    BY <1>4, <1>7, <2>3 DEF Children
  <2>4. ASSUME NEW c \in Used' PROVE (Children(c))' \subseteq Used'
    <3>1. CASE c \in Used
      BY <1>1, <1>5, <2>2, <3>1, RunFacts
    <3>2. CASE c = heap
      BY <1>2, <1>5, <2>3, <3>2
    <3>3. QED
      BY <1>5, <3>1, <3>2
  <2>5. QED
    BY <2>1, <2>4 DEF NoOldPointer
<1>10. InUse = Used /\ InUse' = Used'
  BY <1>1, QuietFacts DEF InUse, Unmoved
<1>11. CopiedOnce'
  BY <1>2, <1>5, <1>7, <1>10 DEF CopyInv, CopiedOnce
<1>12. MemoryOfArrays'
  <2>1. data = {id[c] : c \in {d \in Used : type[d] = "array"}}
    BY <1>10 DEF CopyInv, MemoryOfArrays
  <2>2. data' = {id'[c] : c \in {d \in Used \cup {heap} : type'[d] = "array"}}
    <3>1. CASE kind = "array"
      <4>1. data' = data \cup {NewId}
        BY <1>4, <3>1
      <4>2. {d \in Used \cup {heap} : type'[d] = "array"} = {d \in Used : type[d] = "array"} \cup {heap}
        BY <1>7, <3>1
      <4>3. QED
        BY <1>7, <2>1, <4>1, <4>2
    <3>2. CASE kind # "array"
      <4>1. data' = data
        BY <1>4, <3>2
      <4>2. {d \in Used \cup {heap} : type'[d] = "array"} = {d \in Used : type[d] = "array"}
        BY <1>7, <3>2
      <4>3. QED
        BY <1>7, <2>1, <4>1, <4>2
    <3>3. QED
      BY <3>1, <3>2
  <2>3. QED
    BY <1>5, <1>10, <2>2 DEF MemoryOfArrays
<1>13. LocalsOK' /\ CopyFits'
  BY <1>1, <1>4 DEF LocalsOK, CopyFits
<1>14. QED
  BY <1>1, <1>6, <1>8, <1>9, <1>11, <1>12, <1>13
     DEF CopyInv, CursorsOK, OldOK, NewOK, MovedOK, NeededOK

-----------------------------------------------------------------------------
(* A collection begins: the half in use becomes the old one.                *)

LEMMA HalfIs ==
  ASSUME NEW s \in {0, 1}
  PROVE  /\ HeapSize \in Nat /\ HeapSize > 0
         /\ Half(s) = First(s) .. First(s) + HeapSize - 1
         /\ \/ s = 0 /\ First(s) = 1 /\ First(1 - s) = HeapSize + 1
            \/ s = 1 /\ First(s) = HeapSize + 1 /\ First(1 - s) = 1
<1>1. HeapSize \in Nat /\ HeapSize > 0
  BY SizeAssumption
<1>2. First(0) = 1 /\ First(1) = HeapSize + 1
  BY <1>1 DEF First
<1>3. Half(0) = 1 .. HeapSize /\ Half(1) = HeapSize + 1 .. HeapSize + HeapSize
  BY <1>1 DEF Half
<1>4. CASE s = 0
  BY <1>1, <1>2, <1>3, <1>4
<1>5. CASE s = 1
  BY <1>1, <1>2, <1>3, <1>5
<1>6. QED
  BY <1>4, <1>5

LEMMA StartStep == ASSUME CopyInv, siod_gc_stop_and_copy PROVE CopyInv'
<1>1. /\ ~Moving /\ TypeOK /\ pc' = "registers" /\ Moving' /\ org' = Old /\ heap' = First(Old)
      /\ end' = heap /\ errjmp_ok' = FALSE /\ pending' = Regs
      /\ UNCHANGED <<memory, data, program, ptr, field>>
  BY DEF CopyInv, siod_gc_stop_and_copy, siod_get_newspace, Moving
<1>2. /\ org \in {0, 1} /\ heap \in First(org) .. First(org) + HeapSize
      /\ org' \in {0, 1} /\ Old' = org /\ HeapSize \in Nat /\ HeapSize > 0
      /\ HeapEnd' = First(Old) + HeapSize /\ First(org)' = First(Old) /\ First(Old)' = First(org)
      /\ \/ First(org) = 1 /\ First(Old) = HeapSize + 1
         \/ First(org) = HeapSize + 1 /\ First(Old) = 1
  <2>1. org \in {0, 1} /\ heap \in First(org) .. First(org) + HeapSize
    BY <1>1, HalfFacts DEF TypeOK
  <2>2. org' \in {0, 1} /\ Old' = org
    BY <1>1, <2>1 DEF Old
  <2>3. HeapEnd' = First(Old) + HeapSize /\ First(org)' = First(Old) /\ First(Old)' = First(org)
    BY <1>1, <2>2 DEF HeapEnd, First
  <2>4. QED
    BY <2>1, <2>2, <2>3, HalfFacts
<1>3. Used' = {} /\ OldCells' = Used
  BY <1>1, <1>2 DEF Used, OldCells
<1>4. TypeOK'
  <2>1. heap' \in First(org)' .. HeapEnd' /\ end' \in 1 .. 2 * HeapSize + 1
    BY <1>1, <1>2
  <2>2. QED
    BY <1>1, <1>2, <2>1 DEF TypeOK, memory, program
<1>5. CellsOK'
  BY <1>3 DEF CellsOK
<1>6. NoOldPointer' /\ LocalsOK'
  BY <1>1 DEF NoOldPointer, LocalsOK, CopyInv, program, siod_gc_stop_and_copy
<1>7. CursorsOK'
  BY <1>1, <1>2 DEF CursorsOK
<1>8. OldOK'
  <2>1. ASSUME NEW c \in Used
        PROVE  type[c] \in Kinds /\ id[c] \in Ids /\ ~fwd[c] /\ Children(c) \subseteq Used
               /\ (Children(c))' = Children(c)
    BY <1>1 DEF CopyInv, CellsOK, NoOldPointer, memory, Children
  <2>2. QED
    BY <1>1, <1>3, <2>1 DEF OldOK, memory
<1>9. NewOK'
  BY <1>1, <1>3 DEF NewOK, CopyInv, NoOldPointer, Roots, RegRoots, program
<1>10. Moved' = {}
  BY <1>1, <1>3 DEF Moved, CopyInv, CellsOK, memory
<1>11. MovedOK'
  <2>1. Cardinality(Moved') = 0
    BY <1>10, FS_EmptySet
  <2>2. Cardinality(Moved)' = 0
    BY <2>1
  <2>3. heap' - First(org)' = 0
    BY <1>1, <1>2
  <2>4. QED
    BY <2>2, <2>3 DEF MovedOK
<1>12. NeededOK'
  BY <1>3 DEF NeededOK
<1>13. InUse = Used /\ InUse' = Used
  <2>1. Half(Old)' = Half(org)
    BY <1>2 DEF Half
  <2>2. Half(org) = First(org) .. First(org) + HeapSize - 1
    BY <1>2, HalfIs
  <2>3. Unmoved' = {c \in Half(org) : c < heap /\ ~fwd[c]}
    BY <1>1, <2>1 DEF Unmoved, memory
  <2>4. Used = {c \in Half(org) : c < heap}
    BY <1>2, <2>2 DEF Used
  <2>5. \A c \in Used : ~fwd[c]
    BY DEF CopyInv, CellsOK
  <2>6. QED
    BY <1>1, <1>3, <2>3, <2>4, <2>5, QuietFacts DEF InUse
<1>14. CopiedOnce' /\ MemoryOfArrays' /\ CopyFits'
  BY <1>1, <1>13 DEF CopyInv, CopiedOnce, MemoryOfArrays, CopyFits, memory
<1>15. QED
  BY <1>4, <1>5, <1>6, <1>7, <1>8, <1>9, <1>11, <1>12, <1>14 DEF CopyInv

-----------------------------------------------------------------------------
(* siod_gc_relocate of a word x that leads to the old half.  One new cell is *)
(* filled if x had to be moved, none if it is NIL or has been moved.        *)

LEMMA MovingInt ==
  ASSUME CopyInv, Moving
  PROVE  /\ TypeOK /\ org \in {0, 1} /\ HeapSize \in Nat
         /\ heap \in First(org) .. First(org) + HeapSize /\ heap \in Nat
         /\ end \in First(Old) .. First(Old) + HeapSize /\ end \in Nat
         /\ ptr \in Nat /\ First(org) \in Nat /\ First(Old) \in Nat
         /\ First(org) \in {1, HeapSize + 1} /\ First(Old) \in {1, HeapSize + 1}
         /\ \A c \in Used : c \in Nat /\ First(org) <= c /\ c < heap
<1>1. TypeOK /\ CursorsOK /\ org \in {0, 1} /\ heap \in First(org) .. HeapEnd /\ ptr \in 1 .. 2 * HeapSize + 1
  BY DEF CopyInv, TypeOK
<1>2. /\ HeapSize \in Nat /\ HeapEnd = First(org) + HeapSize
      /\ First(org) \in {1, HeapSize + 1} /\ First(Old) \in {1, HeapSize + 1}
  BY <1>1, HalfFacts
<1>3. First(org) \in Nat /\ First(Old) \in Nat /\ ptr \in Nat
  BY <1>1, <1>2
<1>4. heap \in First(org) .. First(org) + HeapSize /\ heap \in Nat
  BY <1>1, <1>2, <1>3
<1>5. end \in First(Old) .. First(Old) + HeapSize
  BY <1>1 DEF CursorsOK
<1>6. end \in Nat
  BY <1>2, <1>3, <1>5
<1>7. \A c \in Used : c \in Nat /\ First(org) <= c /\ c < heap
  BY <1>3, <1>4 DEF Used
<1>8. QED
  BY <1>1, <1>2, <1>3, <1>4, <1>5, <1>6, <1>7

LEMMA RoomToMove ==
  ASSUME CopyInv, Moving, NEW x \in OldCells \cup {NIL}
  PROVE  ~NoRoomFor(x)
<1> SUFFICES ASSUME NoRoomFor(x) PROVE FALSE
  OBVIOUS
<1>1. x \in OldCells /\ ~fwd[x] /\ heap >= HeapEnd
  BY DEF NoRoomFor, MustMove
<1>2. /\ end \in First(Old) .. First(Old) + HeapSize /\ heap \in First(org) .. HeapEnd
      /\ First(Old) \in Nat /\ First(org) \in Nat /\ HeapSize \in Nat /\ HeapEnd = First(org) + HeapSize
  BY MovingInt DEF HeapEnd
<1>3. Cardinality(Moved) = HeapSize
  BY <1>1, <1>2 DEF CopyInv, MovedOK
<1>4. IsFiniteSet(OldCells) /\ Cardinality(OldCells) \in Nat /\ Cardinality(OldCells) <= HeapSize
  <2>1. First(Old) \in Int /\ end - 1 \in Int
    BY <1>2
  <2>2. IsFiniteSet(First(Old) .. end - 1)
        /\ Cardinality(First(Old) .. end - 1)
             = IF First(Old) > end - 1 THEN 0 ELSE (end - 1) - First(Old) + 1
    BY <2>1, FS_Interval
  <2>3. QED
    BY <1>2, <2>2 DEF OldCells
<1>5. Moved \cup {x} \subseteq OldCells /\ x \notin Moved
  BY <1>1 DEF Moved
<1>6. IsFiniteSet(Moved) /\ IsFiniteSet(Moved \cup {x})
      /\ Cardinality(Moved \cup {x}) <= Cardinality(OldCells)
  BY <1>4, <1>5, FS_Subset
<1>7. Cardinality(Moved \cup {x}) = Cardinality(Moved) + 1
  BY <1>5, <1>6, FS_AddElement
<1>8. QED
  BY <1>2, <1>3, <1>4, <1>6, <1>7

(* The facts about a relocation that every one of the three kinds needs.    *)
(* cars and cdrs are the words with the one that was relocated written back. *)
MovedFrom(x, cars, cdrs) ==
  /\ Used \subseteq Used' /\ OldCells' = OldCells
  /\ Target(x) \in Used' \cup {NIL} /\ (Target(x) = NIL <=> x = NIL)
  /\ \A c \in Used : /\ type'[c] = type[c] /\ id'[c] = id[c] /\ fwd'[c] = fwd[c]
                     /\ car'[c] = cars[c] /\ cdr'[c] = cdrs[c]
  /\ \A c \in Used' : c \notin Used =>
       /\ c = heap /\ x \in OldCells /\ Target(x) = c
       /\ type'[c] = type[x] /\ car'[c] = car[x] /\ cdr'[c] = cdr[x]

LEMMA MoveStep ==
  ASSUME CopyInv, pc \in {"registers", "scan"}, NEW x \in OldCells \cup {NIL},
         NEW cars \in [Cells -> Words], NEW cdrs \in [Cells -> Words],
         \A c \in OldCells : cars[c] = car[c] /\ cdrs[c] = cdr[c],
         Move(x, cars, cdrs), UNCHANGED <<data, org, end, pc, locals>>
  PROVE  /\ MovedFrom(x, cars, cdrs)
         /\ type' \in [Cells -> Kinds \cup {"raw"}] /\ fwd' \in [Cells -> BOOLEAN]
         /\ car' \in [Cells -> Words] /\ cdr' \in [Cells -> Words]
         /\ id' \in [Cells -> Ids \cup {NIL}] /\ heap' \in First(org)' .. HeapEnd'
         /\ CellsOK' /\ OldOK' /\ MovedOK' /\ CopiedOnce' /\ MemoryOfArrays'
<1>1. Moving /\ Moving' /\ TypeOK /\ pc' # "free" /\ pc # "free"
  BY DEF Moving, CopyInv
<1>2. /\ First(org)' = First(org) /\ HeapEnd' = HeapEnd /\ Half(Old)' = Half(Old) /\ OldCells' = OldCells
      /\ end' = end
  BY DEF First, HeapEnd, Old, Half, OldCells
<1>3. /\ heap \in First(org) .. HeapEnd /\ First(org) \in Nat /\ HeapEnd \in Nat
      /\ OldCells \subseteq Cells /\ Used \subseteq Cells /\ NIL \notin Cells /\ heap \notin Used
      /\ \A c \in Used : c \notin OldCells
      /\ InUse = Used \cup {c \in OldCells : ~fwd[c]}
  BY <1>1, UsedFacts, MovingFacts, HalfFacts DEF CopyInv, TypeOK
<1>4. InUse' = Used' \cup {c \in OldCells : ~fwd'[c]}
  <2>1. OldCells = {c \in Half(Old) : c < end}
    BY <1>1, HalfFacts DEF OldCells, CopyInv, TypeOK, CursorsOK
  <2>2. Unmoved' = {c \in Half(Old) : c < end /\ ~fwd'[c]}
    BY <1>1, <1>2 DEF Unmoved
  <2>3. QED
    BY <2>1, <2>2 DEF InUse
<1>5. \A c \in OldCells :
        /\ type[c] \in Kinds /\ id[c] \in Ids /\ (fwd[c] => car[c] \in Used /\ id[car[c]] = id[c])
        /\ (~fwd[c] => Children(c) \subseteq OldCells)
  BY <1>1 DEF CopyInv, OldOK
<1>6. \A c \in Used : type[c] \in Kinds /\ id[c] \in Ids /\ ~fwd[c]
  BY DEF CopyInv, CellsOK
<1>7. Cardinality(Moved) = heap - First(org)
  BY <1>1 DEF CopyInv, MovedOK
<1>8. \A c, d \in InUse : id[c] = id[d] => c = d
  BY DEF CopyInv, CopiedOnce
<1>9. data = {id[c] : c \in {d \in InUse : type[d] = "array"}}
  BY DEF CopyInv, MemoryOfArrays
<1>10. CASE ~MustMove(x)
  <2>1. car' = cars /\ cdr' = cdrs /\ UNCHANGED <<type, fwd, id, heap>>
    BY <1>10 DEF Move
  <2>2. Used' = Used /\ InUse' = InUse /\ Moved' = Moved
    BY <1>2, <1>3, <1>4, <2>1 DEF Used, Moved
  <2>3. Target(x) = IF x = NIL THEN NIL ELSE car[x]
    BY <1>10 DEF Target
  <2>4. Target(x) \in Used \cup {NIL} /\ (Target(x) = NIL <=> x = NIL)
    BY <1>3, <1>5, <1>10, <2>3 DEF MustMove
  <2>5. MovedFrom(x, cars, cdrs)
    BY <1>2, <2>1, <2>2, <2>4 DEF MovedFrom
  <2>6. CellsOK' /\ CopiedOnce' /\ MemoryOfArrays'
    BY <1>6, <1>8, <1>9, <2>1, <2>2 DEF CellsOK, CopiedOnce, MemoryOfArrays
  <2>7. MovedOK'
    BY <1>2, <1>7, <2>1, <2>2 DEF MovedOK
  <2>8. ASSUME NEW c \in OldCells PROVE (Children(c))' = Children(c) /\ car'[c] = car[c]
    BY <2>1 DEF Children
  <2>9. OldOK'
    BY <1>2, <1>5, <2>1, <2>2, <2>8 DEF OldOK
  <2>10. QED
    BY <1>1, <1>2, <2>1, <2>5, <2>6, <2>7, <2>9 DEF TypeOK
<1>11. CASE MustMove(x)
  <2>1. /\ heap < HeapEnd /\ x \in OldCells /\ ~fwd[x]
        /\ type' = [type EXCEPT ![heap] = type[x]]
        /\ id' = [id EXCEPT ![heap] = id[x]]
        /\ fwd' = [fwd EXCEPT ![heap] = FALSE, ![x] = TRUE]
        /\ car' = [cars EXCEPT ![heap] = car[x], ![x] = heap]
        /\ cdr' = [cdrs EXCEPT ![heap] = cdr[x]]
        /\ heap' = heap + 1
    BY <1>11 DEF Move, MustMove
  <2>2. heap \in Cells /\ heap \notin OldCells /\ heap # x /\ heap # NIL
    BY <1>1, <1>3, <2>1, UsedFacts, MovingFacts DEF CopyInv
  <2>3. Used' = Used \cup {heap} /\ heap' \in First(org)' .. HeapEnd'
    BY <1>2, <1>3, <2>1 DEF Used
  <2>4. Target(x) = heap
    BY <1>11 DEF Target
  <2>5. /\ type' \in [Cells -> Kinds \cup {"raw"}] /\ fwd' \in [Cells -> BOOLEAN]
        /\ id' \in [Cells -> Ids \cup {NIL}]
    BY <1>1, <1>3, <2>1, <2>2 DEF TypeOK
  <2>6. car' \in [Cells -> Words] /\ cdr' \in [Cells -> Words]
    BY <1>1, <1>3, <2>1, <2>2 DEF TypeOK, Words
  <2>7. /\ type'[heap] = type[x] /\ id'[heap] = id[x] /\ ~fwd'[heap] /\ car'[heap] = car[x] /\ cdr'[heap] = cdr[x]
        /\ fwd'[x] /\ car'[x] = heap
        /\ \A c \in Cells : c # heap =>
             /\ type'[c] = type[c] /\ id'[c] = id[c] /\ cdr'[c] = cdrs[c]
             /\ (c # x => fwd'[c] = fwd[c] /\ car'[c] = cars[c])
    BY <1>1, <1>3, <2>1, <2>2 DEF TypeOK
  <2>8. MovedFrom(x, cars, cdrs)
    <3>1. \A c \in Used : c # heap /\ c # x /\ c \in Cells
      BY <1>3, <2>1
    <3>2. \A c \in Used : /\ type'[c] = type[c] /\ id'[c] = id[c] /\ fwd'[c] = fwd[c]
                            /\ car'[c] = cars[c] /\ cdr'[c] = cdrs[c]
      BY <2>7, <3>1
    <3>3. ASSUME NEW c \in Used', c \notin Used
          PROVE  /\ c = heap /\ x \in OldCells /\ Target(x) = c
                 /\ type'[c] = type[x] /\ car'[c] = car[x] /\ cdr'[c] = cdr[x]
      <4>1. c = heap
        BY <2>3, <3>3
      <4>2. QED
        BY <2>1, <2>4, <2>7, <4>1
    <3>4. Used \subseteq Used' /\ Target(x) \in Used' \cup {NIL} /\ (Target(x) = NIL <=> x = NIL)
      BY <1>3, <2>1, <2>2, <2>3, <2>4
    <3>5. QED
      BY <1>2, <3>2, <3>3, <3>4 DEF MovedFrom
  <2>9. CellsOK'
    <3>1. ASSUME NEW c \in Used PROVE type'[c] \in Kinds /\ id'[c] \in Ids /\ ~fwd'[c]
      <4>1. c # heap /\ c # x /\ c \in Cells
        BY <1>3, <2>1
      <4>2. QED
        BY <1>6, <2>7, <4>1
    <3>2. type'[heap] \in Kinds /\ id'[heap] \in Ids /\ ~fwd'[heap]
      BY <1>5, <2>1, <2>7
    <3>3. QED
      BY <2>3, <3>1, <3>2 DEF CellsOK
  <2>10. OldOK'
    <3>1. ASSUME NEW c \in OldCells, c # x PROVE (Children(c))' = Children(c) /\ car'[c] = car[c] /\ fwd'[c] = fwd[c]
      BY <1>3, <2>2, <2>7, <3>1 DEF Children
    <3>2. \A c \in OldCells : type'[c] \in Kinds /\ id'[c] \in Ids
      BY <1>3, <1>5, <2>2, <2>7
    <3>3. ASSUME NEW c \in OldCells, fwd'[c] PROVE car'[c] \in Used' /\ id'[car'[c]] = id'[c]
      <4>1. CASE c = x
        BY <1>3, <2>1, <2>2, <2>3, <2>7, <4>1
      <4>2. CASE c # x
        <5>1. car'[c] = car[c] /\ car[c] \in Used /\ id[car[c]] = id[c]
          BY <1>5, <3>1, <3>3, <4>2
        <5>2. id'[car[c]] = id[car[c]] /\ id'[c] = id[c]
          BY <1>3, <2>2, <2>7, <5>1
        <5>3. QED
          BY <2>3, <5>1, <5>2
      <4>3. QED
        BY <4>1, <4>2
    <3>4. ASSUME NEW c \in OldCells, ~fwd'[c] PROVE (Children(c))' \subseteq OldCells
      BY <1>5, <2>7, <3>1, <3>4
    <3>5. QED
      BY <1>2, <3>2, <3>3, <3>4 DEF OldOK
  <2>11. MovedOK'
    <3>1. Moved' = Moved \cup {x}
      BY <1>2, <1>3, <2>1, <2>2, <2>7 DEF Moved
    <3>2. IsFiniteSet(OldCells)
      <4>1. First(Old) \in Int /\ end - 1 \in Int
        BY <1>1, HalfFacts DEF CopyInv, CursorsOK, TypeOK
      <4>2. QED
        BY <4>1, FS_Interval DEF OldCells
    <3>3. Moved \in SUBSET OldCells /\ x \notin Moved
      BY <2>1 DEF Moved
    <3>4. IsFiniteSet(Moved)
      BY <3>2, <3>3, FS_Subset
    <3>5. Cardinality(Moved \cup {x}) = Cardinality(Moved) + 1
      BY <3>3, <3>4, FS_AddElement
    <3>6. Cardinality(Moved)' = Cardinality(Moved \cup {x})
      BY <3>1
    <3>7. QED
      BY <1>2, <1>3, <1>7, <2>1, <3>5, <3>6 DEF MovedOK
  <2>12. InUse' = (InUse \ {x}) \cup {heap} /\ x \in InUse /\ heap \notin InUse /\ InUse \subseteq Cells
    <3>1. \A c \in OldCells : ~fwd'[c] <=> (~fwd[c] /\ c # x)
      <4>1. \A c \in OldCells : c \in Cells /\ c # heap
        BY <1>3, <2>2
      <4>2. QED
        BY <2>7, <4>1
    <3>2. {c \in OldCells : ~fwd'[c]} = {c \in OldCells : ~fwd[c]} \ {x}
      BY <3>1
    <3>3. x \notin Used
      BY <1>3, <2>1
    <3>4. InUse' = (InUse \ {x}) \cup {heap}
      BY <1>3, <1>4, <2>2, <2>3, <3>2, <3>3
    <3>5. x \in InUse /\ heap \notin InUse /\ InUse \subseteq Cells
      BY <1>3, <2>1, <2>2
    <3>6. QED
      BY <3>4, <3>5
  <2>13. CopiedOnce'
    BY <1>8, <2>7, <2>12 DEF CopiedOnce
  <2>14. MemoryOfArrays'
    <3> DEFINE A == {d \in InUse : type[d] = "array"}
               B == {d \in InUse' : type'[d] = "array"}
    <3>1. CASE type[x] = "array"
      <4>1. B = (A \ {x}) \cup {heap} /\ x \in A
        BY <2>7, <2>12, <3>1
      <4>2. \A c \in A : c \in Cells /\ c # heap
        BY <2>12
      <4> HIDE DEF A, B
      <4>3. {id'[c] : c \in B} = {id[c] : c \in A}
        BY <2>7, <4>1, <4>2
      <4>4. QED
        BY <1>9, <4>3 DEF MemoryOfArrays, A, B
    <3>2. CASE type[x] # "array"
      <4>1. B = A
        BY <2>7, <2>12, <3>2
      <4>2. \A c \in A : c \in Cells /\ c # heap
        BY <2>12
      <4> HIDE DEF A, B
      <4>3. {id'[c] : c \in B} = {id[c] : c \in A}
        BY <2>7, <4>1, <4>2
      <4>4. QED
        BY <1>9, <4>3 DEF MemoryOfArrays, A, B
    <3>3. QED
      BY <3>1, <3>2
  <2>15. QED
    BY <2>3, <2>5, <2>6, <2>8, <2>9, <2>10, <2>11, <2>13, <2>14
<1>12. QED
  BY <1>10, <1>11

LEMMA ScanRegisterStep ==
  ASSUME CopyInv, NEW r \in Regs, siod_scan_registers(r)
  PROVE  CopyInv'
<1> DEFINE x == reg[r]
<1>1. pc = "registers" /\ r \in pending /\ Moving /\ TypeOK
  BY DEF siod_scan_registers, CopyInv, Moving
<1>2. x \in OldCells \cup {NIL}
  BY <1>1 DEF CopyInv, NewOK
<1>3. ~NoRoomFor(x)
  BY <1>1, <1>2, RoomToMove
<1>4. /\ Move(x, car, cdr)
      /\ reg' = [reg EXCEPT ![r] = Target(x)]
      /\ pending' = pending \ {r}
      /\ UNCHANGED <<data, org, locals, status, errjmp_ok, pc, end, ptr, field>>
  BY <1>3 DEF siod_scan_registers
<1> HIDE DEF x
<1>5. car \in [Cells -> Words] /\ cdr \in [Cells -> Words]
  BY <1>1 DEF TypeOK
<1>6. /\ MovedFrom(x, car, cdr)
      /\ type' \in [Cells -> Kinds \cup {"raw"}] /\ fwd' \in [Cells -> BOOLEAN]
      /\ car' \in [Cells -> Words] /\ cdr' \in [Cells -> Words]
      /\ id' \in [Cells -> Ids \cup {NIL}] /\ heap' \in First(org)' .. HeapEnd'
      /\ CellsOK' /\ OldOK' /\ MovedOK' /\ CopiedOnce' /\ MemoryOfArrays'
  BY <1>1, <1>2, <1>4, <1>5, MoveStep
<1>7. /\ Used \subseteq Used' /\ OldCells' = OldCells
      /\ Target(x) \in Used' \cup {NIL} /\ (Target(x) = NIL <=> x = NIL)
  BY <1>6 DEF MovedFrom
<1>8. Moving' /\ pc' = "registers"
  BY <1>1, <1>4 DEF Moving
<1>9. Used' \subseteq Cells
  <2>1. org' = org /\ org \in {0, 1} /\ heap' \in First(org)' .. HeapEnd'
    BY <1>1, <1>4, <1>6 DEF TypeOK
  <2>2. First(org)' = First(org) /\ HeapEnd' = HeapEnd /\ Used' = First(org) .. heap' - 1
    BY <2>1 DEF First, HeapEnd, Used
  <2>3. QED
    BY <2>1, <2>2, HalfFacts
<1>10. TypeOK'
  <2>1. Target(x) \in Words
    BY <1>7, <1>9 DEF Words
  <2>2. reg' \in [Regs -> Words] /\ pending' \in SUBSET Regs
    BY <1>1, <1>4, <2>1 DEF TypeOK
  <2>3. QED
    BY <1>1, <1>4, <1>6, <2>2 DEF TypeOK
<1>11. CursorsOK'
  <2>1. First(Old)' = First(Old) /\ end' = end
    BY <1>4 DEF First, Old
  <2>2. QED
    BY <1>1, <1>8, <2>1 DEF CopyInv, CursorsOK
<1>12. \A c : ~CarDone(c) /\ ~CdrDone(c) /\ ~CarDone(c)' /\ ~CdrDone(c)'
  BY <1>1, <1>8 DEF CarDone, CdrDone
<1>13. NewOK'
  <2>1. ASSUME NEW c \in Used' PROVE Relocated(c)' \subseteq Used' /\ NotRelocated(c)' \subseteq OldCells'
    <3>1. Relocated(c)' = {}
      BY <1>12 DEF Relocated
    <3>2. CASE c \in Used
      <4>1. NotRelocated(c) \subseteq OldCells
        BY <1>1, <3>2 DEF CopyInv, NewOK
      <4>2. type'[c] = type[c] /\ car'[c] = car[c] /\ cdr'[c] = cdr[c]
        BY <1>6, <3>2 DEF MovedFrom
      <4>3. NotRelocated(c)' = NotRelocated(c)
        BY <1>12, <4>2 DEF NotRelocated
      <4>4. QED
        BY <1>7, <3>1, <4>1, <4>3
    <3>3. CASE c \notin Used
      <4>1. Children(x) \subseteq OldCells
        <5>1. x \in OldCells /\ MustMove(x)
          <6>1. x \in OldCells /\ c = heap /\ Target(x) = heap
            BY <1>6, <3>3 DEF MovedFrom
          <6>2. heap \notin Used /\ heap # NIL
            BY <1>1, <1>9, <3>3, <6>1, UsedFacts
          <6>3. fwd[x] => car[x] \in Used
            BY <1>1, <6>1 DEF CopyInv, OldOK
          <6>4. QED
            BY <6>1, <6>2, <6>3 DEF Target, MustMove
        <5>2. QED
          BY <1>1, <5>1 DEF CopyInv, OldOK, MustMove
      <4>2. type'[c] = type[x] /\ car'[c] = car[x] /\ cdr'[c] = cdr[x]
        BY <1>6, <3>3 DEF MovedFrom
      <4>3. NotRelocated(c)' \subseteq Children(x)
        BY <4>2 DEF NotRelocated, Children
      <4>4. QED
        BY <1>7, <3>1, <4>1, <4>3
    <3>4. QED
      BY <3>2, <3>3
  <2>2. ASSUME NEW q \in Regs
        PROVE  reg'[q] \in {NIL} \cup (IF q \in pending' THEN OldCells' ELSE Used')
    <3>1. reg[q] \in {NIL} \cup (IF q \in pending THEN OldCells ELSE Used)
      BY <1>1 DEF CopyInv, NewOK
    <3>2. reg'[q] = IF q = r THEN Target(x) ELSE reg[q]
      BY <1>1, <1>4 DEF TypeOK
    <3>3. QED
      BY <1>1, <1>4, <1>7, <3>1, <3>2
  <2>3. QED
    BY <2>1, <2>2 DEF NewOK
<1>14. NeededOK'
  <2>1. \A q \in Regs : reg'[q] = IF q = r THEN Target(x) ELSE reg[q]
    BY <1>1, <1>4 DEF TypeOK
  <2>2. ASSUME NEW c \in Used' PROVE \E q \in Regs \ pending' : reg'[q] = c
    <3>1. CASE c \in Used
      <4>1. \A d \in Used : Relocated(d) = {}
        BY <1>12 DEF Relocated
      <4>2. \E q \in Regs \ pending : reg[q] = c
        BY <1>1, <3>1, <4>1 DEF CopyInv, NeededOK
      <4>3. QED
        BY <1>1, <1>4, <2>1, <4>2
    <3>2. CASE c \notin Used
      BY <1>4, <1>6, <2>1, <3>2 DEF MovedFrom
    <3>3. QED
      BY <3>1, <3>2
  <2>3. QED
    BY <2>2 DEF NeededOK
<1>15. NoOldPointer' /\ LocalsOK' /\ CopyFits'
  BY <1>1, <1>4, <1>8 DEF NoOldPointer, LocalsOK, CopyFits, CopyInv
<1>16. QED
  BY <1>6, <1>10, <1>11, <1>13, <1>14, <1>15 DEF CopyInv

-----------------------------------------------------------------------------
(* siod_scan_newspace: what the two words of a cell have in common.         *)

LEMMA ScanFacts ==
  ASSUME CopyInv, pc = "scan", NEW x \in OldCells \cup {NIL},
         NEW cars \in [Cells -> Words], NEW cdrs \in [Cells -> Words],
         MovedFrom(x, cars, cdrs), UNCHANGED <<org, pc, end, reg, pending>>,
         heap' \in First(org)' .. HeapEnd',
         field' \in {"car", "cdr"}, ptr' \in First(org) .. heap,
         \A c \in Used' : c \notin Used => ~CarDone(c)' /\ ~CdrDone(c)',
         (* the words done and to do of the cells that were there *)
         \A c \in Used : /\ Relocated(c) \subseteq Relocated(c)'
                         /\ Relocated(c)' \subseteq Relocated(c) \cup ({Target(x)} \ {NIL})
                         /\ NotRelocated(c)' \subseteq NotRelocated(c),
         x # NIL => \E c \in Used : Target(x) \in Relocated(c)'
  PROVE  CursorsOK' /\ NewOK' /\ NeededOK'
<1>1. /\ Moving /\ Moving' /\ TypeOK /\ pc' = "scan"
      /\ Used \subseteq Used' /\ OldCells' = OldCells
      /\ Target(x) \in Used' \cup {NIL} /\ pending = {}
  BY DEF Moving, CopyInv, CursorsOK, MovedFrom
<1>2. First(org)' = First(org) /\ First(Old)' = First(Old) /\ org \in {0, 1} /\ HeapEnd' = HeapEnd
  BY <1>1 DEF First, Old, TypeOK, HeapEnd
<1>3. heap' \in Nat /\ heap \in Nat /\ heap <= heap' /\ heap \notin Used /\ First(org) \in Nat
  <2>1. heap \in First(org) .. HeapEnd /\ First(org) \in Nat /\ HeapEnd \in Nat
    BY <1>1, HalfFacts DEF TypeOK
  <2>2. Used = First(org) .. heap - 1 /\ Used' = First(org) .. heap' - 1
    BY <1>2 DEF Used
  <2>3. heap' \in Int /\ heap' \in Nat
    BY <1>2, <2>1
  <2>4. CASE heap = First(org)
    BY <1>2, <2>1, <2>2, <2>4
  <2>5. CASE heap # First(org)
    <3>1. heap - 1 \in Used
      BY <2>1, <2>2, <2>5
    <3>2. heap - 1 \in Used'
      BY <1>1, <3>1
    <3>3. heap - 1 <= heap' - 1
      BY <2>2, <3>2
    <3>4. heap \in Int
      BY <2>1
    <3>5. heap <= heap'
      <4>1. \A a, b \in Int : a - 1 <= b - 1 => a <= b
        OBVIOUS
      <4>2. QED
        BY <2>3, <3>3, <3>4, <4>1
    <3>6. QED
      BY <2>1, <2>2, <2>3, <3>5
  <2>6. QED
    BY <2>4, <2>5
<1>4. CursorsOK'
  <2>1. end' \in First(Old)' .. First(Old)' + HeapSize
    BY <1>1, <1>2 DEF CopyInv, CursorsOK
  <2>2. ptr' \in First(org)' .. heap'
    BY <1>2, <1>3
  <2>3. QED
    BY <1>1, <2>1, <2>2 DEF CursorsOK
<1>5. NewOK'
  <2>1. ASSUME NEW c \in Used' PROVE Relocated(c)' \subseteq Used' /\ NotRelocated(c)' \subseteq OldCells'
    <3>1. CASE c \in Used
      <4>1. Relocated(c) \subseteq Used /\ NotRelocated(c) \subseteq OldCells
        BY <1>1, <3>1 DEF CopyInv, NewOK
      <4>2. QED
        BY <1>1, <3>1, <4>1
    <3>2. CASE c \notin Used
      <4>1. x \in OldCells /\ ~fwd[x]
        <5>1. x \in OldCells /\ c = heap /\ Target(x) = heap
          BY <3>2 DEF MovedFrom
        <5>2. fwd[x] => car[x] \in Used
          BY <1>1, <5>1 DEF CopyInv, OldOK
        <5>3. heap # NIL
          <6>1. heap \in First(org) .. HeapEnd /\ First(org) > 0
            BY <1>1, HalfFacts DEF TypeOK
          <6>2. QED
            BY <1>3, <6>1 DEF NIL
        <5>4. QED
          BY <1>3, <5>1, <5>2, <5>3 DEF Target, MustMove
      <4>2. Children(x) \subseteq OldCells
        BY <1>1, <4>1 DEF CopyInv, OldOK
      <4>3. type'[c] = type[x] /\ car'[c] = car[x] /\ cdr'[c] = cdr[x]
        BY <3>2 DEF MovedFrom
      <4>4. NotRelocated(c)' \subseteq Children(x)
        BY <4>3 DEF NotRelocated, Children
      <4>5. Relocated(c)' = {}
        BY <3>2 DEF Relocated
      <4>6. QED
        BY <1>1, <4>2, <4>4, <4>5
    <3>3. QED
      BY <3>1, <3>2
  <2>2. \A q \in Regs : reg'[q] \in {NIL} \cup (IF q \in pending' THEN OldCells' ELSE Used')
    BY <1>1 DEF CopyInv, NewOK
  <2>3. QED
    BY <2>1, <2>2 DEF NewOK
<1>6. NeededOK'
  <2>1. ASSUME NEW c \in Used'
        PROVE \/ \E r \in Regs \ pending' : reg'[r] = c
              \/ \E d \in Used' : d < c /\ c \in Relocated(d)'
    <3>1. CASE c \in Used
      <4>1. \/ \E r \in Regs \ pending : reg[r] = c
            \/ \E d \in Used : d < c /\ c \in Relocated(d)
        BY <1>1, <3>1 DEF CopyInv, NeededOK
      <4>2. QED
        BY <1>1, <4>1
    <3>2. CASE c \notin Used
      <4>1. c = heap /\ x \in OldCells /\ Target(x) = c
        BY <3>2 DEF MovedFrom
      <4>2. x # NIL
        BY <1>1, <4>1, MovingFacts, UsedFacts DEF CopyInv
      <4>3. PICK d \in Used : Target(x) \in Relocated(d)'
        BY <4>2
      <4>4. d < heap
        BY <1>1, UsedFacts
      <4>5. QED
        BY <1>1, <4>1, <4>3, <4>4
    <3>3. QED
      BY <3>1, <3>2
  <2>2. QED
    BY <2>1 DEF NeededOK
<1>7. QED
  BY <1>4, <1>5, <1>6

LEMMA ScanCarStep == ASSUME CopyInv, ScanCar PROVE CopyInv'
<1> DEFINE x == IF HasCar(type[ptr]) THEN car[ptr] ELSE NIL
           cars == IF HasCar(type[ptr]) THEN [car EXCEPT ![ptr] = Target(x)] ELSE car
<1>1. pc = "scan" /\ ptr < heap /\ field = "car" /\ Moving /\ TypeOK
  BY DEF ScanCar, CopyInv, Moving
<1>2. /\ ptr \in Used /\ ptr \in First(org) .. heap /\ ptr \in Nat /\ heap \in Nat /\ First(org) \in Nat
      /\ ptr + 1 \in First(org) .. heap
      /\ Used \subseteq Cells /\ heap \notin Used /\ \A c \in Used : c \in Nat /\ c < heap /\ c \notin OldCells
  <2>1. ptr \in First(org) .. heap
    BY <1>1 DEF CopyInv, CursorsOK
  <2>2. First(org) \in Nat
    BY <1>1, HalfFacts DEF TypeOK
  <2>3. QED
    BY <1>1, <2>1, <2>2, UsedFacts, MovingFacts DEF Used, CopyInv
<1>3. CarDone(ptr) = FALSE /\ CdrDone(ptr) = FALSE
  BY <1>1, <1>2 DEF CarDone, CdrDone
<1>4. x \in OldCells \cup {NIL}
  <2>1. NotRelocated(ptr) \subseteq OldCells
    BY <1>1, <1>2 DEF CopyInv, NewOK
  <2>2. QED
    BY <1>3, <2>1 DEF NotRelocated
<1>5. ~NoRoomFor(x)
  BY <1>1, <1>4, RoomToMove
<1>6. Move(x, cars, cdr) /\ field' = "cdr" /\ UNCHANGED <<data, org, program, errjmp_ok, pc, end, pending, ptr>>
  BY <1>5 DEF ScanCar
<1>7. Target(x) \in Words
  <2>1. x \in OldCells => (fwd[x] => car[x] \in Used)
    BY <1>1 DEF CopyInv, OldOK
  <2>2. MustMove(x) => heap \in Cells
    <3>1. MustMove(x) => heap < HeapEnd
      BY <1>6 DEF Move
    <3>2. QED
      BY <1>1, <3>1, UsedFacts
  <2>3. QED
    BY <1>2, <1>4, <2>1, <2>2 DEF Target, MustMove, Words
<1>8. cars \in [Cells -> Words] /\ cdr \in [Cells -> Words]
  BY <1>1, <1>2, <1>7 DEF TypeOK
<1>9. /\ \A c \in OldCells : cars[c] = car[c]
      /\ \A c \in Used : cars[c] = IF c = ptr /\ HasCar(type[ptr]) THEN Target(x) ELSE car[c]
  <2>1. OldCells \subseteq Cells
    BY <1>1, MovingFacts DEF CopyInv
  <2>2. QED
    BY <1>1, <1>2, <2>1 DEF TypeOK
<1>10. HasCar(type[ptr]) => x = car[ptr]
  OBVIOUS
<1>11. x # NIL => HasCar(type[ptr])
  OBVIOUS
<1> HIDE DEF x, cars
<1>12. /\ MovedFrom(x, cars, cdr)
       /\ type' \in [Cells -> Kinds \cup {"raw"}] /\ fwd' \in [Cells -> BOOLEAN]
       /\ car' \in [Cells -> Words] /\ cdr' \in [Cells -> Words]
       /\ id' \in [Cells -> Ids \cup {NIL}] /\ heap' \in First(org)' .. HeapEnd'
       /\ CellsOK' /\ OldOK' /\ MovedOK' /\ CopiedOnce' /\ MemoryOfArrays'
  BY <1>1, <1>4, <1>6, <1>8, <1>9, MoveStep DEF program
<1>13. TypeOK'
  BY <1>1, <1>6, <1>12 DEF TypeOK, program
<1>14. \A c \in Used : CarDone(c)' = (CarDone(c) \/ c = ptr) /\ CdrDone(c)' = CdrDone(c)
  BY <1>1, <1>2, <1>6 DEF CarDone, CdrDone
<1>15. \A c \in Used' : c \notin Used => ~CarDone(c)' /\ ~CdrDone(c)'
  <2>1. \A c \in Used' : c \notin Used => c = heap
    BY <1>12 DEF MovedFrom
  <2>2. QED
    BY <1>1, <1>2, <1>6, <2>1 DEF CarDone, CdrDone
<1>16. ASSUME NEW c \in Used
       PROVE  /\ type'[c] = type[c] /\ cdr'[c] = cdr[c]
              /\ car'[c] = IF c = ptr /\ HasCar(type[ptr]) THEN Target(x) ELSE car[c]
  BY <1>9, <1>12 DEF MovedFrom
<1>17. Target(x) = NIL <=> x = NIL
  BY <1>12 DEF MovedFrom
<1>18. ASSUME NEW c \in Used
       PROVE  /\ Relocated(c) \subseteq Relocated(c)'
              /\ Relocated(c)' \subseteq Relocated(c) \cup ({Target(x)} \ {NIL})
              /\ NotRelocated(c)' \subseteq NotRelocated(c)
              /\ (x # NIL /\ c = ptr) => Target(x) \in Relocated(c)'
  <2>1. CASE c = ptr
    BY <1>3, <1>11, <1>14, <1>16, <1>17, <2>1 DEF Relocated, NotRelocated
  <2>2. CASE c # ptr
    BY <1>14, <1>16, <2>2 DEF Relocated, NotRelocated
  <2>3. QED
    BY <2>1, <2>2
<1>19. x # NIL => \E c \in Used : Target(x) \in Relocated(c)'
  BY <1>2, <1>18
<1>20. field' \in {"car", "cdr"} /\ ptr' \in First(org) .. heap /\ UNCHANGED <<org, pc, end, reg, pending>>
  BY <1>2, <1>6 DEF program
<1>21. CursorsOK' /\ NewOK' /\ NeededOK'
  BY <1>1, <1>4, <1>8, <1>12, <1>15, <1>18, <1>19, <1>20, ScanFacts
<1>22. NoOldPointer' /\ LocalsOK' /\ CopyFits'
  BY <1>1, <1>6 DEF NoOldPointer, LocalsOK, CopyFits, CopyInv, Moving, program
<1>23. QED
  BY <1>12, <1>13, <1>21, <1>22 DEF CopyInv

LEMMA ScanCdrStep == ASSUME CopyInv, ScanCdr PROVE CopyInv'
<1> DEFINE x == IF HasCdr(type[ptr]) THEN cdr[ptr] ELSE NIL
           cdrs == IF x = NIL THEN cdr ELSE [cdr EXCEPT ![ptr] = Target(x)]
<1>1. pc = "scan" /\ ptr < heap /\ field = "cdr" /\ Moving /\ TypeOK
  BY DEF ScanCdr, CopyInv, Moving
<1>2. /\ ptr \in Used /\ ptr \in First(org) .. heap /\ ptr \in Nat /\ heap \in Nat /\ First(org) \in Nat
      /\ ptr + 1 \in First(org) .. heap
      /\ Used \subseteq Cells /\ heap \notin Used /\ \A c \in Used : c \in Nat /\ c < heap /\ c \notin OldCells
  <2>1. ptr \in First(org) .. heap
    BY <1>1 DEF CopyInv, CursorsOK
  <2>2. First(org) \in Nat
    BY <1>1, HalfFacts DEF TypeOK
  <2>3. QED
    BY <1>1, <2>1, <2>2, UsedFacts, MovingFacts DEF Used, CopyInv
<1>3. CarDone(ptr) = TRUE /\ CdrDone(ptr) = FALSE
  BY <1>1, <1>2 DEF CarDone, CdrDone
<1>4. x \in OldCells \cup {NIL}
  <2>1. NotRelocated(ptr) \subseteq OldCells
    BY <1>1, <1>2 DEF CopyInv, NewOK
  <2>2. QED
    BY <1>3, <2>1 DEF NotRelocated
<1>5. ~NoRoomFor(x)
  BY <1>1, <1>4, RoomToMove
<1>6. Move(x, car, cdrs) /\ field' = "car" /\ ptr' = ptr + 1
      /\ UNCHANGED <<data, org, program, errjmp_ok, pc, end, pending>>
  BY <1>5 DEF ScanCdr
<1>7. Target(x) \in Words
  <2>1. x \in OldCells => (fwd[x] => car[x] \in Used)
    BY <1>1 DEF CopyInv, OldOK
  <2>2. MustMove(x) => heap \in Cells
    <3>1. MustMove(x) => heap < HeapEnd
      BY <1>6 DEF Move
    <3>2. QED
      BY <1>1, <3>1, UsedFacts
  <2>3. QED
    BY <1>2, <1>4, <2>1, <2>2 DEF Target, MustMove, Words
<1>8. car \in [Cells -> Words] /\ cdrs \in [Cells -> Words]
  BY <1>1, <1>2, <1>7 DEF TypeOK
<1>9. /\ \A c \in OldCells : cdrs[c] = cdr[c]
      /\ \A c \in Used : cdrs[c] = IF c = ptr /\ x # NIL THEN Target(x) ELSE cdr[c]
  <2>1. OldCells \subseteq Cells
    BY <1>1, MovingFacts DEF CopyInv
  <2>2. QED
    BY <1>1, <1>2, <2>1 DEF TypeOK
<1>10. HasCdr(type[ptr]) => x = cdr[ptr]
  OBVIOUS
<1>11. x # NIL => HasCdr(type[ptr])
  OBVIOUS
<1> HIDE DEF x, cdrs
<1>12. /\ MovedFrom(x, car, cdrs)
       /\ type' \in [Cells -> Kinds \cup {"raw"}] /\ fwd' \in [Cells -> BOOLEAN]
       /\ car' \in [Cells -> Words] /\ cdr' \in [Cells -> Words]
       /\ id' \in [Cells -> Ids \cup {NIL}] /\ heap' \in First(org)' .. HeapEnd'
       /\ CellsOK' /\ OldOK' /\ MovedOK' /\ CopiedOnce' /\ MemoryOfArrays'
  BY <1>1, <1>4, <1>6, <1>8, <1>9, MoveStep DEF program
<1>13. TypeOK'
  <2>1. ptr' \in 1 .. 2 * HeapSize + 1
    <3>1. /\ heap \in First(org) .. First(org) + HeapSize /\ HeapSize \in Nat
          /\ First(org) = 1 \/ First(org) = HeapSize + 1
      BY <1>1, HalfFacts DEF TypeOK
    <3>2. QED
      BY <1>2, <1>6, <3>1
  <2>2. QED
    BY <1>1, <1>6, <1>12, <2>1 DEF TypeOK, program
<1>14. \A c \in Used : CarDone(c)' = CarDone(c) /\ CdrDone(c)' = (CdrDone(c) \/ c = ptr)
  BY <1>1, <1>2, <1>6 DEF CarDone, CdrDone
<1>15. \A c \in Used' : c \notin Used => ~CarDone(c)' /\ ~CdrDone(c)'
  <2>1. \A c \in Used' : c \notin Used => c = heap
    BY <1>12 DEF MovedFrom
  <2>2. QED
    BY <1>1, <1>2, <1>6, <2>1 DEF CarDone, CdrDone
<1>16. ASSUME NEW c \in Used
       PROVE  /\ type'[c] = type[c] /\ car'[c] = car[c]
              /\ cdr'[c] = IF c = ptr /\ x # NIL THEN Target(x) ELSE cdr[c]
  BY <1>9, <1>12 DEF MovedFrom
<1>17. Target(x) = NIL <=> x = NIL
  BY <1>12 DEF MovedFrom
<1>18. ASSUME NEW c \in Used
       PROVE  /\ Relocated(c) \subseteq Relocated(c)'
              /\ Relocated(c)' \subseteq Relocated(c) \cup ({Target(x)} \ {NIL})
              /\ NotRelocated(c)' \subseteq NotRelocated(c)
              /\ (x # NIL /\ c = ptr) => Target(x) \in Relocated(c)'
  <2>1. CASE c = ptr
    BY <1>3, <1>10, <1>11, <1>14, <1>16, <1>17, <2>1 DEF Relocated, NotRelocated
  <2>2. CASE c # ptr
    BY <1>14, <1>16, <2>2 DEF Relocated, NotRelocated
  <2>3. QED
    BY <2>1, <2>2
<1>19. x # NIL => \E c \in Used : Target(x) \in Relocated(c)'
  BY <1>2, <1>18
<1>20. field' \in {"car", "cdr"} /\ ptr' \in First(org) .. heap /\ UNCHANGED <<org, pc, end, reg, pending>>
  BY <1>2, <1>6 DEF program
<1>21. CursorsOK' /\ NewOK' /\ NeededOK'
  BY <1>1, <1>4, <1>8, <1>12, <1>15, <1>18, <1>19, <1>20, ScanFacts
<1>22. NoOldPointer' /\ LocalsOK' /\ CopyFits'
  BY <1>1, <1>6 DEF NoOldPointer, LocalsOK, CopyFits, CopyInv, Moving, program
<1>23. QED
  BY <1>12, <1>13, <1>21, <1>22 DEF CopyInv

-----------------------------------------------------------------------------
(* The steps of the collector that move nothing.                            *)

LEMMA CursorStep ==
  ASSUME CopyInv, Moving, Moving', UNCHANGED <<memory, org, heap, program, end, pending>>,
         \A c \in Used : CarDone(c)' = CarDone(c) /\ CdrDone(c)' = CdrDone(c),
         TypeOK', CursorsOK', CopiedOnce', MemoryOfArrays'
  PROVE  CopyInv'
<1>1. Used' = Used /\ OldCells' = OldCells /\ First(org)' = First(org)
  BY DEF Used, First, OldCells, Old
<1>2. CellsOK' /\ Moved' = Moved
  BY <1>1 DEF CopyInv, CellsOK, Moved, memory
<1>3. ASSUME NEW c PROVE (Children(c))' = Children(c)
  BY DEF Children, memory
<1>4. OldOK'
  BY <1>1, <1>3 DEF CopyInv, OldOK, memory
<1>5. ASSUME NEW c \in Used PROVE Relocated(c)' = Relocated(c) /\ NotRelocated(c)' = NotRelocated(c)
  BY DEF Relocated, NotRelocated, memory
<1>6. NewOK'
  BY <1>1, <1>5 DEF CopyInv, NewOK, program
<1>7. NeededOK'
  BY <1>1, <1>5 DEF CopyInv, NeededOK, program
<1>8. MovedOK'
  BY <1>1, <1>2 DEF CopyInv, MovedOK
<1>9. NoOldPointer' /\ LocalsOK' /\ CopyFits'
  BY DEF NoOldPointer, LocalsOK, CopyFits, Moving, CopyInv, program
<1>10. QED
  BY <1>2, <1>4, <1>6, <1>7, <1>8, <1>9 DEF CopyInv

(* InUse where the collector frees from where ptr stands, without primes.   *)
LEMMA InUseNext ==
  ASSUME CopyInv, Moving, Moving', UNCHANGED <<memory, org, heap, end>>
  PROVE  InUse' = Used \cup {c \in OldCells : ~fwd[c] /\ (pc' = "free" => c >= ptr')}
<1>1. Used' = Used /\ Half(Old)' = Half(Old)
  BY DEF Used, First, Half, Old
<1>2. OldCells = {c \in Half(Old) : c < end}
  BY MovingInt, HalfFacts DEF OldCells
<1>3. Unmoved' = {c \in Half(Old) : c < end /\ ~fwd[c] /\ (pc' = "free" => c >= ptr')}
  BY <1>1 DEF Unmoved, memory
<1>4. QED
  BY <1>1, <1>2, <1>3 DEF InUse

LEMMA InUseNow ==
  ASSUME CopyInv, Moving
  PROVE  InUse = Used \cup {c \in OldCells : ~fwd[c] /\ (pc = "free" => c >= ptr)}
BY MovingFacts DEF CopyInv

LEMMA StartScanStep == ASSUME CopyInv, StartScan PROVE CopyInv'
<1>1. pc = "registers" /\ pc' = "scan" /\ ptr' = First(org) /\ field' = "car" /\ Moving /\ Moving'
      /\ pending = {} /\ UNCHANGED <<memory, data, org, heap, program, errjmp_ok, end, pending>>
  BY DEF StartScan, Moving
<1>2. \A c \in Used : CarDone(c)' = CarDone(c) /\ CdrDone(c)' = CdrDone(c)
  <2>1. \A c \in Used : ~(c < First(org))
    BY <1>1, MovingInt
  <2>2. QED
    BY <1>1, <2>1 DEF CarDone, CdrDone
<1>3. First(org)' = First(org) /\ First(Old)' = First(Old) /\ HeapEnd' = HeapEnd
  BY <1>1 DEF First, Old, HeapEnd
<1>4. TypeOK'
  <2>1. ptr' \in 1 .. 2 * HeapSize + 1
    BY <1>1, MovingInt
  <2>2. QED
    BY <1>1, <1>3, <2>1, MovingInt DEF TypeOK, memory, program
<1>5. CursorsOK'
  <2>1. ptr' \in First(org)' .. heap'
    BY <1>1, <1>3, MovingInt
  <2>2. QED
    BY <1>1, <1>3, <2>1 DEF CopyInv, CursorsOK
<1>6. InUse' = InUse
  BY <1>1, InUseNow, InUseNext
<1>7. CopiedOnce' /\ MemoryOfArrays'
  BY <1>1, <1>6 DEF CopyInv, CopiedOnce, MemoryOfArrays, memory
<1>8. QED
  BY <1>1, <1>2, <1>4, <1>5, <1>7, CursorStep

LEMMA ScanDoneStep == ASSUME CopyInv, ScanDone PROVE CopyInv'
<1>1. pc = "scan" /\ pc' = "free" /\ ptr = heap /\ ptr' = First(Old) /\ Moving /\ Moving'
      /\ UNCHANGED <<memory, data, org, heap, program, errjmp_ok, end, pending, field>>
  BY DEF ScanDone, Moving
<1>2. \A c \in Used : CarDone(c)' = CarDone(c) /\ CdrDone(c)' = CdrDone(c)
  <2>1. \A c \in Used : c < heap
    BY <1>1, MovingInt
  <2>2. QED
    BY <1>1, <2>1 DEF CarDone, CdrDone
<1>3. First(org)' = First(org) /\ First(Old)' = First(Old) /\ HeapEnd' = HeapEnd
  BY <1>1 DEF First, Old, HeapEnd
<1>4. TypeOK'
  <2>1. ptr' \in 1 .. 2 * HeapSize + 1
    BY <1>1, MovingInt
  <2>2. QED
    BY <1>1, <1>3, <2>1, MovingInt DEF TypeOK, memory, program
<1>5. CursorsOK'
  <2>1. ptr' \in First(Old)' .. end'
    BY <1>1, <1>3, MovingInt
  <2>2. QED
    BY <1>1, <1>3, <2>1 DEF CopyInv, CursorsOK
<1>6. InUse' = InUse
  <2>1. \A c \in OldCells : c >= First(Old)
    BY <1>1, MovingInt DEF OldCells
  <2>2. QED
    BY <1>1, <2>1, InUseNow, InUseNext
<1>7. CopiedOnce' /\ MemoryOfArrays'
  BY <1>1, <1>6 DEF CopyInv, CopiedOnce, MemoryOfArrays, memory
<1>8. QED
  BY <1>1, <1>2, <1>4, <1>5, <1>7, CursorStep

LEMMA FreeStep == ASSUME CopyInv, siod_free_oldspace PROVE CopyInv'
<1>1. /\ pc = "free" /\ pc' = "free" /\ ptr < end /\ ptr' = ptr + 1 /\ Moving /\ Moving'
      /\ data' = IF MustFree(ptr) THEN data \ {id[ptr]} ELSE data
      /\ UNCHANGED <<memory, org, heap, program, errjmp_ok, end, pending, field>>
  BY DEF siod_free_oldspace, Moving
<1>2. \A c \in Used : CarDone(c)' = CarDone(c) /\ CdrDone(c)' = CdrDone(c)
  BY <1>1 DEF CarDone, CdrDone
<1>3. First(org)' = First(org) /\ First(Old)' = First(Old) /\ HeapEnd' = HeapEnd
  BY <1>1 DEF First, Old, HeapEnd
<1>4. TypeOK'
  <2>1. ptr' \in 1 .. 2 * HeapSize + 1
    BY <1>1, MovingInt
  <2>2. data' \in SUBSET Ids
    BY <1>1, MovingInt DEF TypeOK
  <2>3. QED
    BY <1>1, <1>3, <2>1, <2>2, MovingInt DEF TypeOK, memory, program
<1>5. ptr \in First(Old) .. end
  BY <1>1 DEF CopyInv, CursorsOK
<1>6. CursorsOK'
  <2>1. ptr' \in First(Old)' .. end'
    BY <1>1, <1>3, <1>5, MovingInt
  <2>2. QED
    BY <1>1, <1>3, <2>1 DEF CopyInv, CursorsOK
<1>7. ptr \in OldCells
  BY <1>1, <1>5, MovingInt DEF OldCells
<1>8. InUse' = IF fwd[ptr] THEN InUse ELSE InUse \ {ptr}
  <2>1. \A c \in OldCells : c >= ptr' <=> (c >= ptr /\ c # ptr)
    BY <1>1, MovingInt DEF OldCells
  <2>2. \A c \in Used : c # ptr
    BY <1>1, <1>7, MovingFacts DEF CopyInv
  <2>3. InUse' = Used \cup {c \in OldCells : ~fwd[c] /\ c >= ptr /\ c # ptr}
    BY <1>1, <2>1, InUseNext
  <2>4. InUse = Used \cup {c \in OldCells : ~fwd[c] /\ c >= ptr}
    BY <1>1, InUseNow
  <2>5. QED
    BY <2>2, <2>3, <2>4
<1>9. ~fwd[ptr] => ptr \in InUse
  BY <1>1, <1>7, MovingInt, InUseNow
<1>10. \A c, d \in InUse : id[c] = id[d] => c = d
  BY DEF CopyInv, CopiedOnce
<1>11. CopiedOnce'
  BY <1>1, <1>8, <1>10 DEF CopiedOnce, memory
<1>12. MemoryOfArrays'
  <2> DEFINE A == {d \in InUse : type[d] = "array"}
             B == {d \in InUse' : type[d] = "array"}
  <2>1. data = {id[c] : c \in A}
    BY DEF CopyInv, MemoryOfArrays
  <2>2. CASE MustFree(ptr)
    <3>1. B = A \ {ptr} /\ ptr \in A /\ A \subseteq InUse
      BY <1>8, <1>9, <2>2 DEF MustFree
    <3> HIDE DEF A, B
    <3>2. {id[c] : c \in B} = {id[c] : c \in A} \ {id[ptr]}
      BY <1>10, <3>1
    <3>3. data' = {id[c] : c \in B}
      BY <1>1, <2>1, <2>2, <3>2
    <3>4. QED
      BY <1>1, <3>3 DEF MemoryOfArrays, memory, B
  <2>3. CASE ~MustFree(ptr)
    <3>1. B = A
      BY <1>8, <2>3 DEF MustFree
    <3>2. data' = {id[c] : c \in B}
      BY <1>1, <2>1, <2>3, <3>1
    <3>3. QED
      BY <1>1, <3>2 DEF MemoryOfArrays, memory
  <2>4. QED
    BY <2>2, <2>3
<1>13. QED
  BY <1>1, <1>2, <1>4, <1>6, <1>11, <1>12, CursorStep

LEMMA DoneStep == ASSUME CopyInv, CollectionDone PROVE CopyInv'
<1>1. pc = "free" /\ pc' = "run" /\ ptr = end /\ Moving /\ ~Moving' /\ errjmp_ok' = TRUE
      /\ end' = 1 /\ ptr' = 1 /\ UNCHANGED <<data, org, heap, program, pending, field>>
  BY DEF CollectionDone, Moving
<1>2. /\ type' = Forget(type, "raw") /\ fwd' = Forget(fwd, FALSE)
      /\ car' = Forget(car, NIL) /\ cdr' = Forget(cdr, NIL) /\ id' = Forget(id, NIL)
  BY DEF CollectionDone
<1>3. First(org)' = First(org) /\ HeapEnd' = HeapEnd /\ Used' = Used
  BY <1>1 DEF First, HeapEnd, Used
<1>4. TypeOK'
  <2>1. /\ type' \in [Cells -> Kinds \cup {"raw"}] /\ fwd' \in [Cells -> BOOLEAN]
        /\ car' \in [Cells -> Words] /\ cdr' \in [Cells -> Words]
        /\ id' \in [Cells -> Ids \cup {NIL}]
    BY <1>1, <1>2, MovingInt DEF TypeOK, Forget, Words
  <2>2. end' \in 1 .. 2 * HeapSize + 1 /\ ptr' \in 1 .. 2 * HeapSize + 1
    BY <1>1, MovingInt
  <2>3. QED
    BY <1>1, <1>3, <2>1, <2>2, MovingInt DEF TypeOK, program
<1>5. ASSUME NEW c \in Used
      PROVE  /\ type'[c] = type[c] /\ fwd'[c] = fwd[c] /\ id'[c] = id[c]
             /\ car'[c] = car[c] /\ cdr'[c] = cdr[c]
  <2>1. c \in Cells /\ c \notin Half(Old)
    BY <1>1, MovingInt, UsedFacts
  <2>2. QED
    BY <1>2, <2>1 DEF Forget
<1>6. CellsOK'
  BY <1>3, <1>5 DEF CopyInv, CellsOK
<1>7. ASSUME NEW c \in Used PROVE (Children(c))' \subseteq Used
  <2>1. CarDone(c) /\ CdrDone(c)
    BY <1>1 DEF CarDone, CdrDone
  <2>2. Relocated(c) \subseteq Used
    BY <1>1 DEF CopyInv, NewOK
  <2>3. (Children(c))' = Relocated(c)
    BY <1>5, <2>1 DEF Children, Relocated
  <2>4. QED
    BY <2>2, <2>3
<1>8. NoOldPointer'
  <2>1. locals = {} /\ pending = {}
    BY <1>1 DEF CopyInv, LocalsOK, CursorsOK
  <2>2. \A r \in Regs : reg[r] \in {NIL} \cup Used
    BY <1>1, <2>1 DEF CopyInv, NewOK
  <2>3. Roots' \subseteq Used
    BY <1>1, <2>1, <2>2 DEF Roots, RegRoots, program
  <2>4. QED
    BY <1>3, <1>7, <2>3 DEF NoOldPointer
<1>9. InUse = Used /\ InUse' = Used
  <2>1. {c \in OldCells : ~fwd[c] /\ (pc = "free" => c >= ptr)} = {}
    BY <1>1, MovingInt DEF OldCells
  <2>2. InUse = Used
    BY <1>1, <2>1, InUseNow
  <2>3. QED
    BY <1>1, <1>3, <2>2 DEF InUse, Unmoved
<1>10. CopiedOnce'
  BY <1>5, <1>9 DEF CopyInv, CopiedOnce
<1>11. MemoryOfArrays'
  <2>1. {d \in Used : type'[d] = "array"} = {d \in Used : type[d] = "array"}
    BY <1>5
  <2>2. data = {id[c] : c \in {d \in Used : type[d] = "array"}}
    BY <1>9 DEF CopyInv, MemoryOfArrays
  <2>3. data' = {id'[c] : c \in {d \in Used : type'[d] = "array"}}
    BY <1>1, <1>5, <2>1, <2>2
  <2>4. QED
    BY <1>9, <2>3 DEF MemoryOfArrays
<1>12. LocalsOK' /\ CopyFits' /\ CursorsOK' /\ OldOK' /\ NewOK' /\ MovedOK' /\ NeededOK'
  BY <1>1 DEF LocalsOK, CopyFits, CursorsOK, OldOK, NewOK, MovedOK, NeededOK
<1>13. QED
  BY <1>4, <1>6, <1>8, <1>10, <1>11, <1>12 DEF CopyInv

-----------------------------------------------------------------------------
LEMMA CopyNext == CopyInv /\ [Next]_vars => CopyInv'
<1> SUFFICES ASSUME CopyInv, [Next]_vars PROVE CopyInv'
  OBVIOUS
<1>1. CASE UNCHANGED vars
  <2>1. UNCHANGED <<type, fwd, car, cdr, id, data, org, heap, reg, locals, status,
                    errjmp_ok, pc, end, pending, ptr, field>>
    BY <1>1 DEF vars, memory, program, cursors
  <2>2. /\ Used' = Used /\ InUse' = InUse /\ OldCells' = OldCells /\ (Moving <=> Moving')
        /\ First(org)' = First(org) /\ First(Old)' = First(Old) /\ HeapEnd' = HeapEnd
    BY <2>1 DEF Used, InUse, Unmoved, OldCells, Moving, First, Old, HeapEnd, Half
  <2>3. ASSUME NEW c
        PROVE  (Children(c))' = Children(c) /\ Relocated(c)' = Relocated(c) /\ NotRelocated(c)' = NotRelocated(c)
    BY <2>1 DEF Children, Relocated, NotRelocated, CarDone, CdrDone
  <2>4. TypeOK' /\ CellsOK' /\ LocalsOK' /\ CursorsOK'
    BY <2>1, <2>2 DEF CopyInv, TypeOK, CellsOK, LocalsOK, CursorsOK
  <2>5. NoOldPointer'
    BY <2>1, <2>2, <2>3 DEF CopyInv, NoOldPointer, Roots, RegRoots
  <2>6. OldOK' /\ NewOK' /\ NeededOK'
    BY <2>1, <2>2, <2>3 DEF CopyInv, OldOK, NewOK, NeededOK
  <2>7. MovedOK'
    <3>1. Moved' = Moved
      BY <2>1, <2>2 DEF Moved
    <3>2. QED
      BY <2>1, <2>2, <3>1 DEF CopyInv, MovedOK
  <2>8. CopiedOnce' /\ CopyFits' /\ MemoryOfArrays'
    BY <2>1, <2>2 DEF CopyInv, CopiedOnce, CopyFits, MemoryOfArrays
  <2>9. QED
    BY <2>4, <2>5, <2>6, <2>7, <2>8 DEF CopyInv
<1>2. CASE Program
  <2>1. ASSUME NEW c \in locals, LoadField(c) PROVE CopyInv'
    <3>1. PICK v \in Children(c) : Hold(v)
      BY <2>1 DEF LoadField
    <3>2. v \in Used
      BY <3>1, RunFacts DEF Hold
    <3>3. QED
      BY <3>1, <3>2, HoldStep
  <2>2. ASSUME NEW r \in Regs, LoadRegister(r) PROVE CopyInv'
    <3>1. reg[r] \in Used \cup {NIL}
      BY <2>2, RunFacts DEF LoadRegister, Hold, RegRoots
    <3>2. QED
      BY <2>2, <3>1, HoldStep DEF LoadRegister
  <2>3. QED
    BY <1>2, <2>1, <2>2, DropStep, StoreRegisterStep, SetFieldStep, NewcellStep, FlagStep DEF Program
<1>3. CASE Collector
  BY <1>3, StartStep, ScanRegisterStep, StartScanStep, ScanCarStep, ScanCdrStep,
     ScanDoneStep, FreeStep, DoneStep DEF Collector
<1>4. QED
  BY <1>1, <1>2, <1>3 DEF Next

(* While the old half is freed, the new one holds what the registers reach. *)
LEMMA CompactedInv == CopyInv => Compacted
<1> SUFFICES ASSUME CopyInv, pc = "free" PROVE Used = ReachableFrom(RegRoots)
  BY DEF Compacted
<1> DEFINE Closed == {C \in SUBSET Cells : RegRoots \subseteq C /\ \A c \in C : Children(c) \subseteq C}
<1>1. Moving /\ pending = {} /\ TypeOK /\ Used \subseteq Cells /\ NIL \notin Used
  BY UsedFacts DEF Moving, CopyInv, CursorsOK
<1>2. \A c : Relocated(c) = Children(c)
  BY DEF Relocated, Children, CarDone, CdrDone
<1>3. Used \in Closed
  <2>1. \A c \in Used : Children(c) \subseteq Used
    BY <1>1, <1>2 DEF CopyInv, NewOK
  <2>2. RegRoots \subseteq Used
    BY <1>1 DEF CopyInv, NewOK, RegRoots
  <2>3. QED
    BY <1>1, <2>1, <2>2
<1>4. ASSUME NEW C \in Closed, NEW u \in Used \ C PROVE FALSE
  <2>1. Used \ C \subseteq Nat
    BY <1>1, MovingInt
  <2>2. PICK c \in Used \ C : \A m \in Used \ C : c <= m
    BY <2>1, MinInSet
  <2>3. CASE \E r \in Regs \ pending : reg[r] = c
    BY <1>1, <2>2, <2>3 DEF RegRoots
  <2>4. CASE \E d \in Used : d < c /\ c \in Relocated(d)
    <3>1. PICK d \in Used : d < c /\ c \in Relocated(d)
      BY <2>4
    <3>2. d \in Nat /\ c \in Nat
      BY <1>1, <2>2, MovingInt
    <3>3. d \in C
      BY <2>2, <3>1, <3>2
    <3>4. QED
      BY <1>2, <2>2, <3>1, <3>3
  <2>5. QED
    BY <1>1, <2>2, <2>3, <2>4 DEF CopyInv, NeededOK
<1>5. ReachableFrom(RegRoots) = {c \in Cells : \A C \in Closed : c \in C}
  BY DEF ReachableFrom
<1> HIDE DEF Closed
<1>6. QED
  BY <1>1, <1>3, <1>4, <1>5

(* CopyInv holds from the start and is kept by every step of the program    *)
(* and of the collector.                                                    *)
THEOREM CopyInvInductive == Spec => []CopyInv
<1>1. QED
  BY CopyInit, CopyNext, PTL DEF Spec

(* The cells, flags, cursors and registers keep to their types.             *)
THEOREM CopyTypesStay == Spec => []TypeOK
<1>1. CopyInv => TypeOK
  BY DEF CopyInv
<1>2. QED
  BY <1>1, CopyInvInductive, PTL

(* siod_gc_stop_and_copy leaves no pointer into the half it gives up.       *)
THEOREM NoOldPointerStays == Spec => []NoOldPointer
<1>1. CopyInv => NoOldPointer
  BY DEF CopyInv
<1>2. QED
  BY <1>1, CopyInvInductive, PTL

(* siod_gc_relocate moves an object once, whoever points to it.             *)
THEOREM CopiedOnceStays == Spec => []CopiedOnce
<1>1. CopyInv => CopiedOnce
  BY DEF CopyInv
<1>2. QED
  BY <1>1, CopyInvInductive, PTL

(* The error exit of siod_gc_relocate, for want of room, is never taken.    *)
THEOREM CopyAlwaysFits == Spec => []CopyFits
<1>1. CopyInv => CopyFits
  BY DEF CopyInv
<1>2. QED
  BY <1>1, CopyInvInductive, PTL

(* siod_free_oldspace frees the memory of the arrays that were left behind  *)
(* and of no other.                                                         *)
THEOREM MemoryFollowsArrays == Spec => []MemoryOfArrays
<1>1. CopyInv => MemoryOfArrays
  BY DEF CopyInv
<1>2. QED
  BY <1>1, CopyInvInductive, PTL

(* A collection keeps what the registers reach and nothing else.            *)
THEOREM CollectionCompacts == Spec => []Compacted
<1>1. QED
  BY CompactedInv, CopyInvInductive, PTL
=============================================================================
