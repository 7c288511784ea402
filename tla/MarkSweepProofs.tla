--------------------------- MODULE MarkSweepProofs ---------------------------
(***************************************************************************)
(* Proofs about MarkSweep, for every number and size of heaps, every        *)
(* program and every bound.                                                 *)
(***************************************************************************)
EXTENDS MarkSweep, TLAPS

(* The heaps lie inside the cells. *)
LEMMA HeapArithmetic ==
  ASSUME NEW k \in 0 .. NHeaps
  PROVE  /\ k * HeapSize \in 0 .. NHeaps * HeapSize
         /\ (k + 1) * HeapSize = k * HeapSize + HeapSize
         /\ k < NHeaps => k * HeapSize + HeapSize \in 1 .. NHeaps * HeapSize
<1>1. /\ k \in Nat /\ NHeaps - k \in Nat
      /\ HeapSize \in Nat /\ NHeaps \in Nat /\ HeapSize > 0
  BY HeapsAssumption
<1>2. NHeaps * HeapSize = k * HeapSize + (NHeaps - k) * HeapSize
  BY <1>1
<1>3. k * HeapSize \in Nat /\ (NHeaps - k) * HeapSize \in Nat
  BY <1>1
<1>4. (k + 1) * HeapSize = k * HeapSize + HeapSize
  BY <1>1
<1>5. k < NHeaps => (NHeaps - k) * HeapSize >= HeapSize
  BY <1>1
<1>6. QED
  BY <1>1, <1>2, <1>3, <1>4, <1>5

LEMMA HeapFacts ==
  /\ HeapSize \in Nat \ {0}
  /\ NHeaps \in Nat \ {0}
  /\ NHeaps * HeapSize \in Nat
  /\ HeapSize <= NHeaps * HeapSize
  /\ NIL \notin Cells
<1>1. 0 \in 0 .. NHeaps /\ 0 < NHeaps
  BY HeapsAssumption
<1>2. 0 * HeapSize + HeapSize \in 1 .. NHeaps * HeapSize
  BY <1>1, HeapArithmetic
<1>3. QED
  BY <1>2, HeapsAssumption DEF NIL, Cells

(* The cells allocated so far, and those of the next heap. *)
LEMMA AllocatedFacts ==
  ASSUME nactive \in 1 .. NHeaps
  PROVE  /\ nactive * HeapSize \in 0 .. NHeaps * HeapSize
         /\ Allocated \subseteq Cells
         /\ HeapSize \in Allocated
         /\ nactive < NHeaps =>
              /\ HeapCells(nactive) \subseteq Cells
              /\ HeapCells(nactive) \cap Allocated = {}
              /\ HeapCells(nactive) = nactive * HeapSize + 1 .. nactive * HeapSize + HeapSize
              /\ nactive + 1 \in 1 .. NHeaps
              /\ 1 .. (nactive + 1) * HeapSize = Allocated \cup HeapCells(nactive)
<1>1. nactive \in 0 .. NHeaps
  BY HeapsAssumption
<1>2. /\ nactive * HeapSize \in 0 .. NHeaps * HeapSize
      /\ (nactive + 1) * HeapSize = nactive * HeapSize + HeapSize
      /\ nactive < NHeaps => nactive * HeapSize + HeapSize \in 1 .. NHeaps * HeapSize
  BY <1>1, HeapArithmetic
<1>3. nactive * HeapSize >= HeapSize
  <2>1. nactive - 1 \in 0 .. NHeaps
    BY HeapsAssumption
  <2>2. ((nactive - 1) + 1) * HeapSize = (nactive - 1) * HeapSize + HeapSize
        /\ (nactive - 1) * HeapSize \in 0 .. NHeaps * HeapSize
    BY <2>1, HeapArithmetic
  <2>3. (nactive - 1) + 1 = nactive
    BY HeapsAssumption
  <2>4. QED
    BY <2>2, <2>3, HeapFacts
<1>4. QED
  BY <1>1, <1>2, <1>3, HeapFacts DEF Allocated, HeapCells, Cells

-----------------------------------------------------------------------------
LEMMA InvInit == Init => Inv
<1> SUFFICES ASSUME Init PROVE Inv
  OBVIOUS
<1>1. TypeOK
  <2>1. /\ type \in [Cells -> CellTypes] /\ mark \in [Cells -> BOOLEAN]
        /\ car \in [Cells -> Pointers] /\ cdr \in [Cells -> Pointers]
        /\ reg \in [Regs -> Pointers]
    BY DEF Init, CellTypes, Pointers
  <2>2. /\ nactive \in 1 .. NHeaps /\ heap \in 1 .. HeapEnd
        /\ ptr \in 1 .. NHeaps * HeapSize + 1
    BY HeapFacts DEF Init, HeapEnd
  <2>3. freelist \in Seq(Cells) /\ nfreelist \in Seq(Cells) /\ calls \in Seq(Frames)
    BY DEF Init
  <2>4. QED
    BY <2>1, <2>2, <2>3 DEF Init, TypeOK
<1>2. CallsOK
  BY DEF Init, CallsOK, Collecting
<1>3. MemoryOK
  BY DEF Init, MemoryOK, Live, Children
<1>4. FreelistsOK /\ NoStaleMark
  BY DEF Init, FreelistsOK, NoStaleMark, Injective, Collecting
<1>5. MutatorOK /\ MarkOK /\ SweepOK
  BY DEF Init, MutatorOK, MarkOK, SweepOK, RootsIn, ClosedUnderChildren, LiveCells, Live, Collecting
<1>6. QED
  BY <1>1, <1>2, <1>3, <1>4, <1>5 DEF Inv

(* A step outside collections that touches neither memory nor the free      *)
(* list: only what the program holds changes.                               *)
LEMMA QuietStep ==
  ASSUME Inv, TypeOK', CallsOK',
         pc \notin {"mark", "sweep"}, pc' \notin {"mark", "sweep"},
         UNCHANGED <<memory, nactive, heap, freelist>>,
         RootsIn(LiveCells)'
  PROVE  Inv'
<1>1. ~Collecting /\ ~Collecting'
  BY DEF Collecting
<1>2. MemoryOK'
  BY DEF Inv, MemoryOK, memory, Allocated, Live, Children
<1>3. FreelistsOK' /\ NoStaleMark'
  BY <1>1 DEF Inv, FreelistsOK, NoStaleMark, Injective, memory, Collecting, Elems
<1>4. LiveCells' = LiveCells
  BY DEF LiveCells, Live, memory
<1>5. MutatorOK'
  BY <1>1, <1>4 DEF Inv, MutatorOK, ClosedUnderChildren, Children, memory
<1>6. MarkOK' /\ SweepOK'
  BY DEF MarkOK, SweepOK
<1>7. QED
  BY <1>2, <1>3, <1>5, <1>6 DEF Inv

LEMMA HoldStep == ASSUME Inv, NEW v \in LiveCells \cup {NIL}, Hold(v) PROVE Inv'
<1>1. TypeOK' /\ CallsOK'
  BY DEF Inv, TypeOK, CallsOK, Hold, memory, sweeping, Collecting, LiveCells
<1>2. RootsIn(LiveCells)'
  BY DEF Inv, Hold, MutatorOK, Collecting, RootsIn, LiveCells, Live, memory, Held
<1>3. QED
  BY <1>1, <1>2, QuietStep DEF Hold

LEMMA DropStep == ASSUME Inv, NEW c \in locals, Drop(c) PROVE Inv'
<1>1. TypeOK' /\ CallsOK'
  BY DEF Inv, TypeOK, CallsOK, Drop, memory, sweeping, Collecting
<1>2. RootsIn(LiveCells)'
  BY DEF Inv, Drop, MutatorOK, Collecting, RootsIn, LiveCells, Live, memory, Held
<1>3. QED
  BY <1>1, <1>2, QuietStep DEF Drop

LEMMA StoreRegisterStep ==
  ASSUME Inv, NEW r \in Regs, NEW v \in locals \cup {NIL}, StoreRegister(r, v)
  PROVE  Inv'
<1>1. TypeOK' /\ CallsOK'
  BY DEF Inv, TypeOK, CallsOK, StoreRegister, memory, sweeping, Collecting, Pointers
<1>2. RootsIn(LiveCells)'
  BY DEF Inv, TypeOK, StoreRegister, MutatorOK, Collecting, RootsIn, LiveCells, Live, memory, Held
<1>3. QED
  BY <1>1, <1>2, QuietStep DEF StoreRegister

(* The steps that change a flag, the program counter or the hook. *)
LEMMA FlagStep ==
  ASSUME Inv, SetAfterGc \/ StartRepl \/ NewcellFatal \/ CannotGrow \/ HookReturns \/ TakeNil
  PROVE  Inv'
<1>1. TypeOK' /\ CallsOK'
  BY DEF Inv, TypeOK, CallsOK, SetAfterGc, StartRepl, NewcellFatal, CannotGrow, HookReturns,
         TakeNil, memory, program, sweeping, Collecting
<1>2. RootsIn(LiveCells)'
  BY DEF Inv, SetAfterGc, StartRepl, NewcellFatal, CannotGrow, HookReturns, TakeNil, memory,
         program, sweeping, MutatorOK, Collecting, RootsIn, LiveCells, Live, Held
<1>3. QED
  BY <1>1, <1>2, QuietStep DEF SetAfterGc, StartRepl, NewcellFatal, CannotGrow, HookReturns, TakeNil

(* The steps that write a field of a cell the program holds. *)
LEMMA WriteStep ==
  ASSUME Inv, NEW c \in locals, NEW v \in locals \cup {NIL},
         siod_setcar(c, v) \/ siod_setcdr(c, v)
  PROVE  Inv'
<1>1. /\ pc = "run" /\ pc' = "run" /\ ~Collecting /\ ~Collecting'
      /\ UNCHANGED <<type, mark, nactive, heap, freelist, reg, locals, calls>>
  BY DEF siod_setcar, siod_setcdr, Collecting, program
<1>2. TypeOK' /\ CallsOK'
  BY DEF Inv, TypeOK, CallsOK, siod_setcar, siod_setcdr, program, sweeping, Collecting, Pointers
<1>3. LiveCells' = LiveCells /\ c \in LiveCells
  BY <1>1 DEF Inv, TypeOK, siod_setcar, siod_setcdr, LiveCells, Live
<1>4. \A d \in Cells \ {c} : Children(d)' = Children(d)
  BY DEF Inv, TypeOK, siod_setcar, siod_setcdr, Children
<1>5. Children(c)' \subseteq Children(c) \cup ({v} \ {NIL})
  BY DEF Inv, TypeOK, siod_setcar, siod_setcdr, Children
<1>6. MemoryOK'
  BY <1>1, <1>3, <1>4 DEF Inv, MemoryOK, Allocated, LiveCells, Live
<1>7. FreelistsOK' /\ NoStaleMark'
  BY <1>1 DEF Inv, FreelistsOK, NoStaleMark, Injective, Collecting, Elems
<1>8. MutatorOK'
  <2>1. RootsIn(LiveCells) /\ ClosedUnderChildren(LiveCells)
    BY <1>1 DEF Inv, MutatorOK
  <2>2. RootsIn(LiveCells)'
    BY <2>1, <1>1, <1>3 DEF RootsIn, Held
  <2>3. ClosedUnderChildren(LiveCells)'
    BY <2>1, <1>3, <1>4, <1>5 DEF ClosedUnderChildren, RootsIn, LiveCells
  <2>4. QED
    BY <2>2, <2>3 DEF MutatorOK
<1>9. MarkOK' /\ SweepOK'
  BY <1>1 DEF MarkOK, SweepOK
<1>10. QED
  BY <1>2, <1>6, <1>7, <1>8, <1>9 DEF Inv

-----------------------------------------------------------------------------
(* Building a cell in a cell that is not in use. *)
LEMMA FillFacts ==
  ASSUME Inv, NEW c \in Cells, NEW kind \in Kinds,
         NEW x \in LiveCells \cup {NIL}, NEW y \in LiveCells \cup {NIL},
         ~Live(c), ~Collecting, Fill(c, kind, x, y)
  PROVE  /\ LiveCells' = LiveCells \cup {c}
         /\ ClosedUnderChildren(LiveCells)'
         /\ type' \in [Cells -> CellTypes] /\ mark' \in [Cells -> BOOLEAN]
         /\ car' \in [Cells -> Pointers] /\ cdr' \in [Cells -> Pointers]
         /\ ~mark'[c] /\ type'[c] \notin {"raw", "free", "traced"}
         /\ \A d \in Cells \ {c} : type'[d] = type[d] /\ mark'[d] = mark[d]
         /\ \A d \in Cells \ {c} : Children(d)' = Children(d)
<1>1. kind \in CellTypes \ {"raw", "free", "traced"}
  BY KindsAssumption DEF CellTypes
<1>2. /\ type' \in [Cells -> CellTypes] /\ mark' \in [Cells -> BOOLEAN]
      /\ car' \in [Cells -> Pointers] /\ cdr' \in [Cells -> Pointers]
      /\ ~mark'[c] /\ type'[c] = kind /\ car'[c] = x /\ cdr'[c] = y
      /\ \A d \in Cells \ {c} : type'[d] = type[d] /\ mark'[d] = mark[d]
      /\ \A d \in Cells \ {c} : car'[d] = car[d] /\ cdr'[d] = cdr[d]
  BY <1>1 DEF Inv, TypeOK, Fill, LiveCells, Pointers
<1>3. LiveCells' = LiveCells \cup {c}
  BY <1>1, <1>2 DEF LiveCells, Live
<1>4. \A d \in Cells \ {c} : Children(d)' = Children(d)
  BY <1>2 DEF Children
<1>5. Children(c)' \subseteq LiveCells
  BY <1>2 DEF Children
<1>6. ClosedUnderChildren(LiveCells)
  BY DEF Inv, MutatorOK
<1>7. ClosedUnderChildren(LiveCells)'
  BY <1>3, <1>4, <1>5, <1>6 DEF ClosedUnderChildren, LiveCells
<1>8. QED
  BY <1>1, <1>2, <1>3, <1>4, <1>7

(* The head of the free list: a free cell that its tail does not contain. *)
LEMMA HeadFacts ==
  ASSUME Inv, ~Collecting, freelist # <<>>
  PROVE  /\ Head(freelist) \in Cells
         /\ type[Head(freelist)] = "free"
         /\ Tail(freelist) \in Seq(Cells)
         /\ Injective(Tail(freelist))
         /\ \A i \in 1 .. Len(Tail(freelist)) :
              Tail(freelist)[i] # Head(freelist) /\ type[Tail(freelist)[i]] = "free"
         /\ Elems(freelist) = {Head(freelist)} \cup Elems(Tail(freelist))
<1>1. freelist \in Seq(Cells) /\ Injective(freelist)
      /\ \A i \in 1 .. Len(freelist) : type[freelist[i]] = "free"
  BY DEF Inv, TypeOK, FreelistsOK
<1>2. /\ Len(freelist) \in Nat \ {0} /\ Head(freelist) = freelist[1] /\ Head(freelist) \in Cells
      /\ Tail(freelist) \in Seq(Cells) /\ Len(Tail(freelist)) = Len(freelist) - 1
      /\ \A i \in 1 .. Len(Tail(freelist)) : Tail(freelist)[i] = freelist[i + 1]
  BY <1>1
<1>3. \A i \in 1 .. Len(Tail(freelist)) : i + 1 \in 1 .. Len(freelist) /\ i + 1 # 1
  BY <1>2
<1>4. Injective(Tail(freelist))
  <2>1. SUFFICES ASSUME NEW i \in 1 .. Len(Tail(freelist)), NEW j \in 1 .. Len(Tail(freelist)),
                        Tail(freelist)[i] = Tail(freelist)[j]
                 PROVE  i = j
    BY DEF Injective
  <2>2. freelist[i + 1] = freelist[j + 1]
    BY <2>1, <1>2
  <2>3. i + 1 = j + 1
    BY <2>2, <1>1, <1>3 DEF Injective
  <2>4. QED
    BY <2>3, <1>2
<1>5. \A i \in 1 .. Len(Tail(freelist)) :
        Tail(freelist)[i] # Head(freelist) /\ type[Tail(freelist)[i]] = "free"
  BY <1>1, <1>2, <1>3 DEF Injective
<1>6. Elems(freelist) = {Head(freelist)} \cup Elems(Tail(freelist))
  <2>1. ASSUME NEW i \in 1 .. Len(freelist)
        PROVE  freelist[i] \in {Head(freelist)} \cup Elems(Tail(freelist))
    <3>1. CASE i = 1
      BY <3>1, <1>2
    <3>2. CASE i # 1
      <4>1. i - 1 \in 1 .. Len(Tail(freelist)) /\ (i - 1) + 1 = i
        BY <3>2, <1>2
      <4>2. Tail(freelist)[i - 1] = freelist[i]
        BY <4>1, <1>2
      <4>3. QED
        BY <4>1, <4>2 DEF Elems
    <3>3. QED
      BY <3>1, <3>2
  <2>2. ASSUME NEW i \in 1 .. Len(Tail(freelist))
        PROVE  Tail(freelist)[i] \in Elems(freelist)
    BY <1>2, <1>3 DEF Elems
  <2>3. Head(freelist) \in Elems(freelist)
    BY <1>2 DEF Elems
  <2>4. QED
    BY <2>1, <2>2, <2>3 DEF Elems
<1>7. QED
  BY <1>1, <1>2, <1>4, <1>5, <1>6

(* A cell taken from the head of the free list. *)
LEMMA TakeHeadStep ==
  ASSUME Inv, freelist # <<>>, ~Collecting, ~Collecting', TypeOK', CallsOK',
         NEW kind \in Kinds, NEW x \in LiveCells \cup {NIL}, NEW y \in LiveCells \cup {NIL},
         Fill(Head(freelist), kind, x, y),
         freelist' = Tail(freelist),
         UNCHANGED <<nactive, heap, reg>>,
         locals' \subseteq LiveCells \cup {Head(freelist)},
         \A i \in 1 .. Len(calls') : Held(calls'[i]) \subseteq LiveCells
  PROVE  Inv'
<1> DEFINE c == Head(freelist)
<1>1. /\ c \in Cells /\ type[c] = "free" /\ ~Live(c)
      /\ Injective(Tail(freelist))
      /\ \A i \in 1 .. Len(Tail(freelist)) : Tail(freelist)[i] # c /\ type[Tail(freelist)[i]] = "free"
      /\ Elems(freelist) = {c} \cup Elems(Tail(freelist))
      /\ Tail(freelist) \in Seq(Cells)
  BY HeadFacts DEF Live
<1>2. /\ LiveCells' = LiveCells \cup {c}
      /\ ClosedUnderChildren(LiveCells)'
      /\ ~mark'[c] /\ type'[c] \notin {"raw", "free", "traced"}
      /\ \A d \in Cells \ {c} : type'[d] = type[d] /\ mark'[d] = mark[d]
      /\ \A d \in Cells \ {c} : Children(d)' = Children(d)
  BY <1>1, FillFacts
<1>3. MemoryOK'
  BY <1>1, <1>2 DEF Inv, MemoryOK, Allocated, Live
<1>4. \A i \in 1 .. Len(Tail(freelist)) : Tail(freelist)[i] \in Cells \ {c}
  BY <1>1
<1>5. FreelistsOK' /\ NoStaleMark'
  <2>1. FreelistsOK'
    BY <1>1, <1>2, <1>4 DEF FreelistsOK, Collecting
  <2>2. ASSUME NEW d \in Cells, mark'[d]
        PROVE  d \in Elems(freelist)'
    <3>1. d # c /\ mark[d]
      BY <2>2, <1>2
    <3>2. d \in Elems(freelist)
      BY <3>1 DEF Inv, NoStaleMark, Collecting
    <3>3. QED
      BY <3>1, <3>2, <1>1 DEF Elems
  <2>3. QED
    BY <2>1, <2>2 DEF NoStaleMark
<1>6. RootsIn(LiveCells)'
  BY <1>2 DEF Inv, MutatorOK, RootsIn, Held
<1>7. MutatorOK' /\ MarkOK' /\ SweepOK'
  BY <1>2, <1>6 DEF MutatorOK, MarkOK, SweepOK, Collecting
<1>8. QED
  BY <1>3, <1>5, <1>7 DEF Inv

LEMMA NewcellFromFreelistStep ==
  ASSUME Inv, NEW kind \in Kinds, NEW x \in locals \cup {NIL}, NEW y \in locals \cup {NIL},
         NewcellFromFreelist(kind, x, y)
  PROVE  Inv'
<1>1. ~Collecting /\ ~Collecting' /\ freelist # <<>>
  BY DEF NewcellFromFreelist, Collecting
<1>2. RootsIn(LiveCells)
  BY <1>1 DEF Inv, MutatorOK
<1>3. x \in LiveCells \cup {NIL} /\ y \in LiveCells \cup {NIL} /\ locals \subseteq LiveCells
  BY <1>2 DEF RootsIn
<1>4. /\ type' \in [Cells -> CellTypes] /\ mark' \in [Cells -> BOOLEAN]
      /\ car' \in [Cells -> Pointers] /\ cdr' \in [Cells -> Pointers]
  BY <1>1, <1>3, HeadFacts, FillFacts DEF NewcellFromFreelist, Live
<1>5. TypeOK' /\ CallsOK'
  BY <1>1, <1>4, HeadFacts DEF Inv, TypeOK, CallsOK, NewcellFromFreelist, sweeping, Collecting
<1>6. \A i \in 1 .. Len(calls') : Held(calls'[i]) \subseteq LiveCells
  BY <1>2 DEF NewcellFromFreelist, RootsIn
<1>7. QED
  BY <1>1, <1>3, <1>5, <1>6, TakeHeadStep DEF NewcellFromFreelist

LEMMA NewcellFromHeapStep ==
  ASSUME Inv, NEW kind \in Kinds, NEW x \in locals \cup {NIL}, NEW y \in locals \cup {NIL},
         NewcellFromHeap(kind, x, y)
  PROVE  Inv'
<1>1. ~Collecting /\ ~Collecting' /\ freelist = <<>>
  BY DEF NewcellFromHeap, Collecting
<1>2. RootsIn(LiveCells)
  BY <1>1 DEF Inv, MutatorOK
<1>3. x \in LiveCells \cup {NIL} /\ y \in LiveCells \cup {NIL} /\ locals \subseteq LiveCells
  BY <1>2 DEF RootsIn
<1>4. heap \in Cells /\ heap \in heap .. HeapSize /\ heap \in 1 .. HeapSize
  <2>1. heap \in 1 .. HeapEnd /\ heap < HeapEnd
    BY DEF Inv, TypeOK, NewcellFromHeap
  <2>2. QED
    BY <2>1, HeapFacts DEF HeapEnd, Cells
<1>5. ~Live(heap) /\ type[heap] = "raw"
  BY <1>4 DEF Inv, MemoryOK, Live
<1>6. /\ LiveCells' = LiveCells \cup {heap}
      /\ ClosedUnderChildren(LiveCells)'
      /\ type' \in [Cells -> CellTypes] /\ mark' \in [Cells -> BOOLEAN]
      /\ car' \in [Cells -> Pointers] /\ cdr' \in [Cells -> Pointers]
      /\ ~mark'[heap] /\ type'[heap] \notin {"raw", "free", "traced"}
      /\ \A d \in Cells \ {heap} : type'[d] = type[d] /\ mark'[d] = mark[d]
      /\ \A d \in Cells \ {heap} : Children(d)' = Children(d)
  BY <1>1, <1>3, <1>4, <1>5, FillFacts DEF NewcellFromHeap
<1>7. TypeOK' /\ CallsOK'
  BY <1>1, <1>4, <1>6, HeapFacts DEF Inv, TypeOK, CallsOK, NewcellFromHeap, sweeping, Collecting, HeapEnd
<1>8. MemoryOK'
  <2>1. heap \in Allocated
    BY <1>4, AllocatedFacts DEF Inv, TypeOK, Allocated
  <2>2. heap' .. HeapSize \subseteq (heap .. HeapSize) \ {heap}
    BY <1>4 DEF NewcellFromHeap
  <2>3. Allocated' = Allocated
    BY DEF NewcellFromHeap, Allocated
  <2>4. QED
    BY <2>1, <2>2, <2>3, <1>6 DEF Inv, MemoryOK, Live
<1>9. FreelistsOK' /\ NoStaleMark'
  BY <1>1, <1>6 DEF Inv, FreelistsOK, NoStaleMark, NewcellFromHeap, Collecting, Elems, Injective
<1>10. RootsIn(LiveCells)'
  BY <1>2, <1>6 DEF NewcellFromHeap, RootsIn, Held
<1>11. MutatorOK' /\ MarkOK' /\ SweepOK'
  BY <1>1, <1>6, <1>10 DEF MutatorOK, MarkOK, SweepOK, Collecting
<1>12. QED
  BY <1>7, <1>8, <1>9, <1>11 DEF Inv

-----------------------------------------------------------------------------
(* The frames of the pending calls. *)
LEMMA FramesFacts ==
  ASSUME Inv
  PROVE  /\ Len(calls) \in Nat
         /\ \A i \in 1 .. Len(calls) :
              calls[i] \in Frames /\ calls[i].held \subseteq Cells /\ Held(calls[i]) \subseteq Cells
         /\ calls # <<>> =>
              /\ Len(calls) \in 1 .. Len(calls)
              /\ Popped \in Seq(Frames) /\ Len(Popped) = Len(calls) - 1
              /\ \A i \in 1 .. Len(Popped) : i \in 1 .. Len(calls) /\ Popped[i] = calls[i]
         /\ \A k \in 1 .. Len(calls) :
              /\ SubSeq(calls, 1, k - 1) \in Seq(Frames)
              /\ Len(SubSeq(calls, 1, k - 1)) = k - 1
              /\ \A i \in 1 .. k - 1 : i \in 1 .. Len(calls) /\ SubSeq(calls, 1, k - 1)[i] = calls[i]
<1>1. calls \in Seq(Frames)
  BY DEF Inv, TypeOK
<1>2. Len(calls) \in Nat /\ \A i \in 1 .. Len(calls) : calls[i] \in Frames
  BY <1>1
<1>3. \A f \in Frames : f.held \subseteq Cells /\ Held(f) \subseteq Cells
  BY DEF Frames, Held, Pointers
<1>4. calls # <<>> => Len(calls) \in 1 .. Len(calls)
  BY <1>1
<1>5. ASSUME NEW k \in 1 .. Len(calls)
      PROVE  /\ SubSeq(calls, 1, k - 1) \in Seq(Frames)
             /\ Len(SubSeq(calls, 1, k - 1)) = k - 1
             /\ \A i \in 1 .. k - 1 : i \in 1 .. Len(calls) /\ SubSeq(calls, 1, k - 1)[i] = calls[i]
  BY <1>1, <1>2
<1>6. QED
  BY <1>2, <1>3, <1>4, <1>5 DEF Popped

(* A collection starts: what the program holds moves to the new frame. *)
LEMMA StartGcStep ==
  ASSUME Inv, pc = "run", errjmp_ok,
         NEW op \in Kinds \cup {"gc"}, NEW x \in locals \cup {NIL}, NEW y \in locals \cup {NIL},
         NEW litter \in Litter, StartGc(Request(op, x, y), litter)
  PROVE  Inv'
<1> DEFINE f == Request(op, x, y)
<1>1. ~Collecting /\ pc' = "mark" /\ Collecting'
  BY DEF Collecting, StartGc
<1>2. f \in Frames /\ Held(f) \subseteq locals
  BY HeapFacts DEF Inv, TypeOK, Frames, Request, Pointers, Held
<1>3. /\ calls' \in Seq(Frames) /\ Len(calls') = Len(calls) + 1
      /\ \A i \in 1 .. Len(calls) : calls'[i] = calls[i]
      /\ calls'[Len(calls) + 1] = f
      /\ Len(calls) \in Nat
  BY <1>2 DEF Inv, TypeOK, StartGc
<1>4. RootsIn(LiveCells) /\ ClosedUnderChildren(LiveCells)
  BY <1>1 DEF Inv, MutatorOK
<1>5. \A c \in Cells : c \in heap .. HeapSize => type[c] = "raw"
  BY DEF Inv, MemoryOK
<1>6. LiveCells' = LiveCells
  BY <1>5 DEF Inv, TypeOK, StartGc, LiveCells, Live
<1>7. \A S : RootsIn(S) => RootsIn(S)'
  <2>1. SUFFICES ASSUME NEW S, RootsIn(S) PROVE RootsIn(S)'
    OBVIOUS
  <2>2. \A i \in 1 .. Len(calls') : Held(calls'[i]) \subseteq S
    BY <2>1, <1>2, <1>3 DEF RootsIn
  <2>3. QED
    BY <2>1, <2>2 DEF RootsIn, StartGc, Held
<1>8. gray' \subseteq LiveCells
  <2>1. \A p \in Cells : siod_looks_pointerp(p) => p \in LiveCells
    BY DEF siod_looks_pointerp, LiveCells, Live
  <2>2. RegRoots \subseteq LiveCells
    BY <1>4 DEF RegRoots, RootsIn
  <2>3. \A p : siod_looks_pointerp(p) => p \in Cells
    BY AllocatedFacts DEF Inv, TypeOK, siod_looks_pointerp
  <2>4. QED
    BY <2>1, <2>2, <2>3 DEF StartGc, MarkRoots
<1>9. RootsIn(gray')
  <2>1. \A c \in LiveCells : siod_looks_pointerp(c)
    BY DEF Inv, MemoryOK, siod_looks_pointerp, LiveCells, Live
  <2>2. locals \subseteq gray'
    BY <1>4, <2>1 DEF RootsIn, StartGc, MarkRoots, StackRoots
  <2>3. ASSUME NEW i \in 1 .. Len(calls)
        PROVE  Held(calls[i]) \subseteq gray'
    BY <1>4, <2>1 DEF RootsIn, StartGc, MarkRoots, StackRoots
  <2>4. \A r \in Regs : reg[r] # NIL => reg[r] \in gray'
    BY DEF StartGc, MarkRoots, RegRoots
  <2>5. QED
    BY <2>2, <2>3, <2>4 DEF RootsIn
<1>10. \A c \in LiveCells : ~mark[c]
  BY <1>1 DEF Inv, NoStaleMark, FreelistsOK, Elems, LiveCells, Live
<1>11. \A c \in Cells : Children(c)' = Children(c)
  BY DEF StartGc, Children
<1>12. TypeOK'
  <2>1. heap' \in 1 .. HeapEnd
    BY HeapFacts DEF StartGc, HeapEnd
  <2>2. type' \in [Cells -> CellTypes] /\ mark' \in [Cells -> BOOLEAN]
    BY DEF Inv, TypeOK, StartGc, CellTypes
  <2>3. gray' \in SUBSET Cells
    BY <1>8 DEF LiveCells
  <2>4. QED
    BY <2>1, <2>2, <2>3, <1>3 DEF Inv, TypeOK, StartGc, sweeping
<1>13. CallsOK'
  BY <1>1, <1>3 DEF Inv, CallsOK, StartGc
<1>14. MemoryOK'
  <2>1. heap' .. HeapSize = {}
    BY HeapFacts DEF StartGc, HeapEnd
  <2>2. Allocated' = Allocated
    BY DEF StartGc, Allocated
  <2>3. heap .. HeapSize \subseteq Allocated
    <3>1. /\ HeapSize \in 1 .. nactive * HeapSize /\ nactive * HeapSize \in 0 .. NHeaps * HeapSize
          /\ heap \in 1 .. HeapEnd
      BY AllocatedFacts DEF Inv, TypeOK, Allocated
    <3>2. QED
      BY <3>1, HeapFacts DEF Allocated, HeapEnd
  <2>4. \A c \in Cells : c \notin Allocated => type'[c] = "raw"
    BY <2>3 DEF Inv, MemoryOK, StartGc
  <2>5. \A c \in Cells : type'[c] # "traced" /\ (type'[c] = "raw" => ~mark'[c])
    BY DEF Inv, MemoryOK, StartGc
  <2>6. \A c \in Cells : ~Live(c)' => Children(c)' = {}
    BY <1>6, <1>11 DEF Inv, MemoryOK, LiveCells
  <2>7. QED
    BY <2>1, <2>2, <2>4, <2>5, <2>6 DEF MemoryOK
<1>15. FreelistsOK' /\ NoStaleMark' /\ MutatorOK' /\ SweepOK'
  BY <1>1 DEF Inv, FreelistsOK, NoStaleMark, MutatorOK, SweepOK, Injective, StartGc, Collecting
<1>16. MarkOK'
  <2>1. RootsIn(LiveCells)' /\ ClosedUnderChildren(LiveCells)'
    BY <1>4, <1>6, <1>7, <1>11 DEF ClosedUnderChildren, RootsIn, LiveCells
  <2>2. RootsIn({c \in LiveCells : mark[c] \/ c \in gray})'
    <3>1. gray' \subseteq {c \in LiveCells' : mark'[c] \/ c \in gray'}
      BY <1>6, <1>8
    <3>2. \A i \in 1 .. Len(calls') : Held(calls'[i]) \subseteq gray'
      BY <1>2, <1>3, <1>9 DEF RootsIn
    <3>3. locals' = {} /\ \A r \in Regs : reg'[r] # NIL => reg'[r] \in gray'
      BY <1>9 DEF RootsIn, StartGc
    <3>4. QED
      BY <3>1, <3>2, <3>3 DEF RootsIn, Held
  <2>3. \A c \in LiveCells' : ~mark'[c]
    BY <1>5, <1>6, <1>10 DEF StartGc, LiveCells
  <2>4. QED
    BY <2>1, <2>2, <2>3, <1>6, <1>8 DEF MarkOK
<1>17. QED
  BY <1>12, <1>13, <1>14, <1>15, <1>16 DEF Inv

(* The three colours: a marked cell points to marked or pending cells. *)
LEMMA MarkStep == ASSUME Inv, NEW c \in gray, siod_gc_mark(c) PROVE Inv'
<1>1. /\ pc = "mark" /\ pc' = "mark" /\ Collecting /\ Collecting'
      /\ UNCHANGED <<type, car, cdr, nactive, heap, freelist, reg, locals, calls, ptr, nfreelist>>
  BY DEF siod_gc_mark, Collecting, program, sweeping
<1>2. /\ RootsIn(LiveCells) /\ ClosedUnderChildren(LiveCells)
      /\ gray \subseteq LiveCells
      /\ RootsIn({d \in LiveCells : mark[d] \/ d \in gray})
      /\ \A d \in LiveCells : mark[d] => \A e \in Children(d) : mark[e] \/ e \in gray
  BY <1>1 DEF Inv, MarkOK
<1>3. c \in LiveCells /\ c \in Cells
  BY <1>2 DEF LiveCells
<1>4. /\ mark' \in [Cells -> BOOLEAN] /\ mark'[c]
      /\ \A d \in Cells \ {c} : mark'[d] = mark[d]
  BY <1>3 DEF Inv, TypeOK, siod_gc_mark
<1>5. Scanned(c) = Children(c)
  BY <1>3 DEF Inv, MemoryOK, Scanned
<1>6. gray' = {d \in gray \cup Children(c) : ~mark'[d]}
  BY <1>5 DEF siod_gc_mark
<1>7. /\ LiveCells' = LiveCells
      /\ \A d \in Cells : Children(d)' = Children(d)
  BY <1>1 DEF LiveCells, Live, Children
<1>8. Children(c) \subseteq LiveCells
  BY <1>2, <1>3 DEF ClosedUnderChildren
<1>9. TypeOK' /\ CallsOK'
  BY <1>1, <1>2, <1>4, <1>6, <1>8 DEF Inv, TypeOK, CallsOK, siod_gc_mark, LiveCells, Collecting, program, sweeping
<1>10. MemoryOK'
  BY <1>1, <1>3, <1>4, <1>7 DEF Inv, MemoryOK, Allocated, LiveCells, Live
<1>11. FreelistsOK' /\ NoStaleMark' /\ MutatorOK' /\ SweepOK'
  BY <1>1 DEF Inv, FreelistsOK, NoStaleMark, MutatorOK, SweepOK, Collecting, Injective
<1>12. MarkOK'
  <2>1. RootsIn(LiveCells)' /\ ClosedUnderChildren(LiveCells)'
    BY <1>1, <1>2, <1>7 DEF RootsIn, Held, ClosedUnderChildren, LiveCells
  <2>2. gray' \subseteq LiveCells'
    BY <1>2, <1>6, <1>7, <1>8
  <2>3. \A d \in LiveCells : mark[d] \/ d \in gray => mark'[d] \/ d \in gray'
    BY <1>4, <1>6 DEF LiveCells
  <2>4. RootsIn({d \in LiveCells : mark[d] \/ d \in gray})'
    BY <1>1, <1>2, <1>7, <2>3 DEF RootsIn, Held
  <2>5. ASSUME NEW d \in LiveCells, mark'[d], NEW e \in Children(d)
        PROVE  mark'[e] \/ e \in gray'
    <3>1. e \in LiveCells
      BY <1>2 DEF ClosedUnderChildren
    <3>2. CASE d = c
      BY <3>1, <3>2, <1>6
    <3>3. CASE d # c
      <4>1. mark[d]
        BY <2>5, <3>3, <1>4 DEF LiveCells
      <4>2. mark[e] \/ e \in gray
        BY <4>1, <1>2
      <4>3. QED
        BY <4>2, <3>1, <2>3
    <3>4. QED
      BY <3>2, <3>3
  <2>6. \A d \in LiveCells' : mark'[d] => \A e \in Children(d)' : mark'[e] \/ e \in gray'
    BY <2>5, <1>7 DEF LiveCells
  <2>7. QED
    BY <2>1, <2>2, <2>4, <2>6 DEF MarkOK
<1>13. QED
  BY <1>9, <1>10, <1>11, <1>12 DEF Inv

(* Nothing is pending: the marked cells are closed and hold the roots. *)
LEMMA MarkDoneStep == ASSUME Inv, MarkDone PROVE Inv'
<1>1. /\ pc = "mark" /\ pc' = "sweep" /\ Collecting /\ Collecting' /\ gray = {}
      /\ ptr' = 1 /\ nfreelist' = <<>>
      /\ UNCHANGED <<type, mark, car, cdr, nactive, heap, freelist, reg, locals, calls, errjmp_ok, afterGc, gray>>
  BY DEF MarkDone, Collecting, program, memory
<1>2. TypeOK'
  BY <1>1, HeapFacts DEF Inv, TypeOK
<1>3. CallsOK' /\ MemoryOK'
  BY <1>1 DEF Inv, CallsOK, MemoryOK, Allocated, Live, Children
<1>4. FreelistsOK' /\ NoStaleMark' /\ MutatorOK' /\ MarkOK'
  BY <1>1 DEF Inv, FreelistsOK, NoStaleMark, MutatorOK, MarkOK, Injective
<1>5. SweepOK'
  <2>1. /\ RootsIn({d \in LiveCells : mark[d]})
        /\ \A d \in LiveCells : mark[d] => \A e \in Children(d) : mark[e]
        /\ ClosedUnderChildren(LiveCells)
    BY <1>1 DEF Inv, MarkOK, RootsIn
  <2>2. Kept' = {d \in LiveCells : mark[d]}
    <3>1. \A d \in Cells : ~(d < 1)
      BY DEF Cells
    <3>2. QED
      BY <1>1, <3>1 DEF Kept, LiveCells, Live
  <2>3. RootsIn(Kept)'
    BY <1>1, <2>1, <2>2 DEF RootsIn, Held
  <2>4. ClosedUnderChildren(Kept)'
    BY <1>1, <2>1, <2>2 DEF ClosedUnderChildren, Children
  <2>5. \A d \in Cells : ~(d < ptr')
    BY <1>1 DEF Cells
  <2>6. QED
    BY <2>3, <2>4, <2>5 DEF SweepOK
<1>6. QED
  BY <1>2, <1>3, <1>4, <1>5 DEF Inv

(* The sweep frees a cell that is not kept, and keeps the others. *)
LEMMA SweepStep == ASSUME Inv, siod_gc_sweep PROVE Inv'
<1>1. /\ pc = "sweep" /\ pc' = "sweep" /\ Collecting /\ Collecting'
      /\ ptr' = ptr + 1
      /\ UNCHANGED <<nactive, heap, freelist, reg, locals, calls, errjmp_ok, afterGc, gray>>
  BY DEF siod_gc_sweep, Collecting, program
<1>2. ptr \in Allocated /\ ptr \in Cells /\ ptr \in 1 .. NHeaps * HeapSize
  BY AllocatedFacts DEF Inv, TypeOK, siod_gc_sweep, Cells
<1>3. /\ RootsIn(Kept) /\ ClosedUnderChildren(Kept)
      /\ \A c \in Cells : c < ptr => ~mark[c]
      /\ Injective(nfreelist) /\ nfreelist \in Seq(Cells)
      /\ \A i \in 1 .. Len(nfreelist) : nfreelist[i] < ptr /\ type[nfreelist[i]] = "free"
  BY <1>1 DEF Inv, TypeOK, SweepOK, FreelistsOK
<1>11. \A i \in 1 .. Len(nfreelist) :
         nfreelist[i] \in Cells /\ nfreelist[i] # ptr /\ nfreelist[i] < ptr'
  <2>1. \A i \in 1 .. Len(nfreelist) : nfreelist[i] \in Cells
    BY <1>3
  <2>2. \A c \in Cells : c < ptr => c # ptr /\ c < ptr'
    BY <1>1, <1>2 DEF Cells
  <2>3. QED
    BY <2>1, <2>2, <1>3
<1>4. \A c \in Cells : c < ptr' <=> c < ptr \/ c = ptr
  BY <1>1, <1>2 DEF Cells
<1>5. ptr' \in 1 .. NHeaps * HeapSize + 1
  BY <1>1, <1>2, HeapFacts
<1>6. CallsOK'
  BY <1>1 DEF Inv, CallsOK
<1>7. NoStaleMark' /\ MutatorOK' /\ MarkOK'
  BY <1>1 DEF NoStaleMark, MutatorOK, MarkOK
<1>8. CASE SweepUnmarked
  <2>1. /\ ~mark[ptr]
        /\ type' = [type EXCEPT ![ptr] = "free"]
        /\ car' = [car EXCEPT ![ptr] = NIL]
        /\ cdr' = [cdr EXCEPT ![ptr] = NIL]
        /\ nfreelist' = <<ptr>> \o nfreelist
        /\ UNCHANGED mark
    BY <1>8 DEF SweepUnmarked
  <2>2. /\ nfreelist' \in Seq(Cells) /\ Len(nfreelist') = Len(nfreelist) + 1
        /\ nfreelist'[1] = ptr /\ Len(nfreelist) \in Nat
        /\ \A i \in 1 .. Len(nfreelist') : i # 1 => i - 1 \in 1 .. Len(nfreelist) /\ nfreelist'[i] = nfreelist[i - 1]
    BY <2>1, <1>2, <1>3
  <2>3. TypeOK'
    <3>1. /\ type' \in [Cells -> CellTypes]
          /\ car' \in [Cells -> Pointers] /\ cdr' \in [Cells -> Pointers]
      BY <2>1 DEF Inv, TypeOK, CellTypes, Pointers
    <3>2. QED
      BY <3>1, <2>1, <2>2, <1>1, <1>5 DEF Inv, TypeOK
  <2>4. /\ type'[ptr] = "free" /\ car'[ptr] = NIL /\ cdr'[ptr] = NIL
        /\ \A c \in Cells \ {ptr} : type'[c] = type[c] /\ car'[c] = car[c] /\ cdr'[c] = cdr[c]
    <3>1. type \in [Cells -> CellTypes] /\ car \in [Cells -> Pointers] /\ cdr \in [Cells -> Pointers]
      BY DEF Inv, TypeOK
    <3>2. QED
      BY <2>1, <1>2, <3>1
  <2>10. \A c \in Cells : IF c = ptr THEN Children(c)' = {} ELSE Children(c)' = Children(c)
    BY <2>4 DEF Children
  <2>5. MemoryOK'
    <3>1. heap' .. HeapSize = {}
      BY <1>1, HeapFacts DEF Inv, CallsOK, HeapEnd
    <3>2. Allocated' = Allocated
      BY <1>1 DEF Allocated
    <3>3. \A c \in Cells : c \notin Allocated' => type'[c] = "raw"
      BY <1>2, <2>4, <3>2 DEF Inv, MemoryOK
    <3>4. \A c \in Cells : type'[c] # "traced" /\ (type'[c] = "raw" => ~mark'[c])
      BY <2>1, <2>4 DEF Inv, MemoryOK
    <3>5. \A c \in Cells : ~Live(c)' => Children(c)' = {}
      BY <2>4, <2>10 DEF Inv, MemoryOK, Live
    <3>6. QED
      BY <3>1, <3>3, <3>4, <3>5 DEF MemoryOK
  <2>6. FreelistsOK'
    <3>1. \A i \in 1 .. Len(nfreelist) :
            nfreelist[i] \in Cells \ {ptr} /\ nfreelist[i] < ptr' /\ type'[nfreelist[i]] = "free"
      BY <1>3, <1>11, <2>4
    <3>2. ASSUME NEW i \in 1 .. Len(nfreelist')
          PROVE  nfreelist'[i] < ptr' /\ type'[nfreelist'[i]] = "free"
      <4>1. CASE i = 1
        <5>1. ptr < ptr'
          BY <1>1, <1>2
        <5>2. QED
          BY <4>1, <5>1, <2>2, <2>4
      <4>2. CASE i # 1
        BY <4>2, <2>2, <3>1
      <4>3. QED
        BY <4>1, <4>2
    <3>3. Injective(nfreelist')
      <4>1. SUFFICES ASSUME NEW i \in 1 .. Len(nfreelist'), NEW j \in 1 .. Len(nfreelist'),
                            nfreelist'[i] = nfreelist'[j]
                     PROVE  i = j
        BY DEF Injective
      <4>2. CASE i = 1 \/ j = 1
        BY <4>1, <4>2, <2>2, <3>1
      <4>3. CASE i # 1 /\ j # 1
        <5>1. i - 1 = j - 1
          BY <4>1, <4>3, <2>2, <1>3 DEF Injective
        <5>2. QED
          BY <5>1, <2>2
      <4>4. QED
        BY <4>2, <4>3
    <3>4. QED
      BY <1>1, <3>2, <3>3 DEF Inv, FreelistsOK, Injective
  <2>7. Kept' = Kept
    <3>1. ptr \notin Kept
      BY <1>2, <2>1 DEF Kept
    <3>2. QED
      BY <1>4, <2>1, <2>4, <3>1 DEF Kept, LiveCells, Live
  <2>8. SweepOK'
    <3>1. RootsIn(Kept)'
      BY <1>1, <1>3, <2>7 DEF RootsIn, Held
    <3>2. ptr \notin Kept
      BY <1>2, <2>1 DEF Kept
    <3>3. ClosedUnderChildren(Kept)'
      BY <1>3, <2>10, <2>7, <3>2 DEF ClosedUnderChildren, Kept, LiveCells
    <3>4. QED
      BY <1>3, <1>4, <2>1, <3>1, <3>3 DEF SweepOK
  <2>9. QED
    BY <1>6, <1>7, <2>3, <2>5, <2>6, <2>8 DEF Inv
<1>9. CASE SweepMarked
  <2>1. /\ mark[ptr] /\ mark' = [mark EXCEPT ![ptr] = FALSE]
        /\ UNCHANGED <<type, car, cdr, nfreelist>>
    BY <1>9 DEF SweepMarked
  <2>2. /\ mark' \in [Cells -> BOOLEAN] /\ ~mark'[ptr]
        /\ \A c \in Cells \ {ptr} : mark'[c] = mark[c]
    BY <2>1, <1>2 DEF Inv, TypeOK
  <2>3. TypeOK'
    BY <1>1, <1>5, <2>1, <2>2 DEF Inv, TypeOK
  <2>4. MemoryOK'
    BY <1>1, <2>1, <2>2 DEF Inv, MemoryOK, Allocated, Live, Children
  <2>5. FreelistsOK'
    BY <1>1, <1>3, <1>11, <2>1 DEF Inv, FreelistsOK, Injective
  <2>6. Kept' = Kept
    BY <1>4, <2>1, <2>2 DEF Kept, LiveCells, Live
  <2>7. SweepOK'
    <3>1. RootsIn(Kept)'
      BY <1>1, <1>3, <2>6 DEF RootsIn, Held
    <3>2. ClosedUnderChildren(Kept)'
      BY <1>3, <2>1, <2>6 DEF ClosedUnderChildren, Children
    <3>3. QED
      BY <1>3, <1>4, <2>2, <3>1, <3>2 DEF SweepOK
  <2>8. QED
    BY <1>6, <1>7, <2>3, <2>4, <2>5, <2>7 DEF Inv
<1>10. QED
  BY <1>8, <1>9 DEF siod_gc_sweep

-----------------------------------------------------------------------------
(* Calls that return or are thrown out of leave the calls made before them. *)
LEMMA PrefixFacts ==
  ASSUME TypeOK, NEW n \in 1 .. Len(calls)
  PROVE  /\ calls[n] \in Frames /\ calls[n].held \subseteq Cells
         /\ calls[n].held \subseteq Held(calls[n])
         /\ SubSeq(calls, 1, n - 1) \in Seq(Frames)
         /\ Len(SubSeq(calls, 1, n - 1)) = n - 1
         /\ \A i \in 1 .. Len(SubSeq(calls, 1, n - 1)) :
              /\ SubSeq(calls, 1, n - 1)[i] = calls[i]
              /\ i \in 1 .. Len(calls) /\ i < n
<1>1. calls \in Seq(Frames)
  BY DEF TypeOK
<1>2. calls[n] \in Frames
  BY <1>1
<1>3. calls[n].held \subseteq Cells /\ calls[n].held \subseteq Held(calls[n])
  BY <1>2 DEF Frames, Held
<1>4. /\ Len(SubSeq(calls, 1, n - 1)) = n - 1
      /\ \A i \in 1 .. n - 1 :
           /\ SubSeq(calls, 1, n - 1)[i] = calls[i]
           /\ i \in 1 .. Len(calls) /\ i < n
  BY <1>1
<1>5. SubSeq(calls, 1, n - 1) \in Seq(Frames)
  BY <1>1
<1>6. QED
  BY <1>2, <1>3, <1>4, <1>5

(* The sweep has passed every cell: what it kept is what is in use. *)
LEMMA SweepDoneStep == ASSUME Inv, SweepDone PROVE Inv'
<1>1. /\ pc = "sweep" /\ Collecting /\ pc' \in {"run", "grow"} /\ ~Collecting'
      /\ freelist' = nfreelist /\ ptr' = 1 /\ nfreelist' = <<>> /\ errjmp_ok' = TRUE
      /\ UNCHANGED <<type, mark, car, cdr, nactive, heap, reg, afterGc, gray>>
  BY DEF SweepDone, Collecting, memory
<1>2. \A c \in Allocated : c \in Cells /\ c < ptr
  <2>1. ptr \in Nat \ {0} /\ ptr \notin Allocated /\ nactive * HeapSize \in Nat
    BY AllocatedFacts, HeapFacts DEF Inv, TypeOK, SweepDone
  <2>2. ptr > nactive * HeapSize
    BY <2>1 DEF Allocated
  <2>3. Allocated \subseteq Cells
    BY AllocatedFacts DEF Inv, TypeOK
  <2>4. QED
    BY <2>1, <2>2, <2>3 DEF Allocated
<1>3. \A c \in Cells : ~mark[c]
  BY <1>1, <1>2 DEF Inv, MemoryOK, SweepOK
<1>4. Kept = LiveCells
  BY <1>2 DEF Inv, MemoryOK, Kept, LiveCells, Live
<1>5. RootsIn(LiveCells) /\ ClosedUnderChildren(LiveCells)
  BY <1>1, <1>4 DEF Inv, SweepOK
<1>6. LiveCells' = LiveCells /\ \A c \in Cells : Children(c)' = Children(c)
  BY <1>1 DEF LiveCells, Live, Children
<1>7. calls # <<>> /\ Len(calls) \in 1 .. Len(calls) /\ TypeOK
  BY <1>1 DEF Inv, TypeOK, CallsOK
<1>8. /\ calls' \in Seq(Frames) /\ locals' \subseteq LiveCells
      /\ \A i \in 1 .. Len(calls') :
           i \in 1 .. Len(calls) /\ calls'[i] = calls[i] /\ calls'[i].op # "gc"
      /\ pc' = "grow" => calls' # <<>>
  <2>1. CASE Top.op = "gc"
    <3>1. pc' = "run" /\ calls' = Popped /\ locals' = Top.held
      BY <2>1 DEF SweepDone
    <3>2. Top.held \subseteq LiveCells
      BY <1>5, <1>7, PrefixFacts DEF Top, RootsIn
    <3>3. \A i \in 1 .. Len(calls) : i < Len(calls) => calls[i].op # "gc"
      BY <1>7 DEF Inv, CallsOK
    <3>4. QED
      BY <3>1, <3>2, <3>3, <1>7, PrefixFacts DEF Popped
  <2>2. CASE Top.op # "gc"
    <3>1. pc' = "grow" /\ UNCHANGED <<calls, locals>>
      BY <2>2 DEF SweepDone
    <3>2. \A i \in 1 .. Len(calls) : calls[i].op # "gc"
      BY <2>2 DEF Inv, CallsOK, Top
    <3>3. locals \subseteq LiveCells
      BY <1>5 DEF RootsIn
    <3>4. QED
      BY <3>1, <3>2, <3>3, <1>7 DEF TypeOK
  <2>3. QED
    BY <2>1, <2>2
<1>9. TypeOK'
  BY <1>1, <1>7, <1>8, HeapFacts DEF TypeOK, LiveCells
<1>10. CallsOK'
  BY <1>1, <1>8 DEF CallsOK
<1>11. MemoryOK'
  BY <1>1 DEF Inv, MemoryOK, Allocated, Live, Children
<1>12. FreelistsOK' /\ NoStaleMark' /\ MarkOK' /\ SweepOK'
  BY <1>1, <1>3 DEF Inv, FreelistsOK, NoStaleMark, MarkOK, SweepOK, Injective
<1>13. RootsIn(LiveCells)'
  BY <1>1, <1>5, <1>6, <1>8 DEF RootsIn, Held
<1>14. ClosedUnderChildren(LiveCells)'
  BY <1>5, <1>6 DEF ClosedUnderChildren, LiveCells
<1>15. QED
  BY <1>9, <1>10, <1>11, <1>12, <1>13, <1>14 DEF Inv, MutatorOK

(* The program resumes at a call it is thrown out of. *)
LEMMA UnwindStep ==
  ASSUME Inv, siod_gc_fatal_error \/ GcAborted \/ HookThrows
  PROVE  Inv'
<1>1. PICK n \in 1 .. Len(calls) : Unwind(n)
  BY DEF siod_gc_fatal_error, GcAborted, HookThrows
<1>2. /\ ~Collecting /\ pc \notin {"mark", "sweep"} /\ pc' = "run" /\ ~Collecting'
      /\ calls' = SubSeq(calls, 1, n - 1) /\ locals' = calls[n].held
      /\ UNCHANGED <<memory, nactive, heap, freelist, reg, afterGc, errjmp_ok, gray, sweeping>>
  BY <1>1 DEF siod_gc_fatal_error, GcAborted, HookThrows, Unwind, Collecting
<1>3. TypeOK
  BY DEF Inv
<1>4. RootsIn(LiveCells)
  BY <1>2 DEF Inv, MutatorOK
<1>5. TypeOK'
  BY <1>2, <1>3, PrefixFacts DEF TypeOK, memory, sweeping
<1>6. CallsOK'
  BY <1>2, <1>3, PrefixFacts DEF Inv, CallsOK
<1>7. LiveCells' = LiveCells
  BY <1>2 DEF LiveCells, Live, memory
<1>8. RootsIn(LiveCells)'
  <2>1. locals' \subseteq LiveCells
    BY <1>2, <1>3, <1>4, PrefixFacts DEF RootsIn
  <2>2. \A i \in 1 .. Len(calls') : Held(calls'[i]) \subseteq LiveCells
    BY <1>2, <1>3, <1>4, PrefixFacts DEF RootsIn
  <2>3. QED
    BY <2>1, <2>2, <1>2, <1>4, <1>7 DEF RootsIn, Held
<1>9. QED
  BY <1>2, <1>5, <1>6, <1>8, QuietStep

LEMMA RunHookStep == ASSUME Inv, RunHook PROVE Inv'
<1>1. /\ pc = "grow" /\ ~Collecting /\ pc' \in {"run", "take"} /\ ~Collecting'
      /\ UNCHANGED <<memory, nactive, heap, freelist, program, errjmp_ok, gray, sweeping>>
  BY DEF RunHook, Collecting
<1>2. calls \in Seq(Frames) /\ calls # <<>> /\ Len(calls) \in 1 .. Len(calls)
  BY <1>1 DEF Inv, TypeOK, CallsOK
<1>3. /\ calls' \in Seq(Frames) /\ Len(calls') = Len(calls) /\ calls' # <<>>
      /\ \A i \in 1 .. Len(calls) :
           calls'[i].op = calls[i].op /\ Held(calls'[i]) = Held(calls[i])
  <2>1. CASE UNCHANGED calls
    BY <2>1, <1>2
  <2>2. CASE calls' = Append(Popped, Interrupted(Top))
    <3>1. \A f \in Frames : /\ Interrupted(f) \in Frames
                            /\ Interrupted(f).op = f.op
                            /\ Held(Interrupted(f)) = Held(f)
      BY DEF Interrupted, Frames, Held
    <3>2. /\ Top \in Frames /\ Popped \in Seq(Frames) /\ Len(Popped) = Len(calls) - 1
          /\ \A i \in 1 .. Len(Popped) : Popped[i] = calls[i]
      BY <1>2, PrefixFacts DEF Inv, Top, Popped
    <3>3. /\ calls' \in Seq(Frames) /\ Len(calls') = Len(calls) /\ calls' # <<>>
          /\ \A i \in 1 .. Len(calls) :
               calls'[i] = IF i = Len(calls) THEN Interrupted(Top) ELSE calls[i]
      BY <2>2, <1>2, <3>1, <3>2
    <3>4. QED
      BY <3>1, <3>2, <3>3 DEF Top
  <2>3. QED
    BY <2>1, <2>2 DEF RunHook
<1>4. TypeOK'
  BY <1>1, <1>3 DEF Inv, TypeOK, memory, program, sweeping
<1>5. CallsOK'
  BY <1>1, <1>3 DEF Inv, CallsOK
<1>6. RootsIn(LiveCells)'
  BY <1>1, <1>3 DEF Inv, MutatorOK, RootsIn, LiveCells, Live, memory, program, Held
<1>7. QED
  BY <1>1, <1>4, <1>5, <1>6, QuietStep

LEMMA TakeCellStep == ASSUME Inv, TakeCell PROVE Inv'
<1>1. /\ pc = "take" /\ pc' = "run" /\ ~Collecting /\ ~Collecting' /\ freelist # <<>>
      /\ calls' = Popped /\ locals' = Top.held \cup {Head(freelist)}
      /\ Fill(Head(freelist), Top.op, Top.car, Top.cdr)
      /\ freelist' = Tail(freelist)
      /\ UNCHANGED <<nactive, heap, reg, afterGc, errjmp_ok, gray, sweeping>>
  BY DEF TakeCell, Collecting
<1>2. TypeOK /\ calls # <<>> /\ Len(calls) \in 1 .. Len(calls)
  BY <1>1 DEF Inv, TypeOK, CallsOK
<1>3. RootsIn(LiveCells)
  BY <1>1 DEF Inv, MutatorOK
<1>4. Top \in Frames /\ Held(Top) \subseteq LiveCells /\ Top.op # "gc"
  BY <1>1, <1>2, <1>3, PrefixFacts DEF Top, RootsIn, Inv, CallsOK
<1>5. /\ Top.op \in Kinds /\ Top.held \subseteq LiveCells
      /\ Top.car \in LiveCells \cup {NIL} /\ Top.cdr \in LiveCells \cup {NIL}
  BY <1>4 DEF Frames, Held
<1>6. /\ type' \in [Cells -> CellTypes] /\ mark' \in [Cells -> BOOLEAN]
      /\ car' \in [Cells -> Pointers] /\ cdr' \in [Cells -> Pointers]
  BY <1>1, <1>5, HeadFacts, FillFacts DEF Live
<1>7. calls' \in Seq(Frames)
      /\ \A i \in 1 .. Len(calls') : i \in 1 .. Len(calls) /\ calls'[i] = calls[i] /\ i < Len(calls)
  BY <1>1, <1>2, PrefixFacts DEF Popped
<1>8. TypeOK'
  BY <1>1, <1>2, <1>5, <1>6, <1>7, HeadFacts DEF TypeOK, sweeping, LiveCells
<1>9. CallsOK'
  BY <1>1, <1>7 DEF Inv, CallsOK
<1>10. \A i \in 1 .. Len(calls') : Held(calls'[i]) \subseteq LiveCells
  BY <1>3, <1>7 DEF RootsIn
<1>11. QED
  BY <1>1, <1>5, <1>8, <1>9, <1>10, TakeHeadStep

(* A new heap: its cells were not in use and become free. *)
LEMMA AddHeapStep == ASSUME Inv, UserAllocateHeap \/ Grow PROVE Inv'
<1>1. PICK garbage \in [HeapCells(nactive) -> BOOLEAN] : AddHeap(garbage)
  BY DEF UserAllocateHeap, Grow, siod_allocate_aheap
<1>2. /\ nactive < NHeaps /\ nactive' = nactive + 1
      /\ type' = [c \in Cells |-> IF c \in HeapCells(nactive) THEN "free" ELSE type[c]]
      /\ mark' = [c \in Cells |-> IF c \in HeapCells(nactive) THEN garbage[c] ELSE mark[c]]
      /\ freelist' = NewCells \o freelist
      /\ UNCHANGED <<car, cdr, heap, reg, afterGc, calls, locals, errjmp_ok, gray, sweeping>>
      /\ ~Collecting /\ ~Collecting' /\ pc \in {"run", "grow"}
      /\ pc = "run" => pc' = "run"
      /\ pc = "grow" => pc' = "take"
  BY <1>1 DEF AddHeap, UserAllocateHeap, Grow, Collecting
<1>3. /\ Allocated \subseteq Cells /\ HeapSize \in Allocated
      /\ HeapCells(nactive) \subseteq Cells
      /\ HeapCells(nactive) \cap Allocated = {}
      /\ HeapCells(nactive) = nactive * HeapSize + 1 .. nactive * HeapSize + HeapSize
      /\ nactive * HeapSize \in Nat /\ HeapSize \in Nat
      /\ nactive' \in 1 .. NHeaps
      /\ Allocated' = Allocated \cup HeapCells(nactive)
  <2>1. nactive \in 1 .. NHeaps
    BY DEF Inv, TypeOK
  <2>2. Allocated' = 1 .. (nactive + 1) * HeapSize
    BY <1>2 DEF Allocated
  <2>3. QED
    BY <1>2, <2>1, <2>2, AllocatedFacts, HeapFacts
<1>4. \A c \in HeapCells(nactive) : c \in Cells /\ type[c] = "raw" /\ ~Live(c)
  BY <1>3 DEF Inv, MemoryOK, Live
<1>5. \A c \in Cells : Live(c)' <=> Live(c)
  BY <1>2, <1>4 DEF Live
<1>6. LiveCells' = LiveCells
  BY <1>5 DEF LiveCells
<1>7. \A c \in Cells : Children(c)' = Children(c)
  BY <1>2 DEF Children
<1>8. /\ NewCells \in Seq(Cells) /\ Len(NewCells) = HeapSize
      /\ \A i \in 1 .. HeapSize : NewCells[i] = nactive * HeapSize + i /\ NewCells[i] \in HeapCells(nactive)
      /\ \A c \in HeapCells(nactive) : \E i \in 1 .. HeapSize : NewCells[i] = c
  <2>1. \A i \in 1 .. HeapSize : nactive * HeapSize + i \in HeapCells(nactive)
    BY <1>3
  <2>2. \A c \in HeapCells(nactive) : c - nactive * HeapSize \in 1 .. HeapSize
    BY <1>3
  <2>3. \A c \in HeapCells(nactive) : nactive * HeapSize + (c - nactive * HeapSize) = c
    BY <1>3
  <2>4. NewCells \in Seq(Cells) /\ Len(NewCells) = HeapSize
    BY <1>3, <2>1 DEF NewCells
  <2>5. \A i \in 1 .. HeapSize : NewCells[i] = nactive * HeapSize + i
    BY DEF NewCells
  <2>6. QED
    BY <2>1, <2>2, <2>3, <2>4, <2>5
<1>9. /\ freelist \in Seq(Cells) /\ Injective(freelist)
      /\ \A i \in 1 .. Len(freelist) : freelist[i] \in Cells /\ type[freelist[i]] = "free"
  BY <1>2 DEF Inv, TypeOK, FreelistsOK
<1>10. /\ freelist' \in Seq(Cells) /\ Len(freelist') = HeapSize + Len(freelist)
       /\ Len(freelist) \in Nat
       /\ \A i \in 1 .. HeapSize : freelist'[i] = NewCells[i]
       /\ \A i \in 1 .. Len(freelist) : freelist'[HeapSize + i] = freelist[i]
       /\ \A i \in 1 .. Len(freelist') : i \notin 1 .. HeapSize =>
            i - HeapSize \in 1 .. Len(freelist) /\ freelist'[i] = freelist[i - HeapSize]
  <2>1. freelist' \in Seq(Cells) /\ Len(freelist) \in Nat
    BY <1>2, <1>8, <1>9
  <2>2. Len(freelist') = HeapSize + Len(freelist)
    <3>1. \A a, b \in Seq(Cells) : Len(a \o b) = Len(a) + Len(b)
      OBVIOUS
    <3>2. Len(NewCells \o freelist) = Len(NewCells) + Len(freelist)
      BY <3>1, <1>8, <1>9, Zenon
    <3>3. QED
      BY <3>2, <1>2, <1>8, Zenon
  <2>3. \A i \in 1 .. HeapSize : freelist'[i] = NewCells[i]
    BY <1>2, <1>3, <1>8, <1>9, <2>1
  <2>4. \A i \in 1 .. Len(freelist') : i \notin 1 .. HeapSize =>
          i - HeapSize \in 1 .. Len(freelist) /\ freelist'[i] = freelist[i - HeapSize]
    BY <1>2, <1>3, <1>8, <1>9, <2>1, <2>2
  <2>5. \A i \in 1 .. Len(freelist) : freelist'[HeapSize + i] = freelist[i]
    BY <1>2, <1>3, <1>8, <1>9, <2>1, <2>2
  <2>6. QED
    BY <2>1, <2>2, <2>3, <2>4, <2>5
<1>11. TypeOK'
  <2>1. /\ type' \in [Cells -> CellTypes] /\ mark' \in [Cells -> BOOLEAN]
    BY <1>2 DEF Inv, TypeOK, CellTypes
  <2>2. QED
    BY <1>2, <1>3, <1>10, <2>1 DEF Inv, TypeOK, sweeping
<1>12. CallsOK'
  BY <1>2 DEF Inv, CallsOK
<1>13. MemoryOK'
  <2>1. \A c \in heap .. HeapSize : c \notin HeapCells(nactive)
    <3>1. heap \in 1 .. HeapEnd
      BY DEF Inv, TypeOK
    <3>2. heap .. HeapSize \subseteq Allocated
      <4>1. HeapSize \in 1 .. nactive * HeapSize
        BY <1>3 DEF Allocated
      <4>2. QED
        BY <3>1, <4>1, <1>3, HeapFacts DEF Allocated, HeapEnd
    <3>3. QED
      BY <3>2, <1>3
  <2>2. \A c \in Cells : c \notin Allocated' \/ c \in heap' .. HeapSize => type'[c] = "raw"
    BY <1>2, <1>3, <2>1 DEF Inv, MemoryOK
  <2>3. \A c \in Cells : type'[c] # "traced" /\ (type'[c] = "raw" => ~mark'[c])
    BY <1>2 DEF Inv, MemoryOK
  <2>4. \A c \in Cells : ~Live(c)' => Children(c)' = {}
    BY <1>5, <1>7 DEF Inv, MemoryOK
  <2>5. QED
    BY <2>2, <2>3, <2>4 DEF MemoryOK
<1>14. FreelistsOK'
  <2>1. \A i \in 1 .. Len(freelist') : type'[freelist'[i]] = "free"
    BY <1>2, <1>4, <1>8, <1>9, <1>10
  <2>2. Injective(freelist')
    <3>1. SUFFICES ASSUME NEW i \in 1 .. Len(freelist'), NEW j \in 1 .. Len(freelist'),
                          freelist'[i] = freelist'[j]
                   PROVE  i = j
      BY DEF Injective
    <3>2. \A k \in 1 .. Len(freelist') :
            freelist'[k] \in HeapCells(nactive) <=> k \in 1 .. HeapSize
      <4>1. \A k \in 1 .. HeapSize : freelist'[k] \in HeapCells(nactive)
        BY <1>8, <1>10
      <4>2. \A k \in 1 .. Len(freelist) : freelist[k] \notin HeapCells(nactive)
        BY <1>4, <1>9
      <4>3. \A k \in 1 .. Len(freelist') : k \notin 1 .. HeapSize =>
              freelist'[k] \notin HeapCells(nactive)
        BY <4>2, <1>10, Zenon
      <4>4. QED
        BY <4>1, <4>3, Zenon
    <3>3. CASE i \in 1 .. HeapSize
      BY <3>1, <3>2, <3>3, <1>3, <1>8, <1>10
    <3>4. CASE i \notin 1 .. HeapSize
      <4>1. j \notin 1 .. HeapSize
        BY <3>1, <3>2, <3>4
      <4>2. i - HeapSize = j - HeapSize
        BY <3>1, <3>4, <4>1, <1>9, <1>10 DEF Injective
      <4>3. QED
        BY <4>2, <1>3
    <3>5. QED
      BY <3>3, <3>4
  <2>3. QED
    BY <1>2, <2>1, <2>2 DEF FreelistsOK, Collecting, Injective
<1>15. NoStaleMark'
  <2>1. ASSUME NEW c \in Cells, mark'[c]
        PROVE  c \in Elems(freelist')
    <3>1. CASE c \in HeapCells(nactive)
      BY <3>1, <1>8, <1>10 DEF Elems
    <3>2. CASE c \notin HeapCells(nactive)
      <4>1. c \in Elems(freelist)
        BY <2>1, <3>2, <1>2 DEF Inv, NoStaleMark
      <4>2. PICK i \in 1 .. Len(freelist) : c = freelist[i]
        BY <4>1 DEF Elems
      <4>3. HeapSize + i \in 1 .. Len(freelist') /\ freelist'[HeapSize + i] = c
        BY <4>2, <1>3, <1>10
      <4>4. QED
        BY <4>3 DEF Elems
    <3>3. QED
      BY <3>1, <3>2
  <2>2. QED
    BY <2>1 DEF NoStaleMark, Elems
<1>16. MutatorOK'
  <2>1. RootsIn(LiveCells) /\ ClosedUnderChildren(LiveCells)
    BY <1>2 DEF Inv, MutatorOK
  <2>2. RootsIn(LiveCells)'
    BY <2>1, <1>2, <1>6 DEF RootsIn, Held
  <2>3. ClosedUnderChildren(LiveCells)'
    BY <2>1, <1>6, <1>7 DEF ClosedUnderChildren, LiveCells
  <2>4. QED
    BY <2>2, <2>3 DEF MutatorOK
<1>17. MarkOK' /\ SweepOK'
  BY <1>2 DEF MarkOK, SweepOK, Collecting
<1>18. QED
  BY <1>11, <1>12, <1>13, <1>14, <1>15, <1>16, <1>17 DEF Inv

-----------------------------------------------------------------------------
(* Every step preserves the inductive invariant. *)
LEMMA InvNext == Inv /\ [Next]_vars => Inv'
<1> SUFFICES ASSUME Inv, [Next]_vars PROVE Inv'
  OBVIOUS
<1>1. CASE UNCHANGED vars
  <2>1. UNCHANGED <<type, mark, car, cdr, nactive, heap, freelist, reg, locals, afterGc, calls,
                    errjmp_ok, pc, gray, ptr, nfreelist>>
    BY <1>1 DEF vars, memory, program, sweeping
  <2>2. TypeOK' /\ CallsOK' /\ MemoryOK'
    BY <2>1 DEF Inv, TypeOK, CallsOK, MemoryOK, Collecting, Allocated, Live, Children
  <2>3. FreelistsOK' /\ NoStaleMark'
    BY <2>1 DEF Inv, FreelistsOK, NoStaleMark, Injective, Collecting, Elems
  <2>4. LiveCells' = LiveCells /\ Kept' = Kept /\ Collecting' = Collecting
        /\ \A c \in Cells : Children(c)' = Children(c)
    BY <2>1 DEF LiveCells, Kept, Live, Children, Collecting
  <2>6. MutatorOK' /\ SweepOK'
    <3>1. RootsIn(LiveCells) => RootsIn(LiveCells)'
      BY <2>1, <2>4 DEF RootsIn, Held
    <3>2. RootsIn(Kept) => RootsIn(Kept)'
      BY <2>1, <2>4 DEF RootsIn, Held
    <3>3. ClosedUnderChildren(LiveCells) => ClosedUnderChildren(LiveCells)'
      BY <2>4 DEF ClosedUnderChildren, LiveCells
    <3>4. ClosedUnderChildren(Kept) => ClosedUnderChildren(Kept)'
      BY <2>4 DEF ClosedUnderChildren, Kept, LiveCells
    <3>5. QED
      BY <2>1, <2>4, <3>1, <3>2, <3>3, <3>4 DEF Inv, MutatorOK, SweepOK
  <2>7. MarkOK'
    <3>1. UNCHANGED {c \in LiveCells : mark[c] \/ c \in gray}
      BY <2>1, <2>4
    <3>2. QED
      BY <2>1, <2>4, <3>1 DEF Inv, MarkOK, RootsIn, Held, ClosedUnderChildren, LiveCells
  <2>8. QED
    BY <2>2, <2>3, <2>6, <2>7 DEF Inv
<1>2. CASE Program
  <2>1. pc = "run" => ~Collecting /\ RootsIn(LiveCells) /\ ClosedUnderChildren(LiveCells)
    BY DEF Inv, MutatorOK, Collecting
  <2>2. ASSUME NEW c \in locals, LoadField(c) PROVE Inv'
    <3>1. PICK v \in Children(c) : Hold(v)
      BY <2>2 DEF LoadField
    <3>2. v \in LiveCells
      BY <2>1, <3>1 DEF Hold, RootsIn, ClosedUnderChildren
    <3>3. QED
      BY <3>1, <3>2, HoldStep
  <2>3. ASSUME NEW c \in locals, Drop(c) PROVE Inv'
    BY <2>3, DropStep
  <2>4. ASSUME NEW r \in Regs, LoadRegister(r) PROVE Inv'
    <3>1. reg[r] \in LiveCells \cup {NIL}
      BY <2>1, <2>4 DEF LoadRegister, Hold, RootsIn
    <3>2. QED
      BY <2>4, <3>1, HoldStep DEF LoadRegister
  <2>5. ASSUME NEW r \in Regs, NEW v \in locals \cup {NIL}, StoreRegister(r, v) PROVE Inv'
    BY <2>5, StoreRegisterStep
  <2>6. ASSUME NEW c \in locals, NEW v \in locals \cup {NIL},
               siod_setcar(c, v) \/ siod_setcdr(c, v)
        PROVE  Inv'
    BY <2>6, WriteStep
  <2>7. ASSUME NEW kind \in Kinds, NEW x \in locals \cup {NIL}, NEW y \in locals \cup {NIL},
               Newcell(kind, x, y)
        PROVE  Inv'
    <3>1. CASE NewcellFromFreelist(kind, x, y)
      BY <3>1, NewcellFromFreelistStep
    <3>2. CASE NewcellFromHeap(kind, x, y)
      BY <3>2, NewcellFromHeapStep
    <3>3. CASE siod_gc_for_newcell(kind, x, y)
      <4>1. PICK litter \in Litter : StartGc(Request(kind, x, y), litter)
        BY <3>3 DEF siod_gc_for_newcell
      <4>2. QED
        BY <3>3, <4>1, StartGcStep DEF siod_gc_for_newcell
    <3>4. QED
      BY <2>7, <3>1, <3>2, <3>3 DEF Newcell
  <2>8. CASE siod_user_gc
    <3>1. PICK litter \in Litter : StartGc(Request("gc", NIL, NIL), litter)
      BY <2>8 DEF siod_user_gc
    <3>2. QED
      BY <2>8, <3>1, StartGcStep DEF siod_user_gc
  <2>9. CASE UserAllocateHeap
    BY <2>9, AddHeapStep
  <2>10. CASE HookThrows
    BY <2>10, UnwindStep
  <2>11. CASE NewcellFatal \/ SetAfterGc \/ StartRepl \/ HookReturns
    BY <2>11, FlagStep
  <2>12. QED
    BY <1>2, <2>2, <2>3, <2>4, <2>5, <2>6, <2>7, <2>8, <2>9, <2>10, <2>11 DEF Program
<1>3. CASE Collector
  <2>1. ASSUME NEW c \in gray, siod_gc_mark(c) PROVE Inv'
    BY <2>1, MarkStep
  <2>2. QED
    BY <1>3, <2>1, MarkDoneStep, SweepStep, SweepDoneStep DEF Collector
<1>4. CASE AfterCollection
  BY <1>4, AddHeapStep, FlagStep, RunHookStep, UnwindStep, TakeCellStep DEF AfterCollection
<1>5. QED
  BY <1>1, <1>2, <1>3, <1>4 DEF Next

(* The inductive invariant holds in every state of every run. *)
THEOREM Invariance == Spec => []Inv
<1>1. Init => Inv
  BY InvInit
<1>2. Inv /\ [Next]_vars => Inv'
  BY InvNext
<1>3. QED
  BY <1>1, <1>2, PTL DEF Spec

-----------------------------------------------------------------------------
(* A set of cells that holds the roots and is closed holds what is reachable. *)
LEMMA ReachableInClosed ==
  ASSUME NEW S \in SUBSET Cells, RootsIn(S), ClosedUnderChildren(S)
  PROVE  Reachable \subseteq S
<1>1. Roots \subseteq S
  BY DEF Roots, StackRoots, RegRoots, RootsIn
<1>2. QED
  BY <1>1 DEF Reachable, ClosedUnderChildren

(* In a collection's sweep the closed set is what the sweep keeps; at any   *)
(* other time it is the set of all cells in use.                            *)
LEMMA InvImpliesReachableIntact == Inv => ReachableIntact
<1> SUFFICES ASSUME Inv PROVE ReachableIntact
  OBVIOUS
<1>1. LiveCells \in SUBSET Cells /\ Kept \in SUBSET LiveCells
  BY DEF LiveCells, Kept
<1>2. CASE pc = "sweep"
  <2>1. Reachable \subseteq Kept
    BY <1>1, <1>2, ReachableInClosed DEF Inv, SweepOK
  <2>2. QED
    BY <1>1, <2>1 DEF ReachableIntact, LiveCells
<1>3. CASE pc # "sweep"
  <2>1. RootsIn(LiveCells) /\ ClosedUnderChildren(LiveCells)
    BY <1>3 DEF Inv, MutatorOK, MarkOK, Collecting
  <2>2. Reachable \subseteq LiveCells
    BY <1>1, <2>1, ReachableInClosed
  <2>3. QED
    BY <2>2 DEF ReachableIntact, LiveCells
<1>4. QED
  BY <1>2, <1>3

(* The variables have their types: heap indices, cursors and pointers stay  *)
(* inside the heaps.                                                        *)
THEOREM TypeCorrect == Spec => []TypeOK
<1>1. Inv => TypeOK
  BY DEF Inv
<1>2. QED
  BY <1>1, Invariance, PTL

(* The collector never frees memory in use: whatever the program does, the  *)
(* litter on the stack, the hook and the unwinding of calls, and however    *)
(* many heaps of whatever size there are.                                   *)
THEOREM MemorySafety == Spec => []ReachableIntact
<1>1. QED
  BY InvImpliesReachableIntact, Invariance, PTL

(* NEWCELL never hands out a cell in use, nor the same cell twice. *)
THEOREM FreelistSafety == Spec => []FreelistSound
<1>1. Inv => FreelistSound
  BY DEF Inv, FreelistsOK, FreelistSound, Collecting, Elems
<1>2. QED
  BY <1>1, Invariance, PTL

(* No mark survives a collection on a cell in use, so that the next one     *)
(* traverses every cell it reaches.                                         *)
THEOREM MarksAreCleared == Spec => []NoStaleMark
<1>1. Inv => NoStaleMark
  BY DEF Inv
<1>2. QED
  BY <1>1, Invariance, PTL

-----------------------------------------------------------------------------
(***************************************************************************)
(* What a collection finds, proved for every number and size of heaps: it  *)
(* recovers every free cell, storage runs out only when all of it is in    *)
(* use, and NEWCELL reads through NIL only after the *after-gc* hook.  And *)
(* what the program sees of all this: MarkSweep implements Store.          *)
(***************************************************************************)

FullInv == Inv /\ SweepComplete /\ HookedOK /\ NilOnlyAfterHook

LEMMA FullInvInit == Init => FullInv
<1>1. Init => Inv
  BY InvInit
<1>2. Init => SweepComplete
  BY DEF Init, SweepComplete, Collecting
<1>3. Init => HookedOK /\ NilOnlyAfterHook
  BY DEF Init, HookedOK, NilOnlyAfterHook, Answering
<1>4. QED
  BY <1>1, <1>2, <1>3 DEF FullInv

-----------------------------------------------------------------------------
(* What is marked is in use or in the old free list, and what the sweep has *)
(* passed is in use or in one of the lists.                                 *)

(* Away from a collection there is nothing to show. *)
LEMMA SweepCompleteElsewhere == (pc \notin {"mark", "sweep", "grow"} => SweepComplete)'
BY DEF SweepComplete, Collecting

LEMMA SweepCompleteStart ==
  ASSUME FullInv, pc = "run",
         NEW op, NEW x, NEW y, NEW litter,
         StartGc(Request(op, x, y), litter),
         op = "gc" \/ freelist = <<>>
  PROVE  SweepComplete'
<1>1. TypeOK /\ NoStaleMark
  BY DEF FullInv, Inv
<1>2. pc' = "mark" /\ freelist' = freelist
  BY DEF StartGc
<1>3. ASSUME NEW c \in Cells, mark'[c] PROVE c \in Elems(freelist)
  <2>1. mark[c]
    BY <1>1, <1>3 DEF StartGc, TypeOK
  <2>2. QED
    BY <1>1, <2>1 DEF NoStaleMark
<1>4. Elems(freelist)' = Elems(freelist)
  BY <1>2 DEF Elems
<1>5. Top'.op = op
  <2>1. calls' = Append(calls, Request(op, x, y)) /\ calls \in Seq(Frames)
    BY <1>1 DEF StartGc, TypeOK
  <2>2. Len(calls') = Len(calls) + 1 /\ calls'[Len(calls) + 1] = Request(op, x, y)
    BY <2>1
  <2>3. Top' = Request(op, x, y)
    BY <2>2 DEF Top
  <2>4. QED
    BY <2>3 DEF Request
<1>6. QED
  BY <1>2, <1>3, <1>4, <1>5 DEF SweepComplete

LEMMA SweepCompleteMark ==
  ASSUME FullInv, NEW c \in gray, siod_gc_mark(c)
  PROVE  SweepComplete'
<1>1. /\ pc = "mark" /\ pc' = "mark" /\ Collecting
      /\ UNCHANGED <<type, freelist, calls>>
  BY DEF siod_gc_mark, Collecting, program
<1>2. c \in Cells /\ Live(c) /\ mark \in [Cells -> BOOLEAN]
  BY <1>1 DEF FullInv, Inv, TypeOK, MarkOK, LiveCells
<1>3. \A d \in Cells \ {c} : mark'[d] = mark[d]
  BY <1>2 DEF siod_gc_mark
<1>4. \A d \in Cells : mark'[d] => Live(d) \/ d \in Elems(freelist)
  BY <1>1, <1>2, <1>3 DEF FullInv, SweepComplete
<1>5. QED
  BY <1>1, <1>4 DEF FullInv, SweepComplete, Collecting, Live, Elems, Top

LEMMA SweepCompleteMarkDone == ASSUME FullInv, MarkDone PROVE SweepComplete'
<1>1. /\ pc = "mark" /\ pc' = "sweep" /\ Collecting /\ ptr' = 1
      /\ UNCHANGED <<type, mark, freelist, calls, nactive>>
  BY DEF MarkDone, Collecting, program, memory
<1>2. \A c \in Allocated' : ~(c < ptr')
  BY <1>1, AllocatedFacts DEF Allocated, FullInv, Inv, TypeOK, Cells
<1>3. QED
  BY <1>1, <1>2 DEF FullInv, SweepComplete, Collecting, Live, Elems, Top

LEMMA SweepCompleteSweep == ASSUME FullInv, siod_gc_sweep PROVE SweepComplete'
<1>1. /\ pc = "sweep" /\ pc' = "sweep" /\ Collecting /\ ptr' = ptr + 1
      /\ UNCHANGED <<nactive, freelist, calls>>
  BY DEF siod_gc_sweep, Collecting, program
<1>2. ptr \in Allocated /\ Allocated \subseteq Cells /\ ptr \in Cells /\ Allocated' = Allocated
  BY <1>1, AllocatedFacts DEF FullInv, Inv, TypeOK, siod_gc_sweep, Allocated
<1>3. /\ \A c \in Cells : mark[c] => Live(c) \/ c \in Elems(freelist)
      /\ Top.op # "gc" => freelist = <<>>
      /\ \A c \in Allocated : c < ptr => Live(c) \/ c \in Elems(freelist) \/ c \in Elems(nfreelist)
      /\ type \in [Cells -> CellTypes] /\ mark \in [Cells -> BOOLEAN]
  BY <1>1 DEF FullInv, SweepComplete, Inv, TypeOK
<1>0. PICK p \in Cells : p = ptr
  BY <1>2
<1>4. /\ Elems(nfreelist) \subseteq Elems(nfreelist)'
      /\ \A c \in Cells \ {p} : Live(c)' <=> Live(c)
      /\ \A c \in Cells : mark'[c] => mark[c]
      /\ ~mark'[p]
      /\ Live(p)' \/ p \in Elems(freelist) \/ p \in Elems(nfreelist)'
  <2>1. CASE SweepUnmarked
    <3>1. nfreelist' = <<p>> \o nfreelist /\ nfreelist \in Seq(Cells)
          /\ type' = [type EXCEPT ![p] = "free"] /\ mark' = mark /\ ~mark[p]
      BY <2>1, <1>0 DEF SweepUnmarked, FullInv, Inv, TypeOK
    <3>2. /\ Len(nfreelist') = Len(nfreelist) + 1 /\ nfreelist'[1] = p
          /\ Len(nfreelist) \in Nat
          /\ \A i \in 1 .. Len(nfreelist) : nfreelist'[i + 1] = nfreelist[i]
      BY <3>1, <1>0
    <3>3. p \in Elems(nfreelist)'
      BY <3>2 DEF Elems
    <3>4. ASSUME NEW c \in Elems(nfreelist) PROVE c \in Elems(nfreelist)'
      <4>1. PICK i \in 1 .. Len(nfreelist) : c = nfreelist[i]
        BY DEF Elems
      <4>2. i + 1 \in 1 .. Len(nfreelist') /\ c = nfreelist'[i + 1]
        BY <4>1, <3>2
      <4>3. QED
        BY <4>2 DEF Elems
    <3>5. \A c \in Cells \ {p} : type'[c] = type[c]
      BY <3>1, <1>3
    <3>6. \A c \in Cells \ {p} : Live(c)' <=> Live(c)
      BY <3>5 DEF Live
    <3>7. \A c \in Cells : mark'[c] => mark[c]
      BY <3>1
    <3>8. Elems(nfreelist) \subseteq Elems(nfreelist)'
      BY <3>4
    <3>9. QED
      BY <3>1, <3>3, <3>6, <3>7, <3>8
  <2>2. CASE SweepMarked
    <3>1. UNCHANGED <<type, nfreelist>> /\ mark' = [mark EXCEPT ![p] = FALSE] /\ mark[p]
      BY <2>2, <1>0 DEF SweepMarked
    <3>2. \A c \in Cells : mark'[c] = IF c = p THEN FALSE ELSE mark[c]
      BY <3>1, <1>3
    <3>3. Live(p) \/ p \in Elems(freelist)
      BY <3>1, <1>3
    <3>4. \A c \in Cells : Live(c)' <=> Live(c)
      BY <3>1 DEF Live
    <3>5. Elems(nfreelist)' = Elems(nfreelist)
      BY <3>1 DEF Elems
    <3>6. (\A c \in Cells : mark'[c] => mark[c]) /\ ~mark'[p]
      BY <3>2
    <3>7. QED
      BY <3>3, <3>4, <3>5, <3>6
  <2>3. QED
    BY <2>1, <2>2 DEF siod_gc_sweep
<1>5. ASSUME NEW c \in Cells, mark'[c] PROVE Live(c)' \/ c \in Elems(freelist)
  BY <1>3, <1>4, <1>5
<1>6. ASSUME NEW c \in Allocated, c < ptr'
      PROVE  Live(c)' \/ c \in Elems(freelist) \/ c \in Elems(nfreelist)'
  <2>1. c = ptr \/ c < ptr
    BY <1>1, <1>2, <1>6 DEF Cells, Allocated
  <2>2. CASE c = p
    BY <2>2, <1>4
  <2>3. CASE c # p
    BY <2>1, <2>3, <1>0, <1>2, <1>3, <1>4
  <2>4. QED
    BY <2>2, <2>3
<1>7. QED
  BY <1>1, <1>2, <1>3, <1>5, <1>6 DEF SweepComplete, Collecting, Elems, Top

(* When the sweep ends it has passed every allocated cell. *)
LEMMA SweepDoneFacts ==
  ASSUME FullInv, SweepDone
  PROVE  /\ pc = "sweep" /\ freelist' = nfreelist /\ UNCHANGED <<type, nactive>>
         /\ \A c \in Allocated : Live(c) \/ c \in Elems(freelist) \/ c \in Elems(nfreelist)
<1>1. /\ pc = "sweep" /\ ptr \notin Allocated /\ freelist' = nfreelist
      /\ UNCHANGED <<type, nactive>>
  BY DEF SweepDone, memory
<1>2. \A c \in Allocated : c < ptr
  <2>1. ptr \in Nat \ {0} /\ nactive * HeapSize \in Nat
    BY AllocatedFacts, HeapFacts DEF FullInv, Inv, TypeOK
  <2>2. QED
    BY <1>1, <2>1 DEF Allocated
<1>3. QED
  BY <1>1, <1>2 DEF FullInv, SweepComplete

LEMMA SweepCompleteSweepDone == ASSUME FullInv, SweepDone PROVE SweepComplete'
<1>1. pc' \in {"run", "grow"} /\ (pc' = "grow" => Top.op # "gc")
  BY DEF SweepDone
<1>2. CASE pc' = "run"
  BY <1>2, SweepCompleteElsewhere
<1>3. CASE pc' = "grow"
  <2>1. freelist = <<>>
    BY <1>1, <1>3, SweepDoneFacts DEF FullInv, SweepComplete, Collecting
  <2>2. Elems(freelist) = {}
    BY <2>1 DEF Elems
  <2>3. \A c \in Allocated' : Live(c)' \/ c \in Elems(freelist)'
    BY <2>2, SweepDoneFacts DEF Allocated, Live, Elems
  <2>4. QED
    BY <1>3, <2>3 DEF SweepComplete, Collecting
<1>4. QED
  BY <1>1, <1>2, <1>3

LEMMA SweepCompleteNext == ASSUME FullInv, [Next]_vars PROVE SweepComplete'
<1>1. CASE UNCHANGED vars
  BY <1>1 DEF FullInv, SweepComplete, Collecting, Live, Elems, Top, Allocated, vars, memory, sweeping
<1>2. CASE Program
  <2>1. ASSUME NEW kind \in Kinds, NEW x, NEW y, siod_gc_for_newcell(kind, x, y)
        PROVE  SweepComplete'
    BY <2>1, SweepCompleteStart DEF siod_gc_for_newcell
  <2>2. ASSUME siod_user_gc PROVE SweepComplete'
    BY <2>2, SweepCompleteStart DEF siod_user_gc
  <2>3. \/ pc' \in {"run", "dead", "take"}
        \/ \E kind \in Kinds, x, y \in locals \cup {NIL} : siod_gc_for_newcell(kind, x, y)
        \/ siod_user_gc
    BY <1>2 DEF Program, LoadField, LoadRegister, Hold, Drop, StoreRegister, siod_setcar,
         siod_setcdr, Newcell, NewcellFromFreelist, NewcellFromHeap, NewcellFatal, SetAfterGc,
         StartRepl, UserAllocateHeap, HookReturns, HookThrows, Unwind
  <2>4. QED
    BY <2>1, <2>2, <2>3, SweepCompleteElsewhere
<1>3. CASE Collector
  BY <1>3, SweepCompleteMark, SweepCompleteMarkDone, SweepCompleteSweep, SweepCompleteSweepDone
     DEF Collector
<1>4. CASE AfterCollection
  <2>1. pc' \in {"run", "take", "crashed"}
    BY <1>4 DEF AfterCollection, Grow, CannotGrow, RunHook, siod_gc_fatal_error, GcAborted, Unwind,
         TakeCell, TakeNil
  <2>2. QED
    BY <2>1, SweepCompleteElsewhere
<1>5. QED
  BY <1>1, <1>2, <1>3, <1>4 DEF Next

-----------------------------------------------------------------------------
(* Pending calls: all but the innermost have run the hook, and NEWCELL finds *)
(* the free list empty only after it.                                       *)

AllHooked(s) == \A i \in 1 .. Len(s) : s[i].hooked

(* The program runs above calls that have all run the hook. *)
LEMMA RunAllHooked == ASSUME FullInv PROVE pc \in {"run", "dead", "crashed"} => AllHooked(calls)
<1>1. pc \in {"run", "dead", "crashed"} => ~Answering
  BY DEF Answering
<1>2. QED
  BY <1>1 DEF FullInv, HookedOK, AllHooked

(* ... and so are the calls below any other. *)
LEMMA BelowAllHooked ==
  ASSUME FullInv, NEW n \in 1 .. Len(calls)
  PROVE  AllHooked(SubSeq(calls, 1, n - 1))
<1>1. TypeOK /\ HookedOK
  BY DEF FullInv, Inv
<1>2. Len(calls) \in Nat
  BY <1>1 DEF TypeOK
<1>3. \A i \in 1 .. Len(calls) : i < n => calls[i].hooked
  BY <1>1, <1>2 DEF HookedOK
<1>4. QED
  BY <1>1, <1>3, PrefixFacts DEF AllHooked

LEMMA HookedWhenAllHooked ==
  (AllHooked(calls) /\ pc \notin {"take", "crashed"} => HookedOK /\ NilOnlyAfterHook)'
BY DEF AllHooked, HookedOK, NilOnlyAfterHook

LEMMA HookedProgram == ASSUME FullInv, Program PROVE (HookedOK /\ NilOnlyAfterHook)'
<1>1. pc = "run" /\ AllHooked(calls)
  BY RunAllHooked DEF Program, LoadField, LoadRegister, Hold, Drop, StoreRegister, siod_setcar,
         siod_setcdr, Newcell, NewcellFromFreelist, NewcellFromHeap, siod_gc_for_newcell,
         NewcellFatal, SetAfterGc, StartRepl, siod_user_gc, UserAllocateHeap, HookReturns, HookThrows
<1>2. calls \in Seq(Frames) /\ Len(calls) \in Nat
  BY DEF FullInv, Inv, TypeOK
<1>3. CASE UNCHANGED calls /\ pc' \in {"run", "dead"}
  BY <1>1, <1>3, HookedWhenAllHooked DEF AllHooked
<1>4. CASE HookThrows
  <2>1. PICK n \in 1 .. Len(calls) : Unwind(n)
    BY <1>4 DEF HookThrows
  <2>2. AllHooked(calls')
    BY <2>1, BelowAllHooked DEF Unwind
  <2>3. QED
    BY <2>1, <2>2, HookedWhenAllHooked DEF Unwind, AllHooked
<1>5. CASE HookReturns
  <2>1. calls # <<>> /\ UNCHANGED <<calls, freelist>> /\ pc' = "take"
    BY <1>5 DEF HookReturns
  <2>2. Len(calls) \in 1 .. Len(calls)
    BY <2>1, <1>2
  <2>3. QED
    BY <2>1, <2>2, <1>1 DEF HookedOK, NilOnlyAfterHook, AllHooked, Top
<1>6. CASE \E kind \in Kinds \cup {"gc"}, x, y \in locals \cup {NIL}, litter \in Litter :
             StartGc(Request(kind, x, y), litter)
  <2>1. PICK f : calls' = Append(calls, f) /\ pc' = "mark"
    BY <1>6 DEF StartGc
  <2>2. /\ Len(calls') = Len(calls) + 1
        /\ \A i \in 1 .. Len(calls) : calls'[i] = calls[i]
    BY <2>1, <1>2
  <2>3. QED
    BY <2>1, <2>2, <1>1, <1>2 DEF HookedOK, NilOnlyAfterHook, AllHooked, Answering
<1>7. QED
  <2>1. \/ UNCHANGED calls /\ pc' \in {"run", "dead"}
        \/ HookThrows \/ HookReturns
        \/ \E kind \in Kinds, x, y \in locals \cup {NIL} : siod_gc_for_newcell(kind, x, y)
        \/ siod_user_gc
    BY <1>1 DEF Program, LoadField, LoadRegister, Hold, Drop, StoreRegister, siod_setcar,
         siod_setcdr, Newcell, NewcellFromFreelist, NewcellFromHeap, NewcellFatal, SetAfterGc,
         StartRepl, UserAllocateHeap, siod_allocate_aheap, AddHeap, program
  <2>2. siod_user_gc => \E litter \in Litter : StartGc(Request("gc", NIL, NIL), litter)
    BY DEF siod_user_gc
  <2>3. QED
    BY <2>1, <2>2, <1>3, <1>4, <1>5, <1>6 DEF siod_gc_for_newcell

LEMMA HookedCollector == ASSUME FullInv, Collector PROVE (HookedOK /\ NilOnlyAfterHook)'
<1>1. CASE UNCHANGED calls /\ pc \in {"mark", "sweep"} /\ pc' \in {"mark", "sweep", "grow"}
  BY <1>1 DEF FullInv, HookedOK, NilOnlyAfterHook, Answering
<1>2. CASE SweepDone /\ pc' = "run"
  <2>1. calls' = Popped /\ calls # <<>> /\ Len(calls) \in 1 .. Len(calls)
    BY <1>2 DEF SweepDone, FullInv, Inv, CallsOK, TypeOK
  <2>2. AllHooked(calls')
    BY <2>1, BelowAllHooked DEF Popped
  <2>3. QED
    BY <1>2, <2>2, HookedWhenAllHooked DEF AllHooked
<1>3. \/ UNCHANGED calls /\ pc \in {"mark", "sweep"} /\ pc' \in {"mark", "sweep", "grow"}
      \/ SweepDone /\ pc' = "run"
  BY DEF Collector, siod_gc_mark, MarkDone, siod_gc_sweep, SweepDone
<1>4. QED
  BY <1>1, <1>2, <1>3

LEMMA HookedAfterCollection ==
  ASSUME FullInv, AfterCollection
  PROVE  (HookedOK /\ NilOnlyAfterHook)'
<1>1. pc \in {"grow", "take"} /\ Answering /\ calls \in Seq(Frames)
      /\ calls # <<>> /\ Len(calls) \in 1 .. Len(calls)
  BY DEF AfterCollection, Grow, CannotGrow, RunHook, siod_gc_fatal_error, GcAborted, TakeCell, TakeNil,
         Answering, FullInv, Inv, TypeOK, CallsOK
<1>2. CASE UNCHANGED calls /\ pc' = "take" /\ freelist' # <<>>
  BY <1>1, <1>2 DEF FullInv, HookedOK, NilOnlyAfterHook, Answering
<1>3. Grow => UNCHANGED calls /\ pc' = "take" /\ freelist' # <<>>
  <2>1. SUFFICES ASSUME Grow PROVE UNCHANGED calls /\ pc' = "take" /\ freelist' # <<>>
    OBVIOUS
  <2>2. UNCHANGED calls /\ pc' = "take" /\ freelist' = NewCells \o freelist
    BY <2>1 DEF Grow, siod_allocate_aheap, AddHeap
  <2>3. freelist \in Seq(Cells) /\ nactive \in Nat /\ nactive * HeapSize \in Nat
    BY AllocatedFacts DEF FullInv, Inv, TypeOK
  <2>4. NewCells \in Seq(Nat) /\ Len(NewCells) = HeapSize
    BY <2>3, HeapsAssumption DEF NewCells
  <2>5. \A a \in Seq(Nat), b \in Seq(Cells) : Len(a \o b) = Len(a) + Len(b)
    OBVIOUS
  <2>6. Len(freelist') = HeapSize + Len(freelist)
    BY <2>2, <2>3, <2>4, <2>5
  <2>7. freelist' # <<>>
    BY <2>3, <2>6, HeapsAssumption
  <2>8. QED
    BY <2>2, <2>7
<1>4. CannotGrow => UNCHANGED calls /\ pc' = "take" /\ freelist' # <<>>
  BY DEF CannotGrow
<1>5. CASE RunHook
  <2>1. CASE UNCHANGED calls /\ pc' = "take"
    <3>1. UNCHANGED freelist /\ Len(freelist) >= HookMin
      BY <1>5 DEF RunHook
    <3>2. freelist' # <<>>
      BY <3>1, HeapsAssumption DEF FullInv, Inv, TypeOK
    <3>3. QED
      BY <2>1, <3>2, <1>2
  <2>2. CASE pc' = "run" /\ calls' = Append(Popped, Interrupted(Top))
    <3>1. AllHooked(Popped) /\ Popped \in Seq(Frames)
      BY <1>1, BelowAllHooked, PrefixFacts DEF Popped, FullInv, Inv
    <3>2. /\ Len(calls') = Len(Popped) + 1 /\ Len(Popped) \in Nat
          /\ \A i \in 1 .. Len(Popped) : calls'[i] = Popped[i]
          /\ calls'[Len(Popped) + 1] = Interrupted(Top)
      BY <2>2, <3>1
    <3>3. Interrupted(Top).hooked
      BY DEF Interrupted
    <3>4. AllHooked(calls')
      BY <3>1, <3>2, <3>3 DEF AllHooked
    <3>5. QED
      BY <2>2, <3>4, HookedWhenAllHooked DEF AllHooked
  <2>3. QED
    BY <1>5, <2>1, <2>2 DEF RunHook
<1>6. CASE siod_gc_fatal_error \/ GcAborted
  <2>1. PICK n \in 1 .. Len(calls) : Unwind(n)
    BY <1>6 DEF siod_gc_fatal_error, GcAborted
  <2>2. AllHooked(calls')
    BY <2>1, BelowAllHooked DEF Unwind
  <2>3. QED
    BY <2>1, <2>2, HookedWhenAllHooked DEF Unwind, AllHooked
<1>7. CASE TakeCell
  <2>1. AllHooked(calls') /\ pc' = "run"
    BY <1>1, <1>7, BelowAllHooked DEF TakeCell, Popped
  <2>2. QED
    BY <2>1, HookedWhenAllHooked DEF AllHooked
<1>8. CASE TakeNil
  <2>1. pc = "take" /\ freelist = <<>> /\ pc' = "crashed" /\ UNCHANGED <<calls, freelist>>
    BY <1>8 DEF TakeNil
  <2>2. Top.hooked /\ \A i \in 1 .. Len(calls) : calls[i].hooked
    BY <2>1 DEF FullInv, HookedOK, Top
  <2>3. QED
    BY <2>1, <2>2 DEF HookedOK, NilOnlyAfterHook, Top
<1>9. QED
  BY <1>2, <1>3, <1>4, <1>5, <1>6, <1>7, <1>8 DEF AfterCollection

-----------------------------------------------------------------------------
LEMMA FullInvNext == FullInv /\ [Next]_vars => FullInv'
<1> SUFFICES ASSUME FullInv, [Next]_vars PROVE FullInv'
  OBVIOUS
<1>1. Inv'
  BY InvNext DEF FullInv
<1>2. SweepComplete'
  BY SweepCompleteNext
<1>3. (HookedOK /\ NilOnlyAfterHook)'
  <2>1. CASE UNCHANGED vars
    BY <2>1 DEF FullInv, HookedOK, NilOnlyAfterHook, Answering, Top, vars
  <2>2. QED
    BY <2>1, HookedProgram, HookedCollector, HookedAfterCollection DEF Next
<1>4. QED
  BY <1>1, <1>2, <1>3 DEF FullInv

(* The strengthened invariant holds in every state of every run. *)
THEOREM FullInvariance == Spec => []FullInv
<1>1. QED
  BY FullInvInit, FullInvNext, PTL DEF Spec

(* siod_gc_fatal_error is called only when every cell of every heap is in   *)
(* use.                                                                     *)
THEOREM StorageExhausted == Spec => []FatalOnlyWhenFull
<1>1. FullInv => FatalOnlyWhenFull
  BY DEF FullInv, SweepComplete, FatalOnlyWhenFull, Elems
<1>2. QED
  BY <1>1, FullInvariance, PTL

(* NEWCELL finds the free list empty after a collection only when the       *)
(* *after-gc* hook has run in between.                                      *)
THEOREM NilNeedsHook == Spec => []NilOnlyAfterHook
<1>1. FullInv => NilOnlyAfterHook
  BY DEF FullInv
<1>2. QED
  BY <1>1, FullInvariance, PTL

(* A sweep that ends has every free cell in its list but those of the list  *)
(* before, so that a cell kept back by a stray mark is lost for one         *)
(* collection only.                                                         *)
THEOREM CellsRecovered == Spec => LostCellsRecovered
<1>1. FullInv /\ [Next]_vars => [RecoveredStep]_vars
  <2> SUFFICES ASSUME FullInv, Next, pc = "sweep", pc' # "sweep",
                      NEW c \in Allocated, type[c] = "free", c \notin Elems(freelist)
               PROVE  c \in Elems(freelist')
    BY DEF RecoveredStep
  <2>1. SweepDone
    BY DEF Next, Program, LoadField, LoadRegister, Hold, Drop, StoreRegister, siod_setcar,
         siod_setcdr, Newcell, NewcellFromFreelist, NewcellFromHeap, siod_gc_for_newcell,
         NewcellFatal, SetAfterGc, StartRepl, siod_user_gc, UserAllocateHeap, HookReturns, HookThrows,
         Collector, siod_gc_mark, MarkDone, siod_gc_sweep,
         AfterCollection, Grow, CannotGrow, RunHook, siod_gc_fatal_error, GcAborted, TakeCell, TakeNil
  <2>2. QED
    BY <2>1, SweepDoneFacts DEF Live
<1>2. QED
  BY <1>1, FullInvariance, PTL DEF Spec, LostCellsRecovered

-----------------------------------------------------------------------------
(* MarkSweep implements Store.  A cell in use is of a type the program      *)
(* builds; the free ones, and what the collector does to them, Store does   *)
(* not see.                                                                 *)
KindsOK == \A c \in Cells : Live(c) => type[c] \in Kinds
StoreInv == Inv /\ KindsOK

InStore == [c \in {d \in Cells : Live(d)} |-> Object(c)]
StoreUnchanged == InStore' = InStore /\ Roots' = Roots

LEMMA SameObjects ==
  ASSUME \A c \in Cells : Live(c)' <=> Live(c),
         \A c \in Cells : Live(c) => type'[c] = type[c] /\ car'[c] = car[c] /\ cdr'[c] = cdr[c]
  PROVE  InStore' = InStore
<1>1. {d \in Cells : Live(d)}' = {d \in Cells : Live(d)}
  OBVIOUS
<1>2. \A c \in {d \in Cells : Live(d)} : Object(c)' = Object(c)
  BY DEF Object
<1>3. InStore' = [c \in {d \in Cells : Live(d)}' |-> Object(c)']
  BY DEF InStore
<1>4. InStore = [c \in {d \in Cells : Live(d)} |-> Object(c)]
  BY DEF InStore
<1>5. [c \in {d \in Cells : Live(d)}' |-> Object(c)'] = [c \in {d \in Cells : Live(d)} |-> Object(c)]
  BY <1>1, <1>2
<1>6. QED
  BY <1>3, <1>4, <1>5

(* Store's Reachable holds the roots, and what a reachable object in use    *)
(* points to.                                                               *)
LEMMA ReachFacts ==
  ASSUME StoreInv
  PROVE  /\ Roots \subseteq Abstract!Reachable
         /\ \A c \in LiveCells : c \in Abstract!Reachable => Children(c) \subseteq Abstract!Reachable
         /\ Abstract!Reachable \subseteq LiveCells
         /\ pc = "sweep" => Abstract!Reachable \subseteq Kept
<1>1. TypeOK /\ NIL \notin Cells /\ LiveCells \subseteq Cells /\ Kept \subseteq LiveCells
  BY HeapFacts DEF StoreInv, Inv, LiveCells, Kept
<1>2. \A c \in LiveCells : Children(c) \subseteq Cells
  BY <1>1 DEF TypeOK, Children, Pointers
<1>3. \A c \in LiveCells : c \in DOMAIN InStore /\ Abstract!Fields(InStore[c]) = Children(c)
  BY DEF InStore, Object, LiveCells, Abstract!Fields, Children
<1>4. DOMAIN InStore = LiveCells
  BY DEF InStore, LiveCells
<1>5. Abstract!ClosedSets = {S \in SUBSET Cells : Roots \subseteq S /\ \A c \in S \cap LiveCells : Children(c) \subseteq S}
  BY <1>3, <1>4 DEF Abstract!ClosedSets, InStore
<1>6. Abstract!Reachable = {c \in Cells : \A S \in Abstract!ClosedSets : c \in S}
  BY DEF Abstract!Reachable
<1>7. Roots \subseteq Cells
  <2>1. \A i \in 1 .. Len(calls) : Held(calls[i]) \subseteq Cells
    BY FramesFacts DEF StoreInv
  <2>2. RegRoots \subseteq Cells
    BY <1>1 DEF TypeOK, RegRoots, Pointers
  <2>3. QED
    BY <1>1, <2>1, <2>2 DEF TypeOK, Roots, StackRoots
<1>8. Roots \subseteq Abstract!Reachable
  BY <1>5, <1>6, <1>7
<1>9. ASSUME NEW c \in LiveCells, c \in Abstract!Reachable
      PROVE  Children(c) \subseteq Abstract!Reachable
  BY <1>2, <1>5, <1>6, <1>9
<1>10. ASSUME NEW S \in SUBSET Cells, RootsIn(S), ClosedUnderChildren(S)
       PROVE  Abstract!Reachable \subseteq S
  <2>1. Roots \subseteq S
    BY <1>10 DEF Roots, StackRoots, RegRoots, RootsIn
  <2>2. S \in Abstract!ClosedSets
    BY <1>5, <1>10, <2>1 DEF ClosedUnderChildren
  <2>3. QED
    BY <1>6, <2>2
<1>11. CASE pc = "sweep"
  <2>1. RootsIn(Kept) /\ ClosedUnderChildren(Kept)
    BY <1>11 DEF StoreInv, Inv, SweepOK
  <2>2. Abstract!Reachable \subseteq Kept
    BY <1>1, <1>10, <2>1
  <2>3. QED
    BY <1>1, <1>8, <1>9, <2>2
<1>12. CASE pc # "sweep"
  <2>1. RootsIn(LiveCells) /\ ClosedUnderChildren(LiveCells)
    BY <1>12 DEF StoreInv, Inv, MutatorOK, MarkOK, Collecting
  <2>2. Abstract!Reachable \subseteq LiveCells
    BY <1>1, <1>10, <2>1
  <2>3. QED
    BY <1>8, <1>9, <1>12, <2>2
<1>13. QED
  BY <1>11, <1>12

(* A step that keeps every object and what is held reachable. *)
LEMMA MoveIf ==
  ASSUME InStore' = InStore, Roots' \subseteq Abstract!Reachable
  PROVE  Abstract!Move
BY DEF Abstract!Move, InStore

(* The roots after a step, when what is held afterwards is in S. *)
LEMMA RootsWithin ==
  ASSUME NEW S, RegRoots' \subseteq S, locals' \subseteq S,
         \A i \in 1 .. Len(calls') : Held(calls'[i]) \subseteq S
  PROVE  Roots' \subseteq S
<1> SUFFICES ASSUME NEW p \in Roots' PROVE p \in S
  OBVIOUS
<1>1. \/ p \in locals' \/ p \in RegRoots'
      \/ \E i \in 1 .. Len(calls') : p \in (calls'[i].held \cup ({calls'[i].car, calls'[i].cdr} \ {NIL}))
  BY DEF Roots, StackRoots, Held
<1>2. \A i \in 1 .. Len(calls') : calls'[i].held \cup ({calls'[i].car, calls'[i].cdr} \ {NIL}) \subseteq S
  BY DEF Held
<1>3. QED
  BY <1>1, <1>2

LEMMA RootsAre ==
  /\ RegRoots \subseteq Roots /\ locals \subseteq Roots
  /\ \A i \in 1 .. Len(calls) : Held(calls[i]) \subseteq Roots
BY DEF Roots, StackRoots

(* What the program holds and drops. *)
LEMMA ProgramMoves ==
  ASSUME StoreInv,
         \/ \E c \in locals : LoadField(c) \/ Drop(c)
         \/ \E r \in Regs : LoadRegister(r)
         \/ \E r \in Regs, v \in locals \cup {NIL} : StoreRegister(r, v)
  PROVE  Abstract!Move
<1> DEFINE R == Abstract!Reachable
<1>1. /\ Roots \subseteq R /\ RegRoots \subseteq R /\ locals \subseteq R
      /\ \A i \in 1 .. Len(calls) : Held(calls[i]) \subseteq R
  BY ReachFacts, RootsAre
<1>2. \A c \in locals : Children(c) \subseteq R
  <2>1. pc = "run"
    BY DEF LoadField, LoadRegister, Hold, Drop, StoreRegister
  <2>2. locals \subseteq LiveCells
    BY <2>1 DEF StoreInv, Inv, MutatorOK, Collecting, RootsIn
  <2>3. QED
    BY <1>1, <2>2, ReachFacts
<1> HIDE DEF R
<1>3. UNCHANGED <<type, car, cdr, calls>>
  BY DEF LoadField, LoadRegister, Hold, Drop, StoreRegister, memory
<1>4. InStore' = InStore
  BY <1>3, SameObjects DEF Live
<1>5. locals' \subseteq R /\ RegRoots' \subseteq R
  <2>1. CASE \E c \in locals : LoadField(c)
    BY <1>1, <1>2, <2>1 DEF LoadField, Hold, RegRoots
  <2>2. CASE \E c \in locals : Drop(c)
    BY <1>1, <2>2 DEF Drop, RegRoots
  <2>3. CASE \E r \in Regs : LoadRegister(r)
    BY <1>1, <2>3 DEF LoadRegister, Hold, RegRoots
  <2>4. CASE \E r \in Regs, v \in locals \cup {NIL} : StoreRegister(r, v)
    <3>1. PICK r \in Regs, v \in locals \cup {NIL} : StoreRegister(r, v)
      BY <2>4
    <3>2. reg' = [reg EXCEPT ![r] = v] /\ locals' = locals /\ reg \in [Regs -> Pointers]
      BY <3>1 DEF StoreRegister, StoreInv, Inv, TypeOK
    <3>3. \A s \in Regs : reg'[s] = reg[s] \/ reg'[s] = v
      BY <3>2
    <3>4. RegRoots' \subseteq RegRoots \cup locals
      BY <3>3 DEF RegRoots
    <3>5. QED
      BY <1>1, <3>2, <3>4
  <2>5. QED
    BY <2>1, <2>2, <2>3, <2>4
<1>6. Roots' \subseteq R
  BY <1>1, <1>3, <1>5, RootsWithin
<1>7. QED
  BY <1>4, <1>6, MoveIf DEF R

(* The steps that touch no object: flags, the hook, a return, an unwinding, *)
(* the end of a sweep.                                                      *)
LEMMA QuietMoves ==
  ASSUME StoreInv, UNCHANGED <<type, car, cdr, reg>>,
         locals' \subseteq Roots,
         \A i \in 1 .. Len(calls') : Held(calls'[i]) \subseteq Roots
  PROVE  Abstract!Move
<1>1. InStore' = InStore
  BY SameObjects DEF Live
<1>2. RegRoots' \subseteq Roots
  BY RootsAre DEF RegRoots
<1>3. Roots' \subseteq Roots
  BY <1>2, RootsWithin
<1>4. QED
  BY <1>1, <1>3, ReachFacts, MoveIf

LEMMA FlagMoves ==
  ASSUME StoreInv,
         \/ SetAfterGc \/ StartRepl \/ NewcellFatal \/ CannotGrow \/ HookReturns \/ TakeNil
         \/ (\E c \in gray : siod_gc_mark(c)) \/ MarkDone
  PROVE  Abstract!Move
<1>1. UNCHANGED <<type, car, cdr, reg, calls>> /\ locals' \subseteq locals
  BY DEF SetAfterGc, StartRepl, NewcellFatal, CannotGrow, HookReturns, TakeNil, siod_gc_mark, MarkDone,
         memory, program
<1>2. QED
  BY <1>1, RootsAre, QuietMoves

LEMMA UnwindMoves ==
  ASSUME StoreInv, siod_gc_fatal_error \/ GcAborted \/ HookThrows
  PROVE  Abstract!Move
<1>1. PICK n \in 1 .. Len(calls) : Unwind(n)
  BY DEF siod_gc_fatal_error, GcAborted, HookThrows
<1>2. /\ calls' = SubSeq(calls, 1, n - 1) /\ locals' = calls[n].held
      /\ UNCHANGED <<type, car, cdr, reg>>
  BY <1>1 DEF Unwind, memory
<1>3. locals' \subseteq Roots
  BY <1>2, RootsAre DEF Held
<1>4. \A i \in 1 .. Len(calls') : Held(calls'[i]) \subseteq Roots
  BY <1>2, RootsAre, PrefixFacts DEF StoreInv, Inv
<1>5. QED
  BY <1>2, <1>3, <1>4, QuietMoves

LEMMA SweepDoneMoves == ASSUME StoreInv, SweepDone PROVE Abstract!Move
<1>1. /\ UNCHANGED <<type, car, cdr, reg>>
      /\ (calls' = Popped /\ locals' = Top.held) \/ UNCHANGED <<calls, locals>>
      /\ calls # <<>>
  BY DEF SweepDone, memory, StoreInv, Inv, CallsOK
<1>2. Len(calls) \in 1 .. Len(calls) /\ TypeOK
  BY <1>1 DEF StoreInv, Inv, TypeOK
<1>3. CASE calls' = Popped /\ locals' = Top.held
  <2>1. locals' \subseteq Roots
    BY <1>2, <1>3, RootsAre DEF Held, Top
  <2>2. \A i \in 1 .. Len(calls') : Held(calls'[i]) \subseteq Roots
    BY <1>2, <1>3, RootsAre, PrefixFacts DEF Popped
  <2>3. QED
    BY <1>1, <2>1, <2>2, QuietMoves
<1>4. CASE UNCHANGED <<calls, locals>>
  BY <1>1, <1>4, RootsAre, QuietMoves
<1>5. QED
  BY <1>1, <1>3, <1>4

LEMMA RunHookMoves == ASSUME StoreInv, RunHook PROVE Abstract!Move
<1>1. /\ UNCHANGED <<type, car, cdr, reg, locals>> /\ calls # <<>>
      /\ UNCHANGED calls \/ calls' = Append(Popped, Interrupted(Top))
  BY DEF RunHook, memory, program, StoreInv, Inv, CallsOK
<1>2. Len(calls) \in 1 .. Len(calls) /\ TypeOK
  BY <1>1 DEF StoreInv, Inv, TypeOK
<1>3. CASE UNCHANGED calls
  BY <1>1, <1>3, RootsAre, QuietMoves
<1>4. CASE calls' = Append(Popped, Interrupted(Top))
  <2>1. Popped \in Seq(Frames) /\ \A i \in 1 .. Len(Popped) : i \in 1 .. Len(calls) /\ Popped[i] = calls[i]
    BY <1>2, PrefixFacts DEF Popped
  <2>2. /\ Len(calls') = Len(Popped) + 1 /\ Len(Popped) \in Nat
        /\ calls'[Len(Popped) + 1] = Interrupted(Top)
        /\ \A i \in 1 .. Len(Popped) : calls'[i] = Popped[i]
    BY <1>4, <2>1
  <2>3. Held(Interrupted(Top)) = Held(Top)
    BY DEF Held, Interrupted
  <2>4. Held(Top) \subseteq Roots
    BY <1>2, RootsAre DEF Top
  <2>5. ASSUME NEW i \in 1 .. Len(calls') PROVE Held(calls'[i]) \subseteq Roots
    <3>1. CASE i = Len(Popped) + 1
      BY <2>2, <2>3, <2>4, <3>1
    <3>2. CASE i # Len(Popped) + 1
      BY <2>1, <2>2, <3>2, RootsAre
    <3>3. QED
      BY <3>1, <3>2
  <2>6. QED
    BY <1>1, <2>5, RootsAre, QuietMoves
<1>5. QED
  BY <1>1, <1>3, <1>4

(* A collection starts: what the program holds moves to the new frame, and  *)
(* the rest of heap 0 becomes free.                                         *)
LEMMA StartGcMoves ==
  ASSUME StoreInv, NEW op, NEW x \in locals \cup {NIL}, NEW y \in locals \cup {NIL}, NEW litter,
         StartGc(Request(op, x, y), litter)
  PROVE  Abstract!Move
<1>1. /\ calls' = Append(calls, Request(op, x, y)) /\ locals' = {}
      /\ type' = [c \in Cells |-> IF c \in heap .. HeapSize THEN "free" ELSE type[c]]
      /\ UNCHANGED <<car, cdr, reg>>
  BY DEF StartGc
<1>2. \A c \in Cells : c \in heap .. HeapSize => type[c] = "raw"
  BY DEF StoreInv, Inv, MemoryOK
<1>3. \A c \in Cells : Live(c)' <=> Live(c)
  BY <1>1, <1>2 DEF Live
<1>4. \A c \in Cells : Live(c) => type'[c] = type[c] /\ car'[c] = car[c] /\ cdr'[c] = cdr[c]
  BY <1>1, <1>2 DEF Live
<1>5. InStore' = InStore
  BY <1>3, <1>4, SameObjects
<1>6. calls \in Seq(Frames)
  BY DEF StoreInv, Inv, TypeOK
<1>7. /\ Len(calls') = Len(calls) + 1 /\ Len(calls) \in Nat
      /\ calls'[Len(calls) + 1] = Request(op, x, y)
      /\ \A i \in 1 .. Len(calls) : calls'[i] = calls[i]
  BY <1>1, <1>6
<1>8. Held(Request(op, x, y)) \subseteq Roots
  BY RootsAre DEF Held, Request
<1>9. ASSUME NEW i \in 1 .. Len(calls') PROVE Held(calls'[i]) \subseteq Roots
  <2>1. CASE i = Len(calls) + 1
    BY <1>7, <1>8, <2>1
  <2>2. CASE i # Len(calls) + 1
    BY <1>7, <2>2, RootsAre
  <2>3. QED
    BY <2>1, <2>2
<1>10. RegRoots' \subseteq Roots
  BY <1>1, RootsAre DEF RegRoots
<1>11. Roots' \subseteq Roots
  BY <1>1, <1>9, <1>10, RootsWithin
<1>12. QED
  BY <1>5, <1>11, ReachFacts, MoveIf

(* The cells of a new heap are free: Store does not see them. *)
LEMMA AddHeapMoves == ASSUME StoreInv, UserAllocateHeap \/ Grow PROVE Abstract!Move
<1>1. PICK garbage \in [HeapCells(nactive) -> BOOLEAN] : AddHeap(garbage)
  BY DEF UserAllocateHeap, Grow, siod_allocate_aheap
<1>2. /\ nactive < NHeaps
      /\ type' = [c \in Cells |-> IF c \in HeapCells(nactive) THEN "free" ELSE type[c]]
      /\ UNCHANGED <<car, cdr, reg, calls, locals>>
  BY <1>1 DEF AddHeap, UserAllocateHeap, Grow
<1>3. \A c \in Cells : c \in HeapCells(nactive) => type[c] = "raw"
  <2>1. HeapCells(nactive) \cap Allocated = {}
    BY <1>2, AllocatedFacts DEF StoreInv, Inv, TypeOK
  <2>2. QED
    BY <2>1 DEF StoreInv, Inv, MemoryOK
<1>4. \A c \in Cells : Live(c)' <=> Live(c)
  BY <1>2, <1>3 DEF Live
<1>5. \A c \in Cells : Live(c) => type'[c] = type[c] /\ car'[c] = car[c] /\ cdr'[c] = cdr[c]
  BY <1>2, <1>3 DEF Live
<1>6. InStore' = InStore
  BY <1>4, <1>5, SameObjects
<1>7. RegRoots' \subseteq Roots
  BY <1>2, RootsAre DEF RegRoots
<1>8. Roots' \subseteq Roots
  BY <1>2, <1>7, RootsAre, RootsWithin
<1>9. QED
  BY <1>6, <1>8, ReachFacts, MoveIf

-----------------------------------------------------------------------------
(* The steps that Store sees. *)
LEMMA ObjectInObjects ==
  ASSUME NEW kind \in Kinds, NEW x \in Cells \cup {NIL}, NEW y \in Cells \cup {NIL}
  PROVE  [type |-> kind, car |-> x, cdr |-> y] \in Abstract!Objects
BY DEF Abstract!Objects

LEMMA WriteUpdates ==
  ASSUME StoreInv, NEW c \in locals, NEW v \in locals \cup {NIL},
         siod_setcar(c, v) \/ siod_setcdr(c, v)
  PROVE  \E obj \in Abstract!Objects : Abstract!Update(c, obj)
<1>1. /\ pc = "run" /\ TypeOK /\ KindsOK /\ locals \subseteq LiveCells /\ LiveCells \subseteq Cells
      /\ locals \subseteq Abstract!Reachable /\ c \in LiveCells /\ c \in Cells
  <2>1. pc = "run" /\ locals \subseteq LiveCells
    BY DEF siod_setcar, siod_setcdr, StoreInv, Inv, MutatorOK, Collecting, RootsIn
  <2>2. locals \subseteq Abstract!Reachable
    BY RootsAre, ReachFacts
  <2>3. QED
    BY <2>1, <2>2 DEF StoreInv, Inv, LiveCells
<1>2. Children(c) \subseteq Abstract!Reachable
  BY <1>1, ReachFacts
<1>3. PICK x \in Cells \cup {NIL}, y \in Cells \cup {NIL} :
        /\ {x, y} \subseteq {v, car[c], cdr[c]}
        /\ type' = type /\ UNCHANGED <<reg, locals, calls>>
        /\ car' = [car EXCEPT ![c] = x] /\ cdr' = [cdr EXCEPT ![c] = y]
  <2>1. v \in Cells \cup {NIL} /\ car[c] \in Cells \cup {NIL} /\ cdr[c] \in Cells \cup {NIL}
    BY <1>1 DEF TypeOK, Pointers
  <2>2. car = [car EXCEPT ![c] = car[c]] /\ cdr = [cdr EXCEPT ![c] = cdr[c]]
    BY <1>1 DEF TypeOK
  <2>3. CASE siod_setcar(c, v)
    BY <2>1, <2>2, <2>3 DEF siod_setcar, program
  <2>4. CASE siod_setcdr(c, v)
    BY <2>1, <2>2, <2>4 DEF siod_setcdr, program
  <2>5. QED
    BY <2>3, <2>4
<1> DEFINE obj == [type |-> type[c], car |-> x, cdr |-> y]
<1>4. obj \in Abstract!Objects
  BY <1>1, ObjectInObjects DEF KindsOK, LiveCells
<1>5. Abstract!Fields(obj) \subseteq Abstract!Reachable
  <2>1. Abstract!Fields(obj) \subseteq {v, car[c], cdr[c]} \ {NIL}
    BY <1>3 DEF Abstract!Fields
  <2>2. QED
    BY <1>1, <1>2, <2>1 DEF Children
<1>6. LiveCells' = LiveCells
  BY <1>3 DEF LiveCells, Live
<1>7. \A d \in LiveCells : Object(d)' = IF d = c THEN obj ELSE Object(d)
  BY <1>1, <1>3 DEF Object, TypeOK
<1>8. InStore' = [InStore EXCEPT ![c] = obj]
  <2>1. InStore = [d \in LiveCells |-> Object(d)]
    BY DEF InStore, LiveCells
  <2>2. InStore' = [d \in LiveCells' |-> Object(d)']
    BY DEF InStore, LiveCells
  <2> HIDE DEF obj
  <2>3. [d \in LiveCells' |-> Object(d)'] = [d \in LiveCells |-> IF d = c THEN obj ELSE Object(d)]
    BY <1>6, <1>7
  <2>4. QED
    BY <1>1, <2>1, <2>2, <2>3
<1>9. Roots' = Roots
  BY <1>3 DEF Roots, StackRoots, RegRoots, Held
<1>10. c \in DOMAIN InStore /\ c \in Abstract!Reachable
  BY <1>1 DEF InStore, LiveCells
<1> HIDE DEF obj
<1>11. Abstract!Update(c, obj)
  BY <1>5, <1>8, <1>9, <1>10 DEF Abstract!Update, InStore
<1>12. QED
  BY <1>4, <1>11

(* A cell not in use becomes an object the program holds. *)
LEMMA FillAllocates ==
  ASSUME StoreInv, NEW c \in Cells, ~Live(c), NEW kind \in Kinds,
         NEW x \in Abstract!Reachable \cup {NIL}, NEW y \in Abstract!Reachable \cup {NIL},
         Fill(c, kind, x, y), Roots' \subseteq Abstract!Reachable \cup {c}
  PROVE  \E obj \in Abstract!Objects : Abstract!Allocate(c, obj)
<1>1. TypeOK /\ LiveCells \subseteq Cells /\ c \notin LiveCells
  BY DEF StoreInv, Inv, LiveCells
<1>2. x \in Cells \cup {NIL} /\ y \in Cells \cup {NIL}
  BY <1>1, ReachFacts
<1>3. /\ type' = [type EXCEPT ![c] = kind] /\ car' = [car EXCEPT ![c] = x] /\ cdr' = [cdr EXCEPT ![c] = y]
  BY DEF Fill
<1>4. kind \notin {"raw", "free"}
  BY KindsAssumption
<1>5. LiveCells' = LiveCells \cup {c}
  BY <1>1, <1>3, <1>4 DEF LiveCells, Live, TypeOK
<1> DEFINE obj == [type |-> kind, car |-> x, cdr |-> y]
<1>6. \A d \in LiveCells' : Object(d)' = IF d = c THEN obj ELSE Object(d)
  BY <1>1, <1>3, <1>5 DEF Object, TypeOK
<1>7. obj \in Abstract!Objects
  BY <1>2, ObjectInObjects
<1>8. Abstract!Fields(obj) \subseteq Abstract!Reachable
  BY DEF Abstract!Fields
<1> HIDE DEF obj
<1>9. InStore = [d \in LiveCells |-> Object(d)] /\ InStore' = [d \in LiveCells' |-> Object(d)']
  BY DEF InStore, LiveCells
<1>10. DOMAIN InStore = LiveCells /\ \A d \in LiveCells : InStore[d] = Object(d)
  BY <1>9
<1>11. InStore' = [d \in DOMAIN InStore \cup {c} |-> IF d = c THEN obj ELSE InStore[d]]
  <2>1. [d \in LiveCells' |-> Object(d)'] = [d \in LiveCells \cup {c} |-> IF d = c THEN obj ELSE Object(d)]
    BY <1>5, <1>6
  <2>2. [d \in DOMAIN InStore \cup {c} |-> IF d = c THEN obj ELSE InStore[d]]
          = [d \in LiveCells \cup {c} |-> IF d = c THEN obj ELSE Object(d)]
    BY <1>1, <1>10
  <2>3. QED
    BY <1>9, <2>1, <2>2
<1>12. Abstract!Allocate(c, obj)
  BY <1>1, <1>8, <1>10, <1>11 DEF Abstract!Allocate, InStore
<1>13. QED
  BY <1>7, <1>12

LEMMA NewcellAllocates ==
  ASSUME StoreInv, NEW kind \in Kinds, NEW x \in locals \cup {NIL}, NEW y \in locals \cup {NIL},
         NewcellFromFreelist(kind, x, y) \/ NewcellFromHeap(kind, x, y)
  PROVE  \E c \in Cells, obj \in Abstract!Objects : Abstract!Allocate(c, obj)
<1>1. PICK c \in Cells : ~Live(c) /\ Fill(c, kind, x, y) /\ locals' = locals \cup {c} /\ UNCHANGED <<reg, calls>>
  <2>1. CASE NewcellFromFreelist(kind, x, y)
    <3>1. ~Collecting /\ freelist # <<>>
      BY <2>1 DEF NewcellFromFreelist, Collecting
    <3>2. Head(freelist) \in Cells /\ ~Live(Head(freelist))
      BY <3>1, HeadFacts DEF StoreInv, Live
    <3>3. QED
      BY <2>1, <3>2 DEF NewcellFromFreelist
  <2>2. CASE NewcellFromHeap(kind, x, y)
    <3>1. heap \in 1 .. HeapSize /\ heap \in heap .. HeapSize /\ heap \in Cells
      <4>1. heap \in 1 .. HeapEnd /\ heap < HeapEnd
        BY <2>2 DEF NewcellFromHeap, StoreInv, Inv, TypeOK
      <4>2. QED
        BY <4>1, HeapFacts DEF HeapEnd, Cells
    <3>2. ~Live(heap)
      BY <3>1 DEF StoreInv, Inv, MemoryOK, Live
    <3>3. QED
      BY <2>2, <3>1, <3>2 DEF NewcellFromHeap
  <2>3. QED
    BY <2>1, <2>2
<1>2. locals \subseteq Abstract!Reachable /\ Roots \subseteq Abstract!Reachable
  BY RootsAre, ReachFacts
<1>3. RegRoots' \subseteq Abstract!Reachable \cup {c}
  BY <1>1, <1>2, RootsAre DEF RegRoots
<1>4. \A i \in 1 .. Len(calls') : Held(calls'[i]) \subseteq Abstract!Reachable \cup {c}
  BY <1>1, <1>2, RootsAre
<1>5. Roots' \subseteq Abstract!Reachable \cup {c}
  <2> DEFINE S == Abstract!Reachable \cup {c}
  <2>1. locals' \subseteq S /\ RegRoots' \subseteq S /\ \A i \in 1 .. Len(calls') : Held(calls'[i]) \subseteq S
    BY <1>1, <1>2, <1>3, <1>4
  <2> HIDE DEF S
  <2>2. Roots' \subseteq S
    BY <2>1, RootsWithin
  <2>3. QED
    BY <2>2 DEF S
<1>6. \E obj \in Abstract!Objects : Abstract!Allocate(c, obj)
  BY <1>1, <1>2, <1>5, FillAllocates
<1>7. QED
  BY <1>6

LEMMA TakeCellAllocates ==
  ASSUME StoreInv, TakeCell
  PROVE  \E c \in Cells, obj \in Abstract!Objects : Abstract!Allocate(c, obj)
<1>1. /\ ~Collecting /\ freelist # <<>> /\ calls # <<>> /\ TypeOK /\ CallsOK
      /\ calls' = Popped /\ locals' = Top.held \cup {Head(freelist)} /\ reg' = reg
      /\ Fill(Head(freelist), Top.op, Top.car, Top.cdr)
  BY DEF TakeCell, Collecting, StoreInv, Inv, CallsOK
<1>2. Len(calls) \in 1 .. Len(calls)
  BY <1>1 DEF TypeOK
<1>3. PICK c \in Cells : c = Head(freelist) /\ ~Live(c)
  BY <1>1, HeadFacts DEF StoreInv, Live
<1>4. Top \in Frames /\ Held(Top) \subseteq Roots /\ Top.op # "gc"
  BY <1>1, <1>2, RootsAre, PrefixFacts DEF Top, CallsOK
<1>5. Top.op \in Kinds /\ Top.car \in Roots \cup {NIL} /\ Top.cdr \in Roots \cup {NIL} /\ Top.held \subseteq Roots
  BY <1>4 DEF Frames, Held
<1>6. Roots \subseteq Abstract!Reachable
  BY ReachFacts
<1>7. Top.car \in Abstract!Reachable \cup {NIL} /\ Top.cdr \in Abstract!Reachable \cup {NIL}
  BY <1>5, <1>6
<1>8. \A i \in 1 .. Len(calls') : Held(calls'[i]) \subseteq Roots
  BY <1>1, <1>2, RootsAre, PrefixFacts DEF Popped
<1>9. RegRoots' \subseteq Roots
  BY <1>1, RootsAre DEF RegRoots
<1>10. Roots' \subseteq Abstract!Reachable \cup {c}
  <2> DEFINE S == Abstract!Reachable \cup {c}
  <2>1. locals' \subseteq S /\ RegRoots' \subseteq S /\ \A i \in 1 .. Len(calls') : Held(calls'[i]) \subseteq S
    BY <1>1, <1>3, <1>5, <1>6, <1>8, <1>9
  <2> HIDE DEF S
  <2>2. Roots' \subseteq S
    BY <2>1, RootsWithin
  <2>3. QED
    BY <2>2 DEF S
<1>11. \E obj \in Abstract!Objects : Abstract!Allocate(c, obj)
  <2>1. Fill(c, Top.op, Top.car, Top.cdr)
    BY <1>1, <1>3
  <2>2. QED
    BY <1>3, <1>5, <1>7, <1>10, <2>1, FillAllocates
<1>12. QED
  BY <1>11

(* What the sweep frees cannot be reached. *)
LEMMA SweepReclaims ==
  ASSUME StoreInv, siod_gc_sweep
  PROVE  Abstract!Move \/ \E c \in Cells : Abstract!Reclaim(c)
<1>1. /\ pc = "sweep" /\ TypeOK /\ UNCHANGED <<reg, locals, calls>>
      /\ (SweepUnmarked \/ SweepMarked)
  BY DEF siod_gc_sweep, program, StoreInv, Inv
<1>2. PICK p \in Cells : p = ptr
  <2>1. ptr \in Allocated /\ Allocated \subseteq Cells
    BY <1>1, AllocatedFacts DEF siod_gc_sweep, TypeOK
  <2>2. QED
    BY <2>1
<1>3. Roots' = Roots
  BY <1>1 DEF Roots, StackRoots, RegRoots, Held
<1>4. Roots \subseteq Abstract!Reachable
  BY ReachFacts
<1>5. CASE SweepMarked
  <2>1. UNCHANGED <<type, car, cdr>>
    BY <1>5 DEF SweepMarked
  <2>2. InStore' = InStore
    BY <2>1, SameObjects DEF Live
  <2>3. QED
    BY <1>3, <1>4, <2>2, MoveIf
<1>6. CASE SweepUnmarked
  <2>1. /\ ~mark[p] /\ type' = [type EXCEPT ![p] = "free"]
        /\ car' = [car EXCEPT ![p] = NIL] /\ cdr' = [cdr EXCEPT ![p] = NIL]
    BY <1>2, <1>6 DEF SweepUnmarked
  <2>2. /\ type'[p] = "free"
        /\ \A c \in Cells : c # p => type'[c] = type[c] /\ car'[c] = car[c] /\ cdr'[c] = cdr[c]
    BY <1>1, <2>1 DEF TypeOK
  <2>3. CASE ~Live(p)
    <3>1. \A c \in Cells : Live(c)' <=> Live(c)
      BY <2>2, <2>3 DEF Live
    <3>2. \A c \in Cells : Live(c) => type'[c] = type[c] /\ car'[c] = car[c] /\ cdr'[c] = cdr[c]
      BY <2>2, <2>3
    <3>3. InStore' = InStore
      BY <3>1, <3>2, SameObjects
    <3>4. QED
      BY <1>3, <1>4, <3>3, MoveIf
  <2>4. CASE Live(p)
    <3>1. p \notin Abstract!Reachable
      <4>1. p \notin Kept
        BY <1>1, <1>2, <2>1 DEF Kept, TypeOK
      <4>2. QED
        BY <1>1, <4>1, ReachFacts
    <3>2. LiveCells' = LiveCells \ {p}
      BY <2>2 DEF LiveCells, Live
    <3>3. \A d \in LiveCells \ {p} : Object(d)' = Object(d)
      BY <2>2 DEF LiveCells, Object
    <3>4. InStore = [d \in LiveCells |-> Object(d)] /\ InStore' = [d \in LiveCells' |-> Object(d)']
      BY DEF InStore, LiveCells
    <3>5. DOMAIN InStore = LiveCells /\ \A d \in LiveCells : InStore[d] = Object(d)
      BY <3>4
    <3>6. InStore' = [d \in DOMAIN InStore \ {p} |-> InStore[d]]
      <4>1. [d \in LiveCells' |-> Object(d)'] = [d \in LiveCells \ {p} |-> Object(d)]
        BY <3>2, <3>3
      <4>2. [d \in DOMAIN InStore \ {p} |-> InStore[d]] = [d \in LiveCells \ {p} |-> Object(d)]
        BY <3>5
      <4>3. QED
        BY <3>4, <4>1, <4>2
    <3>7. p \in DOMAIN InStore
      BY <2>4, <3>5 DEF LiveCells
    <3>8. Abstract!Reclaim(p)
      BY <1>3, <3>1, <3>6, <3>7 DEF Abstract!Reclaim, InStore
    <3>9. QED
      BY <3>8
  <2>5. QED
    BY <2>3, <2>4
<1>7. QED
  BY <1>1, <1>5, <1>6

-----------------------------------------------------------------------------
LEMMA KindsNext == ASSUME StoreInv, [Next]_vars PROVE KindsOK'
<1>1. KindsOK /\ TypeOK /\ Cells \subseteq Int
  BY DEF StoreInv, Inv, Cells
<1>2. CASE type' = type
  BY <1>1, <1>2 DEF KindsOK, Live
<1>3. CASE \E c \in Cells, kind \in Kinds \cup {"free"} : type' = [type EXCEPT ![c] = kind]
  BY <1>1, <1>3 DEF KindsOK, Live, TypeOK
<1>4. CASE \E S : type' = [c \in Cells |-> IF c \in S THEN "free" ELSE type[c]]
  <2>1. PICK S : type' = [c \in Cells |-> IF c \in S THEN "free" ELSE type[c]]
    BY <1>4
  <2>2. \A c \in Cells : type'[c] = "free" \/ type'[c] = type[c]
    BY <2>1
  <2>3. QED
    BY <1>1, <2>2 DEF KindsOK, Live
<1>5. ASSUME NEW request, NEW litter, StartGc(request, litter) PROVE KindsOK'
  BY <1>4, <1>5 DEF StartGc
<1>6. ASSUME NEW garbage, AddHeap(garbage) PROVE KindsOK'
  BY <1>4, <1>6 DEF AddHeap
<1>7. ASSUME NEW kind \in Kinds, NEW x, NEW y, NewcellFromFreelist(kind, x, y) PROVE KindsOK'
  <2>1. Head(freelist) \in Cells
    BY <1>7, HeadFacts DEF StoreInv, NewcellFromFreelist, Collecting
  <2>2. QED
    BY <1>3, <1>7, <2>1 DEF NewcellFromFreelist, Fill
<1>8. ASSUME NEW kind \in Kinds, NEW x, NEW y, NewcellFromHeap(kind, x, y) PROVE KindsOK'
  <2>1. heap \in Cells
    <3>1. heap \in 1 .. HeapEnd /\ heap < HeapEnd
      BY <1>1, <1>8 DEF TypeOK, NewcellFromHeap
    <3>2. QED
      BY <3>1, HeapFacts DEF HeapEnd, Cells
  <2>2. QED
    BY <1>3, <1>8, <2>1 DEF NewcellFromHeap, Fill
<1>9. ASSUME TakeCell PROVE KindsOK'
  <2>1. /\ ~Collecting /\ freelist # <<>> /\ calls # <<>> /\ CallsOK
        /\ type' = [type EXCEPT ![Head(freelist)] = Top.op]
    BY <1>9 DEF TakeCell, Fill, Collecting, StoreInv, Inv, CallsOK
  <2>2. Len(calls) \in 1 .. Len(calls)
    BY <1>1, <2>1 DEF TypeOK
  <2>3. Top \in Frames /\ Top.op # "gc"
    BY <1>1, <2>1, <2>2, PrefixFacts DEF Top, CallsOK
  <2>4. Top.op \in Kinds
    BY <2>3 DEF Frames
  <2>5. Head(freelist) \in Cells
    BY <2>1, HeadFacts DEF StoreInv
  <2>6. QED
    BY <1>3, <2>1, <2>4, <2>5
<1>10. ASSUME siod_gc_sweep PROVE KindsOK'
  <2>1. ptr \in Cells
    BY <1>1, <1>10, AllocatedFacts DEF siod_gc_sweep, TypeOK
  <2>2. type' = type \/ type' = [type EXCEPT ![ptr] = "free"]
    BY <1>10 DEF siod_gc_sweep, SweepUnmarked, SweepMarked
  <2>3. QED
    BY <1>2, <1>3, <2>1, <2>2
<1>11. CASE UNCHANGED vars
  BY <1>2, <1>11 DEF vars, memory
<1>12. CASE Program
  <2>1. CASE \E kind \in Kinds, x, y \in locals \cup {NIL} : Shape(kind, x, y) /\ Newcell(kind, x, y)
    BY <1>5, <1>7, <1>8, <2>1 DEF Newcell, siod_gc_for_newcell
  <2>2. CASE siod_user_gc
    BY <1>5, <2>2 DEF siod_user_gc
  <2>3. CASE UserAllocateHeap
    BY <1>6, <2>3 DEF UserAllocateHeap, siod_allocate_aheap
  <2>4. type' = type \/ siod_user_gc \/ UserAllocateHeap
        \/ (\E kind \in Kinds, x, y \in locals \cup {NIL} : Shape(kind, x, y) /\ Newcell(kind, x, y))
    BY <1>12 DEF Program, LoadField, LoadRegister, Hold, Drop, StoreRegister, siod_setcar, siod_setcdr,
         NewcellFatal, SetAfterGc, StartRepl, HookReturns, HookThrows, Unwind, memory
  <2>5. QED
    BY <1>2, <2>1, <2>2, <2>3, <2>4
<1>13. CASE Collector
  <2>1. type' = type \/ siod_gc_sweep
    BY <1>13 DEF Collector, siod_gc_mark, MarkDone, SweepDone, memory
  <2>2. QED
    BY <1>2, <1>10, <2>1
<1>14. CASE AfterCollection
  <2>1. type' = type \/ TakeCell \/ Grow
    BY <1>14 DEF AfterCollection, CannotGrow, RunHook, siod_gc_fatal_error, GcAborted, Unwind, TakeNil, memory
  <2>2. QED
    BY <1>2, <1>6, <1>9, <2>1 DEF Grow, siod_allocate_aheap
<1>15. QED
  BY <1>11, <1>12, <1>13, <1>14 DEF Next

LEMMA StoreInit == Init => StoreInv /\ Abstract!Init
<1> SUFFICES ASSUME Init PROVE StoreInv /\ Abstract!Init
  OBVIOUS
<1>1. \A c \in Cells : ~Live(c)
  BY DEF Init, Live
<1>2. StoreInv
  BY <1>1, InvInit DEF StoreInv, KindsOK
<1>3. {d \in Cells : Live(d)} = {}
  BY <1>1
<1>4. [c \in {d \in Cells : Live(d)} |-> Object(c)] = [c \in {} |-> 0]
  BY <1>3
<1>5. Roots = {}
  <2>1. 1 .. Len(calls) = {} /\ locals = {} /\ RegRoots = {}
    BY DEF Init, RegRoots
  <2>2. QED
    BY <2>1 DEF Roots, StackRoots
<1>6. QED
  BY <1>2, <1>4, <1>5 DEF Abstract!Init

LEMMA StoreNext ==
  StoreInv /\ [Next]_vars =>
    StoreInv' /\ [Abstract!Next]_<<[c \in {d \in Cells : Live(d)} |-> Object(c)], Roots>>
<1> SUFFICES ASSUME StoreInv, [Next]_vars
             PROVE  StoreInv' /\ (StoreUnchanged \/ Abstract!Next)
  BY DEF StoreUnchanged, InStore
<1>1. StoreInv'
  BY KindsNext, InvNext DEF StoreInv
<1>2. CASE UNCHANGED vars
  <2>1. UNCHANGED <<type, car, cdr, reg, locals, calls>>
    BY <1>2 DEF vars, memory, program
  <2>2. InStore' = InStore
    BY <2>1, SameObjects DEF Live
  <2>3. Roots' = Roots
    BY <2>1 DEF Roots, StackRoots, RegRoots, Held
  <2>4. QED
    BY <1>1, <2>2, <2>3 DEF StoreUnchanged
<1>3. CASE Program
  <2>1. CASE \/ \E c \in locals : LoadField(c) \/ Drop(c)
             \/ \E r \in Regs : LoadRegister(r)
             \/ \E r \in Regs, v \in locals \cup {NIL} : StoreRegister(r, v)
    BY <1>1, <2>1, ProgramMoves DEF Abstract!Next
  <2>2. ASSUME NEW c \in locals, NEW v \in locals \cup {NIL}, siod_setcar(c, v) \/ siod_setcdr(c, v)
        PROVE  Abstract!Next
    <3>1. c \in Cells
      BY DEF StoreInv, Inv, TypeOK
    <3>2. QED
      BY <2>2, <3>1, WriteUpdates DEF Abstract!Next
  <2>3. ASSUME NEW kind \in Kinds, NEW x \in locals \cup {NIL}, NEW y \in locals \cup {NIL},
               Newcell(kind, x, y)
        PROVE  Abstract!Next
    <3>1. CASE NewcellFromFreelist(kind, x, y) \/ NewcellFromHeap(kind, x, y)
      BY <3>1, NewcellAllocates DEF Abstract!Next
    <3>2. CASE siod_gc_for_newcell(kind, x, y)
      BY <3>2, StartGcMoves DEF siod_gc_for_newcell, Abstract!Next
    <3>3. QED
      BY <2>3, <3>1, <3>2 DEF Newcell
  <2>4. CASE siod_user_gc
    BY <1>1, <2>4, StartGcMoves DEF siod_user_gc, Abstract!Next
  <2>5. CASE NewcellFatal \/ SetAfterGc \/ StartRepl \/ HookReturns
    BY <1>1, <2>5, FlagMoves DEF Abstract!Next
  <2>6. CASE UserAllocateHeap
    BY <1>1, <2>6, AddHeapMoves DEF Abstract!Next
  <2>7. CASE HookThrows
    BY <1>1, <2>7, UnwindMoves DEF Abstract!Next
  <2>8. QED
    BY <1>1, <1>3, <2>1, <2>2, <2>3, <2>4, <2>5, <2>6, <2>7 DEF Program
<1>4. CASE Collector
  BY <1>1, <1>4, FlagMoves, SweepReclaims, SweepDoneMoves DEF Collector, Abstract!Next
<1>5. CASE AfterCollection
  <2>1. CASE TakeCell
    BY <1>1, <2>1, TakeCellAllocates DEF Abstract!Next
  <2>2. CASE ~TakeCell
    BY <1>1, <1>5, <2>2, FlagMoves, AddHeapMoves, RunHookMoves, UnwindMoves DEF AfterCollection, Abstract!Next
  <2>3. QED
    BY <2>1, <2>2
<1>6. QED
  BY <1>2, <1>3, <1>4, <1>5 DEF Next

(* The collector is invisible to the program: an object keeps its contents  *)
(* as long as it can be reached, only the program changes one, and a new    *)
(* one is built in a cell that no reachable object uses.                    *)
THEOREM MarkSweepImplementsStore == Spec => ImplementsStore
<1>1. Init => StoreInv /\ Abstract!Init
  BY StoreInit
<1>2. StoreInv /\ [Next]_vars =>
        StoreInv' /\ [Abstract!Next]_<<[c \in {d \in Cells : Live(d)} |-> Object(c)], Roots>>
  BY StoreNext
<1>3. QED
  BY <1>1, <1>2, PTL DEF Spec, ImplementsStore, Abstract!Spec
=============================================================================
