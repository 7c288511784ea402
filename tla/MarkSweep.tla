------------------------------ MODULE MarkSweep ------------------------------
(***************************************************************************)
(* The mark-and-sweep storage manager of ULSIOD (option -g0, the default): *)
(* NEWCELL, siod_gc_for_newcell, siod_gc_mark_and_sweep,                   *)
(* siod_allocate_aheap and siod_user_gc of slib.c, driven by an arbitrary  *)
(* Scheme program (the mutator).                                           *)
(*                                                                         *)
(* A cell is a number, its address: heap k holds the cells                 *)
(* k*HeapSize+1 .. (k+1)*HeapSize, and NIL is 0, as in the code.  The free *)
(* list is the sequence of its cells; the CDR links that thread it are     *)
(* not represented, and a free cell's fields read NIL.                     *)
(***************************************************************************)
EXTENDS Integers, Sequences, FiniteSets

CONSTANTS
  NHeaps,       \* nheaps, the -h option's second number
  HeapSize,     \* heap_size, cells per heap
  HookMin,      \* free cells that let *after-gc* run instead of growing: 100
  Kinds,        \* the types of cell the program builds
  Regs,         \* the locations registered by siod_gc_protect
  MaxLocals,    \* bound: pointers one C frame holds
  MaxLitter,    \* bound: dead stack words that look like pointers
  MaxCalls      \* bound: allocator and gc calls nested through *after-gc*

ASSUME HeapsAssumption ==
  /\ NHeaps \in Nat \ {0}
  /\ HeapSize \in Nat \ {0}
  /\ HookMin \in Nat \ {0}
ASSUME KindsAssumption == Kinds \subseteq {"flonum", "symbol", "cons", "closure"}
ASSUME BoundsAssumption == MaxLocals \in Nat /\ MaxLitter \in Nat /\ MaxCalls \in Nat

NIL == 0
Cells == 1 .. NHeaps * HeapSize
Pointers == Cells \cup {NIL}

(* What a cell's type field can say: "raw" is memory no code has written yet. *)
CellTypes == {"raw", "free", "flonum", "symbol", "cons", "closure", "traced"}

VARIABLES
  type,         \* type field of each cell
  mark,         \* siod_gc_mark field # 0
  car, cdr,     \* the two pointers of a cell (code and env of a closure,
                \* VCELL of a symbol in cdr), NIL where the type has none
  nactive,      \* siod_nactive_heaps(): heaps 0 .. nactive-1 are allocated
  heap,         \* bump pointer into heap 0, up to heap_end = HeapSize+1
  freelist,     \* the free list
  reg,          \* contents of the protected registers
  locals,       \* pointers the running C frames hold
  calls,        \* pending calls into the storage manager, outermost first
  errjmp_ok,    \* whether err() may longjmp
  afterGc,      \* whether *after-gc* is bound to something to run
  pc,           \* what the interpreter thread is doing
  gray,         \* siod_gc_mark's pending pointers
  ptr, nfreelist \* siod_gc_sweep's cursor and the list it builds

memory == <<type, mark, car, cdr>>
program == <<reg, locals, afterGc>>
sweeping == <<ptr, nfreelist>>
vars == <<memory, nactive, heap, freelist, program, calls, errjmp_ok, pc, gray, sweeping>>

HeapCells(k) == k * HeapSize + 1 .. (k + 1) * HeapSize
Allocated == 1 .. nactive * HeapSize
HeapEnd == HeapSize + 1

Elems(s) == {s[i] : i \in 1 .. Len(s)}
Live(c) == type[c] \notin {"raw", "free"}

(* The pointers a cell holds. *)
Children(c) == {car[c], cdr[c]} \ {NIL}

(* The pointers siod_gc_mark follows from a cell.  For a type with hooks it *)
(* calls the mark hook and drops what the hook returns: siod_ct_siod_gc_mark *)
(* marks the code of a traced closure and returns its env.                  *)
Scanned(c) == IF type[c] = "traced" THEN {car[c]} \ {NIL} ELSE Children(c)

(* What the pending calls keep on the stack: arguments, callers' locals. *)
Held(f) == f.held \cup ({f.car, f.cdr} \ {NIL})
StackRoots == locals \cup UNION {Held(calls[i]) : i \in 1 .. Len(calls)}
RegRoots == {reg[r] : r \in Regs} \ {NIL}
Roots == StackRoots \cup RegRoots

(* The cells the program can still get at: those in every set of cells     *)
(* that contains the roots and is closed under the cells' pointers.         *)
Reachable ==
  LET Closed == {S \in SUBSET Cells : Roots \subseteq S /\ \A c \in S : Children(c) \subseteq S}
  IN  {c \in Cells : \A S \in Closed : c \in S}

-----------------------------------------------------------------------------
Init ==
  /\ type = [c \in Cells |-> "raw"]
  /\ mark = [c \in Cells |-> FALSE]
  /\ car = [c \in Cells |-> NIL]
  /\ cdr = [c \in Cells |-> NIL]
  /\ nactive = 1
  /\ heap = 1
  /\ freelist = <<>>
  /\ reg = [r \in Regs |-> NIL]
  /\ locals = {}
  /\ calls = <<>>
  /\ errjmp_ok = FALSE
  /\ afterGc = FALSE
  /\ pc = "run"
  /\ gray = {}
  /\ ptr = 1
  /\ nfreelist = <<>>

-----------------------------------------------------------------------------
(* The program between two calls of the allocator.  It reads and writes     *)
(* only cells it holds in a local, and moves pointers among locals,         *)
(* registers and fields.                                                    *)

Hold(v) ==
  /\ pc = "run"
  /\ v # NIL
  /\ Cardinality(locals \cup {v}) <= MaxLocals
  /\ locals' = locals \cup {v}
  /\ UNCHANGED <<memory, nactive, heap, freelist, reg, afterGc, calls, errjmp_ok, pc, gray, sweeping>>

LoadField(c) == \E v \in Children(c) : Hold(v)
LoadRegister(r) == Hold(reg[r])

Drop(c) ==
  /\ pc = "run"
  /\ locals' = locals \ {c}
  /\ UNCHANGED <<memory, nactive, heap, freelist, reg, afterGc, calls, errjmp_ok, pc, gray, sweeping>>

StoreRegister(r, v) ==
  /\ pc = "run"
  /\ reg' = [reg EXCEPT ![r] = v]
  /\ UNCHANGED <<memory, nactive, heap, freelist, locals, afterGc, calls, errjmp_ok, pc, gray, sweeping>>

siod_setcar(c, v) ==
  /\ pc = "run"
  /\ type[c] = "cons"
  /\ car' = [car EXCEPT ![c] = v]
  /\ UNCHANGED <<type, mark, cdr, nactive, heap, freelist, program, calls, errjmp_ok, pc, gray, sweeping>>

(* siod_setcdr of a cons, or siod_setvar of a symbol. *)
siod_setcdr(c, v) ==
  /\ pc = "run"
  /\ type[c] \in {"cons", "symbol"}
  /\ cdr' = [cdr EXCEPT ![c] = v]
  /\ UNCHANGED <<type, mark, car, nactive, heap, freelist, program, calls, errjmp_ok, pc, gray, sweeping>>

SetAfterGc ==
  /\ pc = "run"
  /\ errjmp_ok
  /\ afterGc' = ~afterGc
  /\ UNCHANGED <<memory, nactive, heap, freelist, reg, locals, calls, errjmp_ok, pc, gray, sweeping>>

(* siod_repl_driver has set errjmp: errors no longer end the process. *)
StartRepl ==
  /\ pc = "run"
  /\ ~errjmp_ok
  /\ errjmp_ok' = TRUE
  /\ UNCHANGED <<memory, nactive, heap, freelist, program, calls, pc, gray, sweeping>>

-----------------------------------------------------------------------------
(* NEWCELL.  A request names the type and the fields of the cell to build;  *)
(* when the free list is empty it becomes a frame of calls until the        *)
(* storage manager has found a cell.                                        *)

Request(op, x, y) ==
  [op |-> op, car |-> x, cdr |-> y, held |-> locals, hooked |-> FALSE]

(* The fields a constructor of each type stores. *)
Shape(kind, x, y) ==
  /\ kind = "flonum" => x = NIL /\ y = NIL
  /\ kind = "symbol" => x = NIL

CanHoldOneMore == Cardinality(locals) < MaxLocals

(* Variant: NEWCELL without its reset of siod_gc_mark. *)
FillKeepingMark(c, kind, x, y) ==
  /\ type' = [type EXCEPT ![c] = kind]
  /\ car' = [car EXCEPT ![c] = x]
  /\ cdr' = [cdr EXCEPT ![c] = y]
  /\ UNCHANGED mark

(* NEWCELL's stores and its caller's. *)
Fill(c, kind, x, y) ==
  /\ type' = [type EXCEPT ![c] = kind]
  /\ mark' = [mark EXCEPT ![c] = FALSE]
  /\ car' = [car EXCEPT ![c] = x]
  /\ cdr' = [cdr EXCEPT ![c] = y]

NewcellFromFreelist(kind, x, y) ==
  /\ pc = "run"
  /\ CanHoldOneMore
  /\ freelist # <<>>
  /\ Fill(Head(freelist), kind, x, y)
  /\ freelist' = Tail(freelist)
  /\ locals' = locals \cup {Head(freelist)}
  /\ UNCHANGED <<nactive, heap, reg, afterGc, calls, errjmp_ok, pc, gray, sweeping>>

(* Variant: the bump allocator runs one cell too far. *)
NewcellPastHeap(kind, x, y) ==
  /\ pc = "run"
  /\ CanHoldOneMore
  /\ freelist = <<>>
  /\ heap <= HeapEnd
  /\ Fill(heap, kind, x, y)
  /\ heap' = heap + 1
  /\ locals' = locals \cup {heap}
  /\ UNCHANGED <<nactive, freelist, reg, afterGc, calls, errjmp_ok, pc, gray, sweeping>>

NewcellFromHeap(kind, x, y) ==
  /\ pc = "run"
  /\ CanHoldOneMore
  /\ freelist = <<>>
  /\ heap < HeapEnd
  /\ Fill(heap, kind, x, y)
  /\ heap' = heap + 1
  /\ locals' = locals \cup {heap}
  /\ UNCHANGED <<nactive, freelist, reg, afterGc, calls, errjmp_ok, pc, gray, sweeping>>

(* siod_gc_fatal_error before the read-eval-print loop: err exits. *)
NewcellFatal ==
  /\ pc = "run"
  /\ freelist = <<>>
  /\ heap = HeapEnd
  /\ ~errjmp_ok
  /\ pc' = "dead"
  /\ UNCHANGED <<memory, nactive, heap, freelist, program, calls, errjmp_ok, gray, sweeping>>

-----------------------------------------------------------------------------
(* siod_gc_mark_and_sweep.  A word of the stack or of the saved registers   *)
(* is a root when it looks like a pointer; protected registers are roots    *)
(* as they are.  What is left of heap 0 joins the free cells.               *)

siod_looks_pointerp(p) == p \in Allocated /\ type[p] \notin {"raw", "free"}

(* Variants: any word of the stack is a root; registers are not. *)
MarkRootsUnchecked(litter) == Roots \cup litter
MarkRootsOfStack(litter) == {p \in StackRoots \cup litter : siod_looks_pointerp(p)}

MarkRoots(litter) ==
  RegRoots \cup {p \in StackRoots \cup litter : siod_looks_pointerp(p)}

(* The dead words of the stack that happen to look like pointers. *)
Litter == {L \in SUBSET Cells : Cardinality(L) <= MaxLitter}

StartGc(request, litter) ==
  /\ calls' = Append(calls, request)
  /\ locals' = {}
  /\ type' = [c \in Cells |-> IF c \in heap .. HeapSize THEN "free" ELSE type[c]]
  /\ mark' = [c \in Cells |-> IF c \in heap .. HeapSize THEN FALSE ELSE mark[c]]
  /\ heap' = HeapEnd
  /\ gray' = MarkRoots(litter)
  /\ errjmp_ok' = FALSE
  /\ pc' = "mark"
  /\ UNCHANGED <<car, cdr, nactive, freelist, reg, afterGc, sweeping>>

siod_gc_for_newcell(kind, x, y) ==
  /\ pc = "run"
  /\ CanHoldOneMore
  /\ Len(calls) < MaxCalls
  /\ freelist = <<>>
  /\ heap = HeapEnd
  /\ errjmp_ok
  /\ \E litter \in Litter : StartGc(Request(kind, x, y), litter)

siod_user_gc ==
  /\ pc = "run"
  /\ Len(calls) < MaxCalls
  /\ errjmp_ok
  /\ \E litter \in Litter : StartGc(Request("gc", NIL, NIL), litter)

(* Variant: a cell already marked is marked again. *)
MarkAgain(c) ==
  /\ pc = "mark"
  /\ mark' = [mark EXCEPT ![c] = TRUE]
  /\ gray' = (gray \ {c}) \cup Scanned(c)
  /\ UNCHANGED <<type, car, cdr, nactive, heap, freelist, program, calls, errjmp_ok, pc, sweeping>>

(* One activation of siod_gc_mark: a cell already marked returns at once.  *)
(* The recursion takes the pending pointers in some order; any order will   *)
(* do.                                                                      *)
siod_gc_mark(c) ==
  /\ pc = "mark"
  /\ mark' = [mark EXCEPT ![c] = TRUE]
  /\ gray' = {d \in gray \cup Scanned(c) : ~mark'[d]}
  /\ UNCHANGED <<type, car, cdr, nactive, heap, freelist, program, calls, errjmp_ok, pc, sweeping>>

(* Variant: the sweep adds to the old free list. *)
MarkDoneKeepingList ==
  /\ pc = "mark"
  /\ gray = {}
  /\ pc' = "sweep"
  /\ ptr' = 1
  /\ nfreelist' = freelist
  /\ UNCHANGED <<memory, nactive, heap, freelist, program, calls, errjmp_ok, gray>>

MarkDone ==
  /\ pc = "mark"
  /\ gray = {}
  /\ pc' = "sweep"
  /\ ptr' = 1
  /\ nfreelist' = <<>>
  /\ UNCHANGED <<memory, nactive, heap, freelist, program, calls, errjmp_ok, gray>>

SweepUnmarked ==
  /\ ~mark[ptr]
  /\ type' = [type EXCEPT ![ptr] = "free"]
  /\ car' = [car EXCEPT ![ptr] = NIL]
  /\ cdr' = [cdr EXCEPT ![ptr] = NIL]
  /\ nfreelist' = <<ptr>> \o nfreelist
  /\ UNCHANGED mark

(* Variant: the sweep leaves the mark. *)
SweepMarkedKeepingMark ==
  /\ mark[ptr]
  /\ UNCHANGED <<memory, nfreelist>>

SweepMarked ==
  /\ mark[ptr]
  /\ mark' = [mark EXCEPT ![ptr] = FALSE]
  /\ UNCHANGED <<type, car, cdr, nfreelist>>

siod_gc_sweep ==
  /\ pc = "sweep"
  /\ ptr \in Allocated
  /\ SweepUnmarked \/ SweepMarked
  /\ ptr' = ptr + 1
  /\ UNCHANGED <<nactive, heap, freelist, program, calls, errjmp_ok, pc, gray>>

(* The end of siod_gc_sweep and the return to siod_gc_for_newcell or to     *)
(* siod_user_gc, both of which make err() usable again.                     *)
Top == calls[Len(calls)]
Popped == SubSeq(calls, 1, Len(calls) - 1)

SweepDone ==
  /\ pc = "sweep"
  /\ ptr \notin Allocated
  /\ freelist' = nfreelist
  /\ ptr' = 1
  /\ nfreelist' = <<>>
  /\ errjmp_ok' = TRUE
  /\ IF Top.op = "gc"
     THEN pc' = "run" /\ calls' = Popped /\ locals' = Top.held
     ELSE pc' = "grow" /\ UNCHANGED <<calls, locals>>
  /\ UNCHANGED <<memory, nactive, heap, reg, afterGc, gray>>

-----------------------------------------------------------------------------
(* siod_gc_for_newcell after the collection: grow, run the hook, or fail.   *)

NewCells == [i \in 1 .. HeapSize |-> nactive * HeapSize + i]

(* The new cells are typed and chained; their mark fields hold whatever     *)
(* malloc returned.                                                         *)
AddHeap(garbage) ==
  /\ nactive < NHeaps
  /\ type' = [c \in Cells |-> IF c \in HeapCells(nactive) THEN "free" ELSE type[c]]
  /\ mark' = [c \in Cells |-> IF c \in HeapCells(nactive) THEN garbage[c] ELSE mark[c]]
  /\ freelist' = NewCells \o freelist
  /\ nactive' = nactive + 1
  /\ UNCHANGED <<car, cdr, heap, reg, afterGc, calls, errjmp_ok, gray, sweeping>>

siod_allocate_aheap == \E garbage \in [HeapCells(nactive) -> BOOLEAN] : AddHeap(garbage)

UserAllocateHeap ==
  /\ pc = "run"
  /\ errjmp_ok
  /\ siod_allocate_aheap
  /\ UNCHANGED <<pc, locals>>

(* Fewer than HookMin free cells, none included. *)
Grow ==
  /\ pc = "grow"
  /\ Len(freelist) < HookMin
  /\ siod_allocate_aheap
  /\ pc' = "take"
  /\ UNCHANGED locals

(* Variant: the NIL of siod_allocate_aheap is never looked at. *)
CannotGrowUnchecked ==
  /\ pc = "grow"
  /\ Len(freelist) < HookMin
  /\ nactive = NHeaps
  /\ pc' = "take"
  /\ UNCHANGED <<memory, nactive, heap, freelist, program, calls, errjmp_ok, gray, sweeping>>

(* Every heap is in use already: siod_allocate_aheap returns NIL, which     *)
(* nobody looks at while one cell is free.                                  *)
CannotGrow ==
  /\ pc = "grow"
  /\ freelist # <<>>
  /\ Len(freelist) < HookMin
  /\ nactive = NHeaps
  /\ pc' = "take"
  /\ UNCHANGED <<memory, nactive, heap, freelist, program, calls, errjmp_ok, gray, sweeping>>

Interrupted(f) ==
  [op |-> f.op, car |-> f.car, cdr |-> f.cdr, held |-> f.held, hooked |-> TRUE]

RunHook ==
  /\ pc = "grow"
  /\ Len(freelist) >= HookMin
  /\ IF afterGc
     THEN pc' = "run" /\ calls' = Append(Popped, Interrupted(Top))
     ELSE pc' = "take" /\ UNCHANGED calls
  /\ UNCHANGED <<memory, nactive, heap, freelist, program, errjmp_ok, gray, sweeping>>

HookReturns ==
  /\ pc = "run"
  /\ calls # <<>>
  /\ pc' = "take"
  /\ locals' = {}
  /\ UNCHANGED <<memory, nactive, heap, freelist, reg, afterGc, calls, errjmp_ok, gray, sweeping>>

(* longjmp out of call i and of every call made inside it, to a frame of    *)
(* the program that made call i.                                            *)
Unwind(i) ==
  /\ calls' = SubSeq(calls, 1, i - 1)
  /\ locals' = calls[i].held
  /\ pc' = "run"
  /\ UNCHANGED <<memory, nactive, heap, freelist, reg, afterGc, errjmp_ok, gray, sweeping>>

(* err("ran out of storage"). *)
siod_gc_fatal_error ==
  /\ pc = "grow"
  /\ freelist = <<>>
  /\ nactive = NHeaps
  /\ \E i \in 1 .. Len(calls) : Unwind(i)

(* The SIGINT that siod_no_interrupt(1) deferred is raised when the section *)
(* ends, or malloc finds no memory for a heap.                              *)
GcAborted ==
  /\ pc = "grow"
  /\ \E i \in 1 .. Len(calls) : Unwind(i)

HookThrows ==
  /\ pc = "run"
  /\ \E i \in 1 .. Len(calls) : Unwind(i)

TakeCell ==
  /\ pc = "take"
  /\ freelist # <<>>
  /\ Fill(Head(freelist), Top.op, Top.car, Top.cdr)
  /\ freelist' = Tail(freelist)
  /\ calls' = Popped
  /\ locals' = Top.held \cup {Head(freelist)}
  /\ pc' = "run"
  /\ UNCHANGED <<nactive, heap, reg, afterGc, errjmp_ok, gray, sweeping>>

(* NEWCELL does not look at the free list again: it reads through NIL. *)
TakeNil ==
  /\ pc = "take"
  /\ freelist = <<>>
  /\ pc' = "crashed"
  /\ UNCHANGED <<memory, nactive, heap, freelist, program, calls, errjmp_ok, gray, sweeping>>

-----------------------------------------------------------------------------
Newcell(kind, x, y) ==
  \/ NewcellFromFreelist(kind, x, y)
  \/ NewcellFromHeap(kind, x, y)
  \/ siod_gc_for_newcell(kind, x, y)

Program ==
  \/ \E c \in locals : LoadField(c) \/ Drop(c)
  \/ \E r \in Regs : LoadRegister(r)
  \/ \E r \in Regs, v \in locals \cup {NIL} : StoreRegister(r, v)
  \/ \E c \in locals, v \in locals \cup {NIL} : siod_setcar(c, v) \/ siod_setcdr(c, v)
  \/ \E kind \in Kinds, x, y \in locals \cup {NIL} : Shape(kind, x, y) /\ Newcell(kind, x, y)
  \/ NewcellFatal
  \/ SetAfterGc \/ StartRepl \/ siod_user_gc \/ UserAllocateHeap
  \/ HookReturns \/ HookThrows

Collector ==
  \/ \E c \in gray : siod_gc_mark(c)
  \/ MarkDone \/ siod_gc_sweep \/ SweepDone

AfterCollection ==
  \/ Grow \/ CannotGrow \/ RunHook \/ siod_gc_fatal_error \/ GcAborted
  \/ TakeCell \/ TakeNil

Next == Program \/ Collector \/ AfterCollection

Spec == Init /\ [][Next]_vars

(* One thread runs the collector to its end without waiting for anything. *)
FairSpec == Spec /\ WF_vars(Collector) /\ WF_vars(AfterCollection)

-----------------------------------------------------------------------------
Frames == [op : Kinds \cup {"gc"}, car : Pointers, cdr : Pointers,
           held : SUBSET Cells, hooked : BOOLEAN]

TypeOK ==
  /\ type \in [Cells -> CellTypes]
  /\ mark \in [Cells -> BOOLEAN]
  /\ car \in [Cells -> Pointers]
  /\ cdr \in [Cells -> Pointers]
  /\ nactive \in 1 .. NHeaps
  /\ heap \in 1 .. HeapEnd
  /\ freelist \in Seq(Cells)
  /\ reg \in [Regs -> Pointers]
  /\ locals \in SUBSET Cells
  /\ calls \in Seq(Frames)
  /\ errjmp_ok \in BOOLEAN
  /\ afterGc \in BOOLEAN
  /\ pc \in {"run", "mark", "sweep", "grow", "take", "dead", "crashed"}
  /\ gray \in SUBSET Cells
  /\ ptr \in 1 .. NHeaps * HeapSize + 1
  /\ nfreelist \in Seq(Cells)

Injective(s) == \A i, j \in 1 .. Len(s) : s[i] = s[j] => i = j

(* No cell the program can still reach from its C frames, its pending calls *)
(* or the protected registers has been swept: the collector never frees     *)
(* memory in use, whichever words of the stack are litter, at any point of  *)
(* a collection, a hook or an unwinding.                                    *)
ReachableIntact == \A c \in Reachable : Live(c)

(* The free list threads free cells only and no cell twice, so that no cell *)
(* is handed out while it is in use or handed out twice.                    *)
FreelistSound ==
  /\ Injective(freelist)
  /\ pc \notin {"mark", "sweep"} => \A c \in Elems(freelist) : type[c] = "free"

(* Outside a collection only untouched cells of a freshly allocated heap    *)
(* may carry a mark: a mark left on a cell in use would make the next       *)
(* siod_gc_mark return before it has marked what the cell points to.        *)
NoStaleMark ==
  pc \notin {"mark", "sweep"} => \A c \in Cells : mark[c] => c \in Elems(freelist)

(* "ran out of storage" is raised only when every heap is in use and the    *)
(* collection has found every cell of them to be in use.                    *)
FatalOnlyWhenFull ==
  pc = "grow" /\ freelist = <<>> => \A c \in Allocated : Live(c)

(* NEWCELL reads through NIL only when the *after-gc* hook has used up the  *)
(* cells the collection had found.                                          *)
NilOnlyAfterHook == pc = "crashed" => Top.hooked

(* A free cell the sweep passed over, because of the mark it came with, is  *)
(* recovered by the next sweep: no cell is lost for longer.                 *)
RecoveredStep ==
  pc = "sweep" /\ pc' # "sweep" =>
    \A c \in Allocated : type[c] = "free" /\ c \notin Elems(freelist) => c \in Elems(freelist')
LostCellsRecovered == [][RecoveredStep]_vars

(* The inductive invariant.  A set of cells holds the roots, and a set is   *)
(* closed when it contains what its cells point to.                         *)
RootsIn(S) ==
  /\ locals \subseteq S
  /\ \A i \in 1 .. Len(calls) : Held(calls[i]) \subseteq S
  /\ \A r \in Regs : reg[r] # NIL => reg[r] \in S
ClosedUnderChildren(S) == \A c \in S : Children(c) \subseteq S

LiveCells == {c \in Cells : Live(c)}

(* What the sweep will leave: the marked cells ahead of its cursor and the  *)
(* cells it has passed and not freed.                                       *)
Kept == {c \in LiveCells : c < ptr \/ mark[c]}

Collecting == pc \in {"mark", "sweep"}

CallsOK ==
  /\ pc \in {"mark", "sweep", "grow", "take", "crashed"} => calls # <<>>
  /\ \A i \in 1 .. Len(calls) :
       calls[i].op = "gc" => i = Len(calls) /\ Collecting
  /\ Collecting => heap = HeapEnd

MemoryOK ==
  /\ \A c \in Cells : type[c] # "traced"
  /\ \A c \in Cells : c \notin Allocated \/ c \in heap .. HeapSize => type[c] = "raw"
  /\ \A c \in Cells : type[c] = "raw" => ~mark[c]
  /\ \A c \in Cells : ~Live(c) => Children(c) = {}

FreelistsOK ==
  /\ Injective(freelist)
  /\ ~Collecting => \A i \in 1 .. Len(freelist) : type[freelist[i]] = "free"
  /\ pc = "sweep" => /\ Injective(nfreelist)
                     /\ \A i \in 1 .. Len(nfreelist) : nfreelist[i] < ptr /\ type[nfreelist[i]] = "free"

MutatorOK == ~Collecting => RootsIn(LiveCells) /\ ClosedUnderChildren(LiveCells)

MarkOK ==
  pc = "mark" =>
    /\ RootsIn(LiveCells) /\ ClosedUnderChildren(LiveCells)
    /\ gray \subseteq LiveCells
    /\ RootsIn({c \in LiveCells : mark[c] \/ c \in gray})
    /\ \A c \in LiveCells : mark[c] => \A d \in Children(c) : mark[d] \/ d \in gray

SweepOK ==
  pc = "sweep" =>
    /\ RootsIn(Kept) /\ ClosedUnderChildren(Kept)
    /\ \A c \in Cells : c < ptr => ~mark[c]

Inv ==
  /\ TypeOK /\ CallsOK /\ MemoryOK /\ FreelistsOK
  /\ NoStaleMark /\ MutatorOK /\ MarkOK /\ SweepOK

(* Every free cell is in the free list after a sweep, unless it was before: *)
(* only cells of the old list, which nothing reads any more, may be marked. *)
SweepComplete ==
  /\ Collecting => \A c \in Cells : mark[c] => Live(c) \/ c \in Elems(freelist)
  /\ Collecting /\ Top.op # "gc" => freelist = <<>>
  /\ pc = "sweep" =>
       \A c \in Allocated : c < ptr => Live(c) \/ c \in Elems(freelist) \/ c \in Elems(nfreelist)
  /\ pc = "grow" => \A c \in Allocated : Live(c) \/ c \in Elems(freelist)

(* Of the pending calls only the innermost has not run the hook yet. *)
Answering == pc \in {"mark", "sweep", "grow", "take"}
HookedOK ==
  /\ \A i \in 1 .. Len(calls) : calls[i].hooked \/ (i = Len(calls) /\ Answering)
  /\ pc = "take" /\ freelist = <<>> => Top.hooked

(* The storage manager keeps what Store promises: the cells in use are the  *)
(* objects, and what the C stack and the protected registers hold are the   *)
(* roots.                                                                   *)
Object(c) == [type |-> type[c], car |-> car[c], cdr |-> cdr[c]]
Abstract == INSTANCE Store WITH store <- [c \in {d \in Cells : Live(d)} |-> Object(c)],
                                roots <- Roots
ImplementsStore == Abstract!Spec

(* A collection comes to an end and the request that started it is answered *)
(* by a cell, an error or the hook.                                         *)
CollectionEnds == pc \in {"mark", "sweep", "grow", "take"} ~> pc \in {"run", "crashed"}
=============================================================================
