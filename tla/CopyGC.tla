------------------------------- MODULE CopyGC -------------------------------
(***************************************************************************)
(* The stop-and-copy storage manager of ULSIOD (option -g1): NEWCELL takes *)
(* cells from one half of the storage, and between two forms siod_repl has *)
(* siod_gc_stop_and_copy move what the protected registers reach to the    *)
(* other half.  Registers are the only roots: no form is being evaluated.  *)
(*                                                                         *)
(* A cell is its address: half s holds s*HeapSize+1 .. (s+1)*HeapSize, and *)
(* NIL is 0.  Arrays stand for the types with hooks: one element, in cdr,   *)
(* and memory of their own.                                                *)
(***************************************************************************)
EXTENDS Integers, FiniteSets

CONSTANTS
  HeapSize,     \* heap_size, cells per half
  Kinds,        \* the types of cell the program builds
  Regs,         \* the locations registered by siod_gc_protect
  MaxLocals     \* bound: pointers the C frames hold

ASSUME SizeAssumption == HeapSize \in Nat \ {0}
ASSUME KindsAssumption == Kinds \subseteq {"flonum", "symbol", "cons", "array"}
ASSUME LocalsAssumption == MaxLocals \in Nat

NIL == 0
Cells == 1 .. 2 * HeapSize
Half(s) == s * HeapSize + 1 .. (s + 1) * HeapSize

VARIABLES
  type, fwd,    \* type field, and siod_gc_mark # 0: the cell has been moved
  car, cdr,     \* the two words of a cell; car of a moved cell is where to
  id,           \* auxiliary: which object a cell is, copied with its contents
  data,         \* the arrays, by id, whose memory has not been freed
  org, heap,    \* the half in use, and the next cell of it
  end,          \* while collecting: the end of the old half's cells
  reg, locals,  \* protected registers; pointers of the C frames
  status,       \* siod_gc_status_flag: collect before every form
  errjmp_ok, pc,
  pending,      \* registers siod_scan_registers has yet to do
  ptr, field    \* cursor of siod_scan_newspace and siod_free_oldspace

memory == <<type, fwd, car, cdr, id>>
program == <<reg, locals, status>>
cursors == <<end, pending, ptr, field>>
vars == <<memory, data, org, heap, program, errjmp_ok, pc, cursors>>

Old == 1 - org
First(s) == s * HeapSize + 1
HeapEnd == First(org) + HeapSize
Used == First(org) .. heap - 1
Moving == pc \in {"registers", "scan", "free"}

(* The cells that are objects: those of the half in use and, during a       *)
(* collection, those of the other that have been neither moved nor freed.   *)
Unmoved == {c \in Half(Old) : Moving /\ c < end /\ ~fwd[c] /\ (pc = "free" => c >= ptr)}
InUse == Used \cup Unmoved

HasCar(t) == t = "cons"
HasCdr(t) == t \in {"cons", "symbol", "array"}
Children(c) ==
  {x \in {car[c]} : HasCar(type[c]) /\ x # NIL} \cup {x \in {cdr[c]} : HasCdr(type[c]) /\ x # NIL}
RegRoots == {reg[r] : r \in Regs} \ {NIL}
Roots == locals \cup RegRoots

(* The cells that can be reached from S. *)
ReachableFrom(S) ==
  LET Closed == {C \in SUBSET Cells : S \subseteq C /\ \A c \in C : Children(c) \subseteq C}
  IN  {c \in Cells : \A C \in Closed : c \in C}

Init ==
  /\ type = [c \in Cells |-> "raw"]
  /\ fwd = [c \in Cells |-> FALSE]
  /\ car = [c \in Cells |-> NIL] /\ cdr = [c \in Cells |-> NIL]
  /\ id = [c \in Cells |-> NIL]
  /\ data = {}
  /\ org = 0 /\ heap = 1 /\ end = 1
  /\ reg = [r \in Regs |-> NIL] /\ locals = {} /\ status = TRUE
  /\ errjmp_ok = FALSE /\ pc = "run"
  /\ pending = {} /\ ptr = 1 /\ field = "car"

-----------------------------------------------------------------------------
(* The program: startup code, and then one form after the other. *)

Hold(v) ==
  /\ pc = "run"
  /\ v # NIL
  /\ Cardinality(locals \cup {v}) <= MaxLocals
  /\ locals' = locals \cup {v}
  /\ UNCHANGED <<memory, data, org, heap, reg, status, errjmp_ok, pc, cursors>>

LoadField(c) == \E v \in Children(c) : Hold(v)
LoadRegister(r) == Hold(reg[r])

Drop(c) ==
  /\ pc = "run"
  /\ locals' = locals \ {c}
  /\ UNCHANGED <<memory, data, org, heap, reg, status, errjmp_ok, pc, cursors>>

StoreRegister(r, v) ==
  /\ pc = "run"
  /\ reg' = [reg EXCEPT ![r] = v]
  /\ UNCHANGED <<memory, data, org, heap, locals, status, errjmp_ok, pc, cursors>>

siod_setcar(c, v) ==
  /\ pc = "run"
  /\ type[c] = "cons"
  /\ car' = [car EXCEPT ![c] = v]
  /\ UNCHANGED <<type, fwd, cdr, id, data, org, heap, program, errjmp_ok, pc, cursors>>

(* siod_setcdr, siod_setvar of a symbol, or siod_aset. *)
siod_setcdr(c, v) ==
  /\ pc = "run"
  /\ HasCdr(type[c])
  /\ cdr' = [cdr EXCEPT ![c] = v]
  /\ UNCHANGED <<type, fwd, car, id, data, org, heap, program, errjmp_ok, pc, cursors>>

siod_gc_status ==
  /\ pc = "run"
  /\ errjmp_ok
  /\ status' = ~status
  /\ UNCHANGED <<memory, data, org, heap, reg, locals, errjmp_ok, pc, cursors>>

(* An id for a new object; any that no object has would do. *)
Ids == 1 .. HeapSize + 1
NewId ==
  LET unused == Ids \ {id[c] : c \in Used}
  IN  CHOOSE n \in unused : \A m \in unused : n <= m

(* Variant: the half is one cell longer. *)
RoomForOneMore == heap <= HeapEnd

Room == heap < HeapEnd

NEWCELL(kind, x, y) ==
  /\ pc = "run"
  /\ Cardinality(locals) < MaxLocals
  /\ Room
  /\ type' = [type EXCEPT ![heap] = kind]
  /\ fwd' = [fwd EXCEPT ![heap] = FALSE]
  /\ car' = [car EXCEPT ![heap] = x]
  /\ cdr' = [cdr EXCEPT ![heap] = y]
  /\ id' = [id EXCEPT ![heap] = NewId]
  /\ data' = IF kind = "array" THEN data \cup {NewId} ELSE data
  /\ heap' = heap + 1
  /\ locals' = locals \cup {heap}
  /\ UNCHANGED <<org, reg, status, errjmp_ok, pc, cursors>>

(* The half is full: siod_gc_fatal_error, to a frame of the form or out of  *)
(* the form.                                                                *)
OutOfStorage ==
  /\ pc = "run"
  /\ heap = HeapEnd
  /\ IF errjmp_ok
     THEN \/ \E kept \in SUBSET locals : locals' = kept /\ UNCHANGED pc
          \/ locals' = {} /\ pc' = "repl"
     ELSE pc' = "exit" /\ UNCHANGED locals
  /\ UNCHANGED <<memory, data, org, heap, reg, status, errjmp_ok, cursors>>

(* The driver starts, and each form ends or fails. *)
FormEnds ==
  /\ pc = "run"
  /\ errjmp_ok' = TRUE
  /\ locals' = {}
  /\ pc' = "repl"
  /\ UNCHANGED <<memory, data, org, heap, reg, status, cursors>>

FormStarts ==
  /\ pc = "repl"
  /\ ~status
  /\ heap < HeapEnd
  /\ pc' = "run"
  /\ UNCHANGED <<memory, data, org, heap, program, errjmp_ok, cursors>>

-----------------------------------------------------------------------------
(* siod_gc_stop_and_copy. *)

(* Variant: the first cell of the new half is passed over. *)
GetNewspaceLate ==
  /\ org' = Old
  /\ heap' = First(Old) + 1

siod_get_newspace ==
  /\ org' = Old
  /\ heap' = First(Old)

siod_gc_stop_and_copy ==
  /\ pc = "repl"
  /\ status \/ heap = HeapEnd
  /\ errjmp_ok' = FALSE
  /\ end' = heap
  /\ siod_get_newspace
  /\ pending' = Regs
  /\ pc' = "registers"
  /\ UNCHANGED <<memory, data, program, ptr, field>>

(* Variant: a cell that has been moved is moved again. *)
MustMoveAgain(x) == x # NIL

MustMove(x) == x # NIL /\ ~fwd[x]

(* Where siod_gc_relocate leaves x, which is heap when it has to move. *)
Target(x) == IF MustMove(x) THEN heap ELSE IF x = NIL THEN NIL ELSE car[x]

(* Variant: the contents are copied after CAR(x) = nw. *)
MoveForwardFirst(x, cars, cdrs) ==
  IF MustMove(x)
  THEN /\ heap < HeapEnd
       /\ type' = [type EXCEPT ![heap] = type[x]]
       /\ id' = [id EXCEPT ![heap] = id[x]]
       /\ fwd' = [fwd EXCEPT ![heap] = FALSE, ![x] = TRUE]
       /\ car' = [cars EXCEPT ![heap] = heap, ![x] = heap]
       /\ cdr' = [cdrs EXCEPT ![heap] = cdr[x]]
       /\ heap' = heap + 1
  ELSE car' = cars /\ cdr' = cdrs /\ UNCHANGED <<type, fwd, id, heap>>

(* siod_gc_relocate of x, whose result has been stored in cars or cdrs. *)
Move(x, cars, cdrs) ==
  IF MustMove(x)
  THEN /\ heap < HeapEnd
       /\ type' = [type EXCEPT ![heap] = type[x]]
       /\ id' = [id EXCEPT ![heap] = id[x]]
       /\ fwd' = [fwd EXCEPT ![heap] = FALSE, ![x] = TRUE]
       /\ car' = [cars EXCEPT ![heap] = car[x], ![x] = heap]
       /\ cdr' = [cdrs EXCEPT ![heap] = cdr[x]]
       /\ heap' = heap + 1
  ELSE car' = cars /\ cdr' = cdrs /\ UNCHANGED <<type, fwd, id, heap>>

(* No room in the new half: err exits. *)
NoRoomFor(x) ==
  /\ MustMove(x)
  /\ heap >= HeapEnd
  /\ pc' = "lost"
  /\ UNCHANGED <<memory, data, org, heap, program, errjmp_ok, cursors>>

siod_scan_registers(r) ==
  /\ pc = "registers"
  /\ r \in pending
  /\ \/ NoRoomFor(reg[r])
     \/ /\ Move(reg[r], car, cdr)
        /\ reg' = [reg EXCEPT ![r] = Target(reg[r])]
        /\ pending' = pending \ {r}
        /\ UNCHANGED <<data, org, locals, status, errjmp_ok, pc, end, ptr, field>>

StartScan ==
  /\ pc = "registers"
  /\ pending = {}
  /\ pc' = "scan"
  /\ ptr' = First(org)
  /\ field' = "car"
  /\ UNCHANGED <<memory, data, org, heap, program, errjmp_ok, end, pending>>

ScanCar ==
  /\ pc = "scan" /\ ptr < heap /\ field = "car"
  /\ LET x == IF HasCar(type[ptr]) THEN car[ptr] ELSE NIL IN
     \/ NoRoomFor(x)
     \/ /\ Move(x, IF HasCar(type[ptr]) THEN [car EXCEPT ![ptr] = Target(x)] ELSE car, cdr)
        /\ field' = "cdr"
        /\ UNCHANGED <<data, org, program, errjmp_ok, pc, end, pending, ptr>>

(* Variant: the array's element is not scanned. *)
ScanCdrNotArray ==
  /\ pc = "scan" /\ ptr < heap /\ field = "cdr"
  /\ LET x == IF HasCdr(type[ptr]) /\ type[ptr] # "array" THEN cdr[ptr] ELSE NIL IN
     \/ NoRoomFor(x)
     \/ /\ Move(x, car, IF x = NIL THEN cdr ELSE [cdr EXCEPT ![ptr] = Target(x)])
        /\ field' = "car"
        /\ ptr' = ptr + 1
        /\ UNCHANGED <<data, org, program, errjmp_ok, pc, end, pending>>

ScanCdr ==
  /\ pc = "scan" /\ ptr < heap /\ field = "cdr"
  /\ LET x == IF HasCdr(type[ptr]) THEN cdr[ptr] ELSE NIL IN
     \/ NoRoomFor(x)
     \/ /\ Move(x, car, IF x = NIL THEN cdr ELSE [cdr EXCEPT ![ptr] = Target(x)])
        /\ field' = "car"
        /\ ptr' = ptr + 1
        /\ UNCHANGED <<data, org, program, errjmp_ok, pc, end, pending>>

ScanDone ==
  /\ pc = "scan"
  /\ ptr = heap
  /\ pc' = "free"
  /\ ptr' = First(Old)
  /\ UNCHANGED <<memory, data, org, heap, program, errjmp_ok, end, pending, field>>

(* Variant: the memory of every array is freed. *)
GcFreeAll(c) == type[c] = "array"

(* What the gc_free hook is called for. *)
MustFree(c) == ~fwd[c] /\ type[c] = "array"

siod_free_oldspace ==
  /\ pc = "free"
  /\ ptr < end
  /\ data' = IF MustFree(ptr) THEN data \ {id[ptr]} ELSE data
  /\ ptr' = ptr + 1
  /\ UNCHANGED <<memory, org, heap, program, errjmp_ok, pc, end, pending, field>>

(* The old half is left as it is; nothing reads it before it is written    *)
(* again, and the model forgets its contents.                               *)
Forget(f, v) == [c \in Cells |-> IF c \in Half(Old) THEN v ELSE f[c]]

CollectionDone ==
  /\ pc = "free"
  /\ ptr = end
  /\ errjmp_ok' = TRUE
  /\ pc' = "run"
  /\ type' = Forget(type, "raw") /\ fwd' = Forget(fwd, FALSE)
  /\ car' = Forget(car, NIL) /\ cdr' = Forget(cdr, NIL) /\ id' = Forget(id, NIL)
  /\ end' = 1 /\ ptr' = 1
  /\ UNCHANGED <<data, org, heap, program, pending, field>>

-----------------------------------------------------------------------------
Shape(kind, x, y) == (HasCar(kind) \/ x = NIL) /\ (HasCdr(kind) \/ y = NIL)

Program ==
  \/ \E c \in locals : LoadField(c) \/ Drop(c)
  \/ \E r \in Regs : LoadRegister(r)
  \/ \E r \in Regs, v \in locals \cup {NIL} : StoreRegister(r, v)
  \/ \E c \in locals, v \in locals \cup {NIL} : siod_setcar(c, v) \/ siod_setcdr(c, v)
  \/ \E kind \in Kinds, x, y \in locals \cup {NIL} : Shape(kind, x, y) /\ NEWCELL(kind, x, y)
  \/ siod_gc_status \/ OutOfStorage \/ FormEnds \/ FormStarts

Collector ==
  \/ siod_gc_stop_and_copy
  \/ \E r \in Regs : siod_scan_registers(r)
  \/ StartScan \/ ScanCar \/ ScanCdr \/ ScanDone
  \/ siod_free_oldspace \/ CollectionDone

Next == Program \/ Collector

Spec == Init /\ [][Next]_vars

-----------------------------------------------------------------------------
Words == Cells \cup {NIL}

TypeOK ==
  /\ type \in [Cells -> Kinds \cup {"raw"}]
  /\ fwd \in [Cells -> BOOLEAN]
  /\ car \in [Cells -> Words] /\ cdr \in [Cells -> Words]
  /\ id \in [Cells -> Ids \cup {NIL}] /\ data \in SUBSET Ids
  /\ org \in {0, 1} /\ heap \in First(org) .. HeapEnd
  /\ end \in 1 .. 2 * HeapSize + 1 /\ ptr \in 1 .. 2 * HeapSize + 1
  /\ reg \in [Regs -> Words] /\ locals \in SUBSET Cells
  /\ status \in BOOLEAN /\ errjmp_ok \in BOOLEAN
  /\ pc \in {"run", "repl", "registers", "scan", "free", "exit", "lost"}
  /\ pending \in SUBSET Regs /\ field \in {"car", "cdr"}

(* After a collection nothing the program can get at is left in the old     *)
(* half, which the next collection overwrites.                              *)
NoOldPointer ==
  ~Moving => /\ Roots \subseteq Used
             /\ \A c \in Used : Children(c) \subseteq Used

(* An object is moved once however often it is pointed to, so that what was *)
(* shared stays shared and no object has two copies that drift apart.       *)
CopiedOnce == \A c, d \in InUse : id[c] = id[d] => c = d

(* What is in use always fits into the new half.  *)
CopyFits == pc # "lost"

(* What has been moved is what the registers reach, no more: a collection    *)
(* leaves no garbage.                                                        *)
Compacted == pc = "free" => Used = ReachableFrom(RegRoots)

(* The memory of an array lives as long as the array and no longer: gc_free *)
(* runs once for each array that was not moved and for no other.            *)
MemoryOfArrays == data = {id[c] : c \in {d \in InUse : type[d] = "array"}}

(* Moved or not, the objects are those Store promises. *)
Name(c) == IF c = NIL THEN NIL ELSE id[c]
Object(c) == [type |-> type[c],
              car |-> IF HasCar(type[c]) THEN Name(car[c]) ELSE NIL,
              cdr |-> IF HasCdr(type[c]) THEN Name(cdr[c]) ELSE NIL]
Contents ==
  LET cells == InUse
  IN  [n \in {id[c] : c \in cells} |-> Object(CHOOSE c \in cells : id[c] = n)]
Objects == INSTANCE Store WITH
  Cells <- Ids,
  store <- Contents,
  roots <- {id[c] : c \in Roots}
ImplementsStore == Objects!Spec
=============================================================================
