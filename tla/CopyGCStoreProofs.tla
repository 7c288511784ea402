-------------------------- MODULE CopyGCStoreProofs --------------------------
(***************************************************************************)
(* CopyGC implements Store: seen through the names of the objects, moving   *)
(* them changes nothing, and nothing is reclaimed that can be reached.      *)
(***************************************************************************)
EXTENDS CopyGCProofs

Names == {id[c] : c \in InUse}
StoreRoots == {id[c] : c \in Roots}

LEMMA ChooseIs ==
  ASSUME NEW S, NEW f, \A c, d \in S : f[c] = f[d] => c = d, NEW c \in S
  PROVE  (CHOOSE d \in S : f[d] = f[c]) = c
<1>1. \E d \in S : f[d] = f[c]
  OBVIOUS
<1>2. (CHOOSE d \in S : f[d] = f[c]) \in S /\ f[CHOOSE d \in S : f[d] = f[c]] = f[c]
  BY <1>1
<1>3. QED
  BY <1>2

(* The objects by name. *)
ContentsByName ==
  /\ Contents = [n \in Names |-> Contents[n]]
  /\ DOMAIN Contents = Names
  /\ \A c \in InUse : Contents[id[c]] = Object(c)

LEMMA ContentsNow == CopiedOnce => ContentsByName
<1> SUFFICES ASSUME CopiedOnce PROVE ContentsByName
  OBVIOUS
<1>1. Contents = [n \in Names |-> Object(CHOOSE c \in InUse : id[c] = n)]
  BY DEF Contents, Names
<1>2. ASSUME NEW c \in InUse PROVE Contents[id[c]] = Object(c)
  <2>1. id[c] \in Names
    BY DEF Names
  <2>2. (CHOOSE d \in InUse : id[d] = id[c]) = c
    BY ChooseIs DEF CopiedOnce
  <2>3. QED
    BY <1>1, <2>1, <2>2
<1>3. QED
  BY <1>1, <1>2 DEF ContentsByName

LEMMA ContentsNext == CopiedOnce' => ContentsByName'
BY ContentsNow, PTL

(* The same objects under the same names, in other cells maybe.             *)
LEMMA SameContents ==
  ASSUME CopiedOnce, CopiedOnce',
         \A c \in InUse : \E d \in InUse' : id'[d] = id[c] /\ Object(d)' = Object(c),
         \A d \in InUse' : \E c \in InUse : id'[d] = id[c]
  PROVE  Contents' = Contents
<1>1. Names' = Names
  BY DEF Names
<1>2. ASSUME NEW n \in Names PROVE Contents'[n] = Contents[n]
  <2>1. PICK c \in InUse : id[c] = n
    BY DEF Names
  <2>2. PICK d \in InUse' : id'[d] = id[c] /\ Object(d)' = Object(c)
    BY <2>1
  <2>3. Contents[id[c]] = Object(c)
    BY ContentsNow DEF ContentsByName
  <2>4. Contents'[id'[d]] = Object(d)'
    BY ContentsNext DEF ContentsByName
  <2>5. QED
    BY <2>1, <2>2, <2>3, <2>4
<1>3. Contents = [n \in Names |-> Contents[n]]
  BY ContentsNow DEF ContentsByName
<1>4. Contents' = [n \in Names' |-> Contents'[n]]
  BY ContentsNext DEF ContentsByName
<1>5. QED
  BY <1>1, <1>2, <1>3, <1>4

-----------------------------------------------------------------------------
(* The collector. *)

(* What a cell holds, by name: the words of d afterwards lead to objects of *)
(* the names that those of c led to.                                        *)
LEMMA ObjectSame ==
  ASSUME NEW c, NEW d, type'[d] = type[c],
         HasCar(type[c]) => Name(car[c]) = IF car'[d] = NIL THEN NIL ELSE id'[car'[d]],
         HasCdr(type[c]) => Name(cdr[c]) = IF cdr'[d] = NIL THEN NIL ELSE id'[cdr'[d]]
  PROVE  Object(d)' = Object(c)
<1>1. Object(d)' = [type |-> type'[d],
                    car |-> IF HasCar(type'[d]) THEN (IF car'[d] = NIL THEN NIL ELSE id'[car'[d]]) ELSE NIL,
                    cdr |-> IF HasCdr(type'[d]) THEN (IF cdr'[d] = NIL THEN NIL ELSE id'[cdr'[d]]) ELSE NIL]
  BY DEF Object, Name, HasCar, HasCdr
<1>2. Object(c) = [type |-> type[c], car |-> IF HasCar(type[c]) THEN Name(car[c]) ELSE NIL,
                   cdr |-> IF HasCdr(type[c]) THEN Name(cdr[c]) ELSE NIL]
  BY DEF Object
<1>3. QED
  BY <1>1, <1>2

LEMMA RelocateSame ==
  ASSUME CopyInv, CopyInv', pc \in {"registers", "scan"}, NEW x \in OldCells \cup {NIL},
         NEW cars \in [Cells -> Words], NEW cdrs \in [Cells -> Words],
         \A c \in OldCells : cars[c] = car[c] /\ cdrs[c] = cdr[c],
         \A c \in Used : /\ HasCar(type[c]) => cars[c] = car[c] \/ (car[c] = x /\ cars[c] = Target(x))
                         /\ HasCdr(type[c]) => cdrs[c] = cdr[c] \/ (cdr[c] = x /\ cdrs[c] = Target(x)),
         Move(x, cars, cdrs), UNCHANGED <<data, org, end, pc, locals>>
  PROVE  /\ Contents' = Contents
         /\ \A y \in Used \cup OldCells : id'[y] = id[y]
         /\ x # NIL => Target(x) # NIL /\ id'[Target(x)] = id[x]
         /\ x = NIL => Target(x) = NIL
<1>1. Moving /\ Moving' /\ TypeOK /\ pc' # "free" /\ pc # "free" /\ CopiedOnce /\ CopiedOnce'
  BY DEF Moving, CopyInv
<1>2. /\ OldCells \subseteq Cells /\ Used \subseteq Cells /\ NIL \notin Cells /\ heap \notin Used
      /\ \A c \in Used : c \notin OldCells
      /\ heap < HeapEnd => heap \notin OldCells /\ heap \in Cells
      /\ InUse = Used \cup {c \in OldCells : ~fwd[c]}
  BY <1>1, UsedFacts, MovingFacts DEF CopyInv
<1>3. InUse' = Used' \cup {c \in OldCells : ~fwd'[c]}
  <2>1. OldCells = {c \in Half(Old) : c < end} /\ Half(Old)' = Half(Old)
    <3>1. OldCells = {c \in Half(Old) : c < end}
      <4>1. Half(Old) = First(Old) .. First(Old) + HeapSize - 1
        BY <1>1, MovingInt, HalfFacts
      <4>2. /\ end \in First(Old) .. First(Old) + HeapSize /\ end \in Nat
            /\ First(Old) \in Nat /\ HeapSize \in Nat
        BY <1>1, MovingInt
      <4>3. QED
        BY <4>1, <4>2 DEF OldCells
    <3>2. Half(Old)' = Half(Old)
      BY DEF Old, Half
    <3>3. QED
      BY <3>1, <3>2
  <2>2. Unmoved' = {c \in Half(Old) : c < end /\ ~fwd'[c]}
    BY <1>1, <2>1 DEF Unmoved
  <2>3. QED
    BY <2>1, <2>2 DEF InUse
<1>4. \A c \in OldCells : /\ fwd[c] => car[c] \in Used /\ id[car[c]] = id[c]
                          /\ ~fwd[c] => Children(c) \subseteq OldCells
  BY <1>1 DEF CopyInv, OldOK
<1>5. \A c \in Used : Children(c) \subseteq Used \cup OldCells
  <2>1. ASSUME NEW c \in Used PROVE Relocated(c) \subseteq Used /\ NotRelocated(c) \subseteq OldCells
    BY <1>1 DEF CopyInv, NewOK
  <2>2. ASSUME NEW c \in Used PROVE Children(c) = Relocated(c) \cup NotRelocated(c)
    BY DEF Children, Relocated, NotRelocated
  <2>3. QED
    BY <2>1, <2>2
<1>6. \A c \in InUse : Children(c) \subseteq Used \cup OldCells
  BY <1>2, <1>4, <1>5
<1>7. CASE ~MustMove(x)
  <2>1. car' = cars /\ cdr' = cdrs /\ UNCHANGED <<type, fwd, id, heap>>
    BY <1>7 DEF Move
  <2>2. InUse' = InUse
    BY <1>2, <1>3, <2>1 DEF Used, First
  <2>3. Target(x) = IF x = NIL THEN NIL ELSE car[x]
    BY <1>7 DEF Target
  <2>4. x # NIL => Target(x) # NIL /\ id[Target(x)] = id[x]
    BY <1>2, <1>4, <1>7, <2>3 DEF MustMove
  <2>5. x = NIL => Target(x) = NIL
    BY <2>3
  <2>6. ASSUME NEW c \in InUse PROVE Object(c)' = Object(c)
    <3>1. HasCar(type[c]) => car'[c] = car[c] \/ (car[c] = x /\ car'[c] = Target(x))
      BY <1>2, <2>1
    <3>2. HasCdr(type[c]) => cdr'[c] = cdr[c] \/ (cdr[c] = x /\ cdr'[c] = Target(x))
      BY <1>2, <2>1
    <3>3. HasCar(type[c]) => Name(car[c]) = IF car'[c] = NIL THEN NIL ELSE id'[car'[c]]
      BY <2>1, <2>4, <2>5, <3>1 DEF Name
    <3>4. HasCdr(type[c]) => Name(cdr[c]) = IF cdr'[c] = NIL THEN NIL ELSE id'[cdr'[c]]
      BY <2>1, <2>4, <2>5, <3>2 DEF Name
    <3>5. QED
      BY <2>1, <3>3, <3>4, ObjectSame
  <2>7. Contents' = Contents
    BY <1>1, <2>1, <2>2, <2>6, SameContents
  <2>8. QED
    BY <2>1, <2>4, <2>5, <2>7
<1>8. CASE MustMove(x)
  <2>1. /\ heap < HeapEnd /\ x \in OldCells /\ ~fwd[x] /\ x # NIL
        /\ type' = [type EXCEPT ![heap] = type[x]]
        /\ id' = [id EXCEPT ![heap] = id[x]]
        /\ fwd' = [fwd EXCEPT ![heap] = FALSE, ![x] = TRUE]
        /\ car' = [cars EXCEPT ![heap] = car[x], ![x] = heap]
        /\ cdr' = [cdrs EXCEPT ![heap] = cdr[x]]
        /\ heap' = heap + 1
    BY <1>8 DEF Move, MustMove
  <2>2. heap \in Cells /\ heap \notin OldCells /\ heap # x /\ heap # NIL
    BY <1>2, <2>1
  <2>3. Used' = Used \cup {heap}
    BY <1>1, <2>1, MovingInt DEF Used, First
  <2>4. Target(x) = heap
    BY <1>8 DEF Target
  <2>5. /\ type'[heap] = type[x] /\ id'[heap] = id[x] /\ ~fwd'[heap] /\ car'[heap] = car[x] /\ cdr'[heap] = cdr[x]
        /\ fwd'[x]
        /\ \A c \in Cells : c # heap =>
             /\ type'[c] = type[c] /\ id'[c] = id[c] /\ cdr'[c] = cdrs[c]
             /\ (c # x => fwd'[c] = fwd[c] /\ car'[c] = cars[c])
    BY <1>1, <1>2, <2>1, <2>2 DEF TypeOK
  <2>6. \A y \in Used \cup OldCells : y \in Cells /\ y # heap /\ y # NIL /\ id'[y] = id[y]
    <3>1. \A y \in Used \cup OldCells : y \in Cells /\ y # heap
      BY <1>2, <2>2
    <3>2. QED
      BY <1>2, <2>5, <3>1
  <2>7. InUse' = (InUse \ {x}) \cup {heap} /\ x \in InUse /\ x \notin Used
    <3>1. \A c \in OldCells : ~fwd'[c] <=> (~fwd[c] /\ c # x)
      BY <2>5, <2>6
    <3>2. {c \in OldCells : ~fwd'[c]} = {c \in OldCells : ~fwd[c]} \ {x}
      BY <3>1
    <3>3. x \notin Used /\ x \in InUse
      BY <1>2, <2>1
    <3>4. QED
      BY <1>2, <1>3, <2>3, <3>2, <3>3
  <2>8. ASSUME NEW c \in InUse, c # x PROVE id'[c] = id[c] /\ Object(c)' = Object(c)
    <3>1. c \in Used \cup OldCells /\ c # heap /\ c \in Cells
      BY <1>2, <2>6
    <3>2. type'[c] = type[c] /\ id'[c] = id[c] /\ car'[c] = cars[c] /\ cdr'[c] = cdrs[c]
      BY <2>5, <2>8, <3>1
    <3>3. HasCar(type[c]) => car'[c] = car[c] \/ (car[c] = x /\ car'[c] = heap)
      BY <2>4, <3>1, <3>2
    <3>4. HasCdr(type[c]) => cdr'[c] = cdr[c] \/ (cdr[c] = x /\ cdr'[c] = heap)
      BY <2>4, <3>1, <3>2
    <3>5. HasCar(type[c]) /\ car[c] # NIL => car[c] \in Used \cup OldCells
      BY <1>6 DEF Children
    <3>6. HasCdr(type[c]) /\ cdr[c] # NIL => cdr[c] \in Used \cup OldCells
      BY <1>6 DEF Children
    <3>7. HasCar(type[c]) => Name(car[c]) = IF car'[c] = NIL THEN NIL ELSE id'[car'[c]]
      <4>1. CASE car'[c] = car[c]
        BY <2>6, <3>5, <4>1 DEF Name
      <4>2. CASE car[c] = x /\ car'[c] = heap
        BY <2>1, <2>2, <2>5, <4>2 DEF Name
      <4>3. QED
        BY <3>3, <4>1, <4>2
    <3>8. HasCdr(type[c]) => Name(cdr[c]) = IF cdr'[c] = NIL THEN NIL ELSE id'[cdr'[c]]
      <4>1. CASE cdr'[c] = cdr[c]
        BY <2>6, <3>6, <4>1 DEF Name
      <4>2. CASE cdr[c] = x /\ cdr'[c] = heap
        BY <2>1, <2>2, <2>5, <4>2 DEF Name
      <4>3. QED
        BY <3>4, <4>1, <4>2
    <3>9. QED
      BY <3>2, <3>7, <3>8, ObjectSame
  <2>9. \E d \in InUse' : id'[d] = id[x] /\ Object(d)' = Object(x)
    <3>1. ASSUME NEW d, d = heap PROVE Object(d)' = Object(x)
      <4>1. type'[d] = type[x] /\ car'[d] = car[x] /\ cdr'[d] = cdr[x]
        BY <2>5, <3>1
      <4>2. HasCar(type[x]) /\ car[x] # NIL => car[x] \in Used \cup OldCells
        BY <1>6, <2>7 DEF Children
      <4>3. HasCdr(type[x]) /\ cdr[x] # NIL => cdr[x] \in Used \cup OldCells
        BY <1>6, <2>7 DEF Children
      <4>4. HasCar(type[x]) => Name(car[x]) = IF car'[d] = NIL THEN NIL ELSE id'[car'[d]]
        BY <2>6, <4>1, <4>2 DEF Name
      <4>5. HasCdr(type[x]) => Name(cdr[x]) = IF cdr'[d] = NIL THEN NIL ELSE id'[cdr'[d]]
        BY <2>6, <4>1, <4>3 DEF Name
      <4>6. QED
        BY <4>1, <4>4, <4>5, ObjectSame
    <3>2. QED
      BY <2>5, <2>7, <3>1
  <2>10. Contents' = Contents
    <3>1. ASSUME NEW c \in InUse PROVE \E d \in InUse' : id'[d] = id[c] /\ Object(d)' = Object(c)
      <4>1. CASE c = x
        BY <2>9, <4>1
      <4>2. CASE c # x
        BY <2>7, <2>8, <4>2
      <4>3. QED
        BY <4>1, <4>2
    <3>2. ASSUME NEW d \in InUse' PROVE \E c \in InUse : id'[d] = id[c]
      <4>1. CASE d = heap
        BY <2>5, <2>7, <4>1
      <4>2. CASE d # heap
        BY <2>7, <2>8, <4>2
      <4>3. QED
        BY <4>1, <4>2
    <3>3. QED
      BY <1>1, <3>1, <3>2, SameContents
  <2>11. QED
    BY <2>1, <2>2, <2>4, <2>5, <2>6, <2>10
<1>9. QED
  BY <1>7, <1>8

(* The names of the roots, in a state where the C frames hold nothing.      *)
LEMMA RootsWhileMoving ==
  ASSUME CopyInv, Moving
  PROVE  StoreRoots = {id[reg[r]] : r \in {q \in Regs : reg[q] # NIL}}
<1>1. locals = {}
  BY DEF CopyInv, LocalsOK, Moving
<1>2. Roots = {reg[r] : r \in {q \in Regs : reg[q] # NIL}}
  BY <1>1 DEF Roots, RegRoots
<1>3. QED
  BY <1>2 DEF StoreRoots

StoreUnchanged == UNCHANGED <<Contents, StoreRoots>>

LEMMA SameRegisters ==
  ASSUME CopyInv, CopyInv', Moving, locals' = {},
         \A r \in Regs : reg'[r] = NIL <=> reg[r] = NIL,
         \A r \in Regs : reg[r] # NIL => id'[reg'[r]] = id[reg[r]]
  PROVE  StoreRoots' = StoreRoots
<1>1. StoreRoots = {id[reg[r]] : r \in {q \in Regs : reg[q] # NIL}}
  BY RootsWhileMoving
<1>2. Roots' = {reg'[r] : r \in {q \in Regs : reg'[q] # NIL}}
  BY DEF Roots, RegRoots
<1>3. StoreRoots' = {id'[reg'[r]] : r \in {q \in Regs : reg'[q] # NIL}}
  BY <1>2 DEF StoreRoots
<1>4. QED
  BY <1>1, <1>3

LEMMA ScanRegisterSame ==
  ASSUME CopyInv, CopyInv', NEW r \in Regs, siod_scan_registers(r)
  PROVE  StoreUnchanged
<1> DEFINE x == reg[r]
<1>1. pc = "registers" /\ r \in pending /\ Moving /\ TypeOK
  BY DEF siod_scan_registers, CopyInv, Moving
<1>2. x \in OldCells \cup {NIL}
  BY <1>1 DEF CopyInv, NewOK
<1>3. ~NoRoomFor(x)
  BY <1>1, <1>2, RoomToMove
<1>4. /\ Move(x, car, cdr)
      /\ reg' = [reg EXCEPT ![r] = Target(x)]
      /\ pending' = pending \ {r}
      /\ UNCHANGED <<data, org, locals, status, errjmp_ok, pc, end, ptr, field>>
  BY <1>3 DEF siod_scan_registers
<1>5. car \in [Cells -> Words] /\ cdr \in [Cells -> Words]
  BY <1>1 DEF TypeOK
<1> HIDE DEF x
<1>6. /\ Contents' = Contents
      /\ \A y \in Used \cup OldCells : id'[y] = id[y]
      /\ x # NIL => Target(x) # NIL /\ id'[Target(x)] = id[x]
      /\ x = NIL => Target(x) = NIL
  BY <1>1, <1>2, <1>4, <1>5, RelocateSame
<1>7. \A q \in Regs : reg'[q] = IF q = r THEN Target(x) ELSE reg[q]
  BY <1>1, <1>4 DEF TypeOK
<1>8. \A q \in Regs : reg[q] # NIL => reg[q] \in Used \cup OldCells
  BY <1>1 DEF CopyInv, NewOK
<1>9. locals' = {}
  BY <1>1, <1>4 DEF CopyInv, LocalsOK
<1>10. \A q \in Regs : (reg'[q] = NIL <=> reg[q] = NIL) /\ (reg[q] # NIL => id'[reg'[q]] = id[reg[q]])
  BY <1>6, <1>7, <1>8 DEF x
<1>11. QED
  BY <1>1, <1>6, <1>9, <1>10, SameRegisters DEF StoreUnchanged

(* Registers lead to where they led. *)
LEMMA RegistersStay ==
  ASSUME CopyInv, CopyInv', Moving, UNCHANGED <<reg, locals>>,
         \A y \in Used \cup OldCells : id'[y] = id[y]
  PROVE  StoreRoots' = StoreRoots
<1>1. \A q \in Regs : reg[q] # NIL => reg[q] \in Used \cup OldCells
  BY DEF CopyInv, NewOK
<1>2. locals' = {}
  BY DEF CopyInv, LocalsOK, Moving
<1>3. QED
  BY <1>1, <1>2, SameRegisters

LEMMA TargetIsWord ==
  ASSUME CopyInv, pc = "scan", NEW x \in OldCells \cup {NIL}, MustMove(x) => heap < HeapEnd
  PROVE  Target(x) \in Words
<1>1. Moving /\ TypeOK
  BY DEF Moving, CopyInv
<1>2. x \in OldCells => (fwd[x] => car[x] \in Used)
  BY <1>1 DEF CopyInv, OldOK
<1>3. (MustMove(x) => heap \in Cells) /\ Used \subseteq Cells
  BY <1>1, UsedFacts
<1>4. QED
  BY <1>2, <1>3 DEF Target, MustMove, Words

LEMMA ScanCarSame == ASSUME CopyInv, CopyInv', ScanCar PROVE StoreUnchanged
<1> DEFINE x == IF HasCar(type[ptr]) THEN car[ptr] ELSE NIL
           cars == IF HasCar(type[ptr]) THEN [car EXCEPT ![ptr] = Target(x)] ELSE car
<1>1. pc = "scan" /\ ptr < heap /\ field = "car" /\ Moving /\ TypeOK
  BY DEF ScanCar, CopyInv, Moving
<1>2. ptr \in Used /\ ptr \in Nat /\ Used \subseteq Cells /\ \A c \in Used : c \notin OldCells
  <2>1. ptr \in First(org) .. heap
    BY <1>1 DEF CopyInv, CursorsOK
  <2>2. First(org) \in Nat /\ heap \in Nat
    BY <1>1, MovingInt
  <2>3. QED
    BY <1>1, <2>1, <2>2, UsedFacts, MovingFacts DEF Used, CopyInv
<1>3. x \in OldCells \cup {NIL}
  <2>1. NotRelocated(ptr) \subseteq OldCells
    BY <1>1, <1>2 DEF CopyInv, NewOK
  <2>2. ~CarDone(ptr)
    BY <1>1, <1>2 DEF CarDone
  <2>3. QED
    BY <2>1, <2>2 DEF NotRelocated
<1>4. ~NoRoomFor(x)
  BY <1>1, <1>3, RoomToMove
<1>5. Move(x, cars, cdr) /\ UNCHANGED <<data, org, program, errjmp_ok, pc, end, pending, ptr>>
  BY <1>4 DEF ScanCar
<1>6. Target(x) \in Words
  BY <1>1, <1>3, <1>5, TargetIsWord DEF Move
<1>7. cars \in [Cells -> Words] /\ cdr \in [Cells -> Words]
  BY <1>1, <1>2, <1>6 DEF TypeOK
<1>8. /\ \A c \in OldCells : cars[c] = car[c]
      /\ \A c \in Used : HasCar(type[c]) => cars[c] = car[c] \/ (car[c] = x /\ cars[c] = Target(x))
  <2>1. OldCells \subseteq Cells
    BY <1>1, MovingFacts DEF CopyInv
  <2>2. QED
    BY <1>1, <1>2, <2>1 DEF TypeOK
<1> HIDE DEF x, cars
<1>9. Contents' = Contents /\ \A y \in Used \cup OldCells : id'[y] = id[y]
  BY <1>1, <1>3, <1>5, <1>7, <1>8, RelocateSame DEF program
<1>10. StoreRoots' = StoreRoots
  BY <1>1, <1>5, <1>9, RegistersStay DEF program
<1>11. QED
  BY <1>9, <1>10 DEF StoreUnchanged

LEMMA ScanCdrSame == ASSUME CopyInv, CopyInv', ScanCdr PROVE StoreUnchanged
<1> DEFINE x == IF HasCdr(type[ptr]) THEN cdr[ptr] ELSE NIL
           cdrs == IF x = NIL THEN cdr ELSE [cdr EXCEPT ![ptr] = Target(x)]
<1>1. pc = "scan" /\ ptr < heap /\ field = "cdr" /\ Moving /\ TypeOK
  BY DEF ScanCdr, CopyInv, Moving
<1>2. ptr \in Used /\ ptr \in Nat /\ Used \subseteq Cells /\ \A c \in Used : c \notin OldCells
  <2>1. ptr \in First(org) .. heap
    BY <1>1 DEF CopyInv, CursorsOK
  <2>2. First(org) \in Nat /\ heap \in Nat
    BY <1>1, MovingInt
  <2>3. QED
    BY <1>1, <2>1, <2>2, UsedFacts, MovingFacts DEF Used, CopyInv
<1>3. x \in OldCells \cup {NIL}
  <2>1. NotRelocated(ptr) \subseteq OldCells
    BY <1>1, <1>2 DEF CopyInv, NewOK
  <2>2. ~CdrDone(ptr)
    BY <1>1, <1>2 DEF CdrDone
  <2>3. QED
    BY <2>1, <2>2 DEF NotRelocated
<1>4. ~NoRoomFor(x)
  BY <1>1, <1>3, RoomToMove
<1>5. Move(x, car, cdrs) /\ UNCHANGED <<data, org, program, errjmp_ok, pc, end, pending>>
  BY <1>4 DEF ScanCdr
<1>6. Target(x) \in Words
  BY <1>1, <1>3, <1>5, TargetIsWord DEF Move
<1>7. car \in [Cells -> Words] /\ cdrs \in [Cells -> Words]
  BY <1>1, <1>2, <1>6 DEF TypeOK
<1>8. /\ \A c \in OldCells : cdrs[c] = cdr[c]
      /\ \A c \in Used : HasCdr(type[c]) => cdrs[c] = cdr[c] \/ (cdr[c] = x /\ cdrs[c] = Target(x))
  <2>1. OldCells \subseteq Cells
    BY <1>1, MovingFacts DEF CopyInv
  <2>2. QED
    BY <1>1, <1>2, <2>1 DEF TypeOK
<1> HIDE DEF x, cdrs
<1>9. Contents' = Contents /\ \A y \in Used \cup OldCells : id'[y] = id[y]
  BY <1>1, <1>3, <1>5, <1>7, <1>8, RelocateSame DEF program
<1>10. StoreRoots' = StoreRoots
  BY <1>1, <1>5, <1>9, RegistersStay DEF program
<1>11. QED
  BY <1>9, <1>10 DEF StoreUnchanged

LEMMA StartSame == ASSUME CopyInv, CopyInv', siod_gc_stop_and_copy PROVE StoreUnchanged
<1>1. ~Moving /\ UNCHANGED <<memory, program>> /\ TypeOK /\ end' = heap /\ org' = Old /\ heap' = First(Old)
      /\ Moving' /\ pc' = "registers"
  BY DEF CopyInv, siod_gc_stop_and_copy, siod_get_newspace, Moving
<1>2. InUse' = InUse
  <2>1. /\ org \in {0, 1} /\ heap \in First(org) .. First(org) + HeapSize /\ Old \in {0, 1} /\ 1 - Old = org
        /\ First(org) \in Nat /\ First(Old) \in Nat /\ HeapSize \in Nat
    BY <1>1, HalfFacts DEF TypeOK
  <2>2. Half(Old)' = Half(org) /\ Used' = {}
    BY <1>1, <2>1 DEF Old, Half, Used, First
  <2>3. Half(org) = First(org) .. First(org) + HeapSize - 1
    BY <2>1, HalfIs
  <2>4. Used = {c \in Half(org) : c < heap}
    BY <2>1, <2>3 DEF Used
  <2>5. Unmoved' = {c \in Half(org) : c < heap /\ ~fwd[c]}
    BY <1>1, <2>2 DEF Unmoved, memory
  <2>6. \A c \in Used : ~fwd[c]
    BY DEF CopyInv, CellsOK
  <2>7. QED
    BY <1>1, <2>2, <2>4, <2>5, <2>6, QuietFacts DEF InUse
<1>3. Contents' = Contents
  BY <1>1, <1>2 DEF Contents, Object, Name, memory
<1>4. StoreRoots' = StoreRoots
  BY <1>1 DEF StoreRoots, Roots, RegRoots, memory, program
<1>5. QED
  BY <1>3, <1>4 DEF StoreUnchanged

LEMMA CursorSame ==
  ASSUME CopyInv, CopyInv', StartScan \/ ScanDone
  PROVE  StoreUnchanged
<1>1. UNCHANGED <<memory, program, org, heap, end>> /\ Moving /\ Moving'
      /\ (pc' = "free" => pc = "scan" /\ ptr' = First(Old)) /\ pc # "free"
  BY DEF StartScan, ScanDone, Moving
<1>2. InUse' = InUse
  <2>1. \A c \in OldCells : c >= First(Old)
    BY <1>1, MovingInt DEF OldCells
  <2>2. QED
    BY <1>1, <2>1, InUseNow, InUseNext
<1>3. Contents' = Contents
  BY <1>1, <1>2 DEF Contents, Object, Name, memory
<1>4. StoreRoots' = StoreRoots
  BY <1>1 DEF StoreRoots, Roots, RegRoots, memory, program
<1>5. QED
  BY <1>3, <1>4 DEF StoreUnchanged

LEMMA DoneSame == ASSUME CopyInv, CopyInv', CollectionDone PROVE StoreUnchanged
<1>1. pc = "free" /\ ptr = end /\ Moving /\ ~Moving' /\ UNCHANGED <<org, heap, program>> /\ TypeOK
  BY DEF CollectionDone, Moving, CopyInv
<1>2. /\ type' = Forget(type, "raw") /\ car' = Forget(car, NIL) /\ cdr' = Forget(cdr, NIL)
      /\ id' = Forget(id, NIL)
  BY DEF CollectionDone
<1>3. ASSUME NEW c \in Used
      PROVE  type'[c] = type[c] /\ id'[c] = id[c] /\ car'[c] = car[c] /\ cdr'[c] = cdr[c] /\ c # NIL
  <2>1. c \in Cells /\ c \notin Half(Old) /\ c # NIL
    BY <1>1, UsedFacts
  <2>2. QED
    BY <1>2, <2>1 DEF Forget
<1>4. InUse = Used /\ InUse' = Used
  <2>1. {c \in OldCells : ~fwd[c] /\ (pc = "free" => c >= ptr)} = {}
    BY <1>1, MovingInt DEF OldCells
  <2>2. InUse = Used
    BY <1>1, <2>1, InUseNow
  <2>3. Used' = Used
    BY <1>1 DEF Used, First
  <2>4. QED
    BY <1>1, <2>2, <2>3 DEF InUse, Unmoved
<1>5. ASSUME NEW c \in Used PROVE Children(c) \subseteq Used
  <2>1. Relocated(c) \subseteq Used
    BY <1>1 DEF CopyInv, NewOK
  <2>2. Relocated(c) = Children(c)
    BY <1>1 DEF Children, Relocated, CarDone, CdrDone
  <2>3. QED
    BY <2>1, <2>2
<1>6. ASSUME NEW c \in Used PROVE Object(c)' = Object(c)
  <2>1. HasCar(type[c]) /\ car[c] # NIL => car[c] \in Used
    BY <1>5 DEF Children
  <2>2. HasCdr(type[c]) /\ cdr[c] # NIL => cdr[c] \in Used
    BY <1>5 DEF Children
  <2>3. HasCar(type[c]) => Name(car[c]) = IF car'[c] = NIL THEN NIL ELSE id'[car'[c]]
    BY <1>3, <2>1 DEF Name
  <2>4. HasCdr(type[c]) => Name(cdr[c]) = IF cdr'[c] = NIL THEN NIL ELSE id'[cdr'[c]]
    BY <1>3, <2>2 DEF Name
  <2>5. QED
    BY <1>3, <2>3, <2>4, ObjectSame
<1>7. Contents' = Contents
  BY <1>3, <1>4, <1>6, SameContents DEF CopyInv
<1>8. \A q \in Regs : reg[q] # NIL => reg[q] \in Used
  BY <1>1 DEF CopyInv, NewOK, CursorsOK
<1>9. locals' = {} /\ reg' = reg
  BY <1>1 DEF CopyInv, LocalsOK, program
<1>10. StoreRoots' = StoreRoots
  BY <1>1, <1>3, <1>8, <1>9, SameRegisters
<1>11. QED
  BY <1>7, <1>10 DEF StoreUnchanged

(* siod_free_oldspace reclaims what was not moved, and no root leads there. *)
LEMMA FreeReclaims ==
  ASSUME CopyInv, CopyInv', siod_free_oldspace
  PROVE  StoreUnchanged \/ \E n \in Ids : Objects!Reclaim(n)
<1>1. pc = "free" /\ pc' = "free" /\ ptr < end /\ ptr' = ptr + 1 /\ Moving /\ Moving' /\ TypeOK
      /\ UNCHANGED <<memory, org, heap, program, end>>
  BY DEF siod_free_oldspace, Moving, CopyInv
<1>2. ptr \in OldCells
  BY <1>1, MovingInt DEF OldCells, CopyInv, CursorsOK
<1>3. InUse' = IF fwd[ptr] THEN InUse ELSE InUse \ {ptr}
  <2>1. \A c \in OldCells : c >= ptr' <=> (c >= ptr /\ c # ptr)
    BY <1>1, MovingInt DEF OldCells
  <2>2. \A c \in Used : c # ptr
    BY <1>1, <1>2, MovingFacts DEF CopyInv
  <2>3. InUse' = Used \cup {c \in OldCells : ~fwd[c] /\ c >= ptr /\ c # ptr}
    BY <1>1, <2>1, InUseNext
  <2>4. InUse = Used \cup {c \in OldCells : ~fwd[c] /\ c >= ptr}
    BY <1>1, InUseNow
  <2>5. QED
    BY <2>2, <2>3, <2>4
<1>4. StoreRoots' = StoreRoots
  BY <1>1 DEF StoreRoots, Roots, RegRoots, memory, program
<1>5. CASE fwd[ptr]
  <2>1. Contents' = Contents
    BY <1>1, <1>3, <1>5 DEF Contents, Object, Name, memory
  <2>2. QED
    BY <1>4, <2>1 DEF StoreUnchanged
<1>6. CASE ~fwd[ptr]
  <2> DEFINE n == id[ptr]
  <2>1. ptr \in InUse /\ ptr \notin Used /\ Used \subseteq InUse
    BY <1>1, <1>2, <1>6, MovingInt, InUseNow, MovingFacts DEF CopyInv
  <2>2. \A c, d \in InUse : id[c] = id[d] => c = d
    BY DEF CopyInv, CopiedOnce
  <2>3. n \in Ids /\ \A c \in InUse : id[c] \in Ids
    BY <1>1, <1>2, InUseNow DEF CopyInv, CellsOK, OldOK
  <2>4. Names' = Names \ {n} /\ n \in Names
    <3>1. Names' = {id[c] : c \in InUse \ {ptr}}
      BY <1>1, <1>3, <1>6 DEF Names, memory
    <3>2. QED
      BY <2>1, <2>2, <3>1 DEF Names
  <2>5. ContentsByName /\ ContentsByName'
    BY ContentsNow, ContentsNext DEF CopyInv
  <2>6. Contents' = [m \in DOMAIN Contents \ {n} |-> Contents[m]]
    <3>1. ASSUME NEW m \in Names' PROVE Contents'[m] = Contents[m]
      <4>1. PICK c \in InUse' : id'[c] = m
        BY <3>1 DEF Names
      <4>2. c \in InUse /\ id[c] = m
        BY <1>1, <1>3, <1>6, <4>1 DEF memory
      <4>3. Contents'[m] = Object(c)' /\ Contents[m] = Object(c)
        BY <2>5, <4>1, <4>2 DEF ContentsByName
      <4>4. Object(c)' = Object(c)
        BY <1>1 DEF Object, Name, memory
      <4>5. QED
        BY <4>3, <4>4
    <3>2. Contents' = [m \in Names' |-> Contents'[m]] /\ DOMAIN Contents = Names
      BY <2>5 DEF ContentsByName
    <3> HIDE DEF n
    <3>3. QED
      BY <2>4, <3>1, <3>2
  <2>7. n \notin Objects!Reachable
    <3> DEFINE S == {id[c] : c \in Used}
    <3>1. S \in SUBSET Ids /\ n \notin S
      BY <2>1, <2>2, <2>3
    <3>2. StoreRoots \subseteq S
      <4>1. \A q \in Regs : reg[q] # NIL => reg[q] \in Used
        BY <1>1 DEF CopyInv, NewOK, CursorsOK
      <4>2. QED
        BY <1>1, <4>1, RootsWhileMoving
    <3>3. ASSUME NEW m \in S \cap DOMAIN Contents PROVE Objects!Fields(Contents[m]) \subseteq S
      <4>1. PICK c \in Used : id[c] = m
        OBVIOUS
      <4>2. Contents[m] = Object(c)
        BY <2>1, <2>5, <4>1 DEF ContentsByName
      <4>3. Children(c) \subseteq Used
        <5>1. Relocated(c) \subseteq Used
          BY <1>1 DEF CopyInv, NewOK
        <5>2. Relocated(c) = Children(c)
          BY <1>1 DEF Children, Relocated, CarDone, CdrDone
        <5>3. QED
          BY <5>1, <5>2
      <4>4. HasCar(type[c]) /\ car[c] # NIL => car[c] \in Used
        BY <4>3 DEF Children
      <4>5. HasCdr(type[c]) /\ cdr[c] # NIL => cdr[c] \in Used
        BY <4>3 DEF Children
      <4>6. Object(c).car \in {NIL} \cup S /\ Object(c).cdr \in {NIL} \cup S
        BY <4>4, <4>5 DEF Object, Name
      <4>7. QED
        BY <4>2, <4>6 DEF Objects!Fields
    <3> HIDE DEF S
    <3>4. S \in Objects!ClosedSets
      BY <3>1, <3>2, <3>3 DEF Objects!ClosedSets, StoreRoots
    <3>5. QED
      BY <3>1, <3>4 DEF Objects!Reachable
  <2> HIDE DEF n
  <2>8. n \in DOMAIN Contents
    BY <2>4, <2>5 DEF ContentsByName
  <2>9. Objects!Reclaim(n)
    BY <1>4, <2>6, <2>7, <2>8 DEF Objects!Reclaim, StoreRoots
  <2>10. QED
    BY <2>3, <2>9 DEF n
<1>7. QED
  BY <1>5, <1>6

-----------------------------------------------------------------------------
(* The program. *)

LEMMA QuietSame ==
  ASSUME ~Moving, ~Moving', UNCHANGED <<type, car, cdr, id, org, heap>>
  PROVE  Contents' = Contents
<1>1. InUse = Used /\ InUse' = Used
  BY DEF InUse, Unmoved, Used, First
<1>2. QED
  BY <1>1 DEF Contents, Object, Name

(* What is reached by name. *)
LEMMA ReachFacts ==
  ASSUME CopyInv, ~Moving
  PROVE  /\ StoreRoots \subseteq Objects!Reachable
         /\ \A c \in Used : /\ id[c] \in Ids /\ id[c] # NIL /\ c # NIL
                            /\ id[c] \in Objects!Reachable =>
                                 \A y \in Children(c) : y \in Used /\ id[y] \in Objects!Reachable
         /\ Roots \subseteq Used
         /\ Names \subseteq Ids /\ Names = {id[c] : c \in Used} /\ ContentsByName /\ InUse = Used
<1>1. InUse = Used /\ Roots \subseteq Used /\ \A c \in Used : Children(c) \subseteq Used
  BY QuietFacts DEF CopyInv, NoOldPointer
<1>2. \A c \in Used : id[c] \in Ids /\ id[c] # NIL /\ c # NIL
  <2>1. \A c \in Used : id[c] \in Ids
    BY DEF CopyInv, CellsOK
  <2>2. \A c \in Used : c # NIL
    BY UsedFacts DEF CopyInv
  <2>3. NIL \notin Ids
    BY DEF Ids, NIL
  <2>4. QED
    BY <2>1, <2>2, <2>3
<1>3. Names \subseteq Ids /\ Names = {id[c] : c \in Used}
  BY <1>1, <1>2 DEF Names
<1>4. ContentsByName
  BY ContentsNow DEF CopyInv
<1>5. StoreRoots \subseteq Objects!Reachable
  <2>1. StoreRoots \subseteq Ids
    BY <1>1, <1>2 DEF StoreRoots
  <2>2. QED
    BY <2>1 DEF Objects!Reachable, Objects!ClosedSets, StoreRoots
<1>6. ASSUME NEW c \in Used, id[c] \in Objects!Reachable, NEW y \in Children(c)
      PROVE  id[y] \in Objects!Reachable
  <2>1. y \in Used /\ id[y] \in Ids /\ id[y] # NIL /\ y # NIL
    BY <1>1, <1>2
  <2>2. id[c] \in DOMAIN Contents /\ Contents[id[c]] = Object(c)
    BY <1>1, <1>3, <1>4 DEF ContentsByName
  <2>3. id[y] \in {Object(c).car, Object(c).cdr}
    BY <2>1 DEF Children, Object, Name
  <2>4. id[y] \in Objects!Fields(Contents[id[c]])
    BY <2>1, <2>2, <2>3 DEF Objects!Fields
  <2>5. ASSUME NEW S \in Objects!ClosedSets PROVE id[y] \in S
    <3>1. id[c] \in S
      BY <1>6 DEF Objects!Reachable
    <3>2. QED
      BY <2>2, <2>4, <3>1 DEF Objects!ClosedSets
  <2>6. QED
    BY <2>1, <2>5 DEF Objects!Reachable
<1>7. QED
  BY <1>1, <1>2, <1>3, <1>4, <1>5, <1>6

(* Reading fields and dropping pointers. *)
LEMMA MoveIf ==
  ASSUME CopyInv, ~Moving, ~Moving', UNCHANGED <<memory, org, heap>>,
         \A c \in Roots' : id[c] \in Objects!Reachable
  PROVE  Objects!Move
<1>1. Contents' = Contents
  BY QuietSame DEF memory
<1>2. StoreRoots' \subseteq Objects!Reachable
  BY DEF StoreRoots, memory
<1>3. QED
  BY <1>1, <1>2 DEF Objects!Move, StoreRoots

LEMMA RootsReached ==
  ASSUME CopyInv, ~Moving
  PROVE  \A c \in Roots : c \in Used /\ id[c] \in StoreRoots /\ id[c] \in Objects!Reachable
BY ReachFacts DEF StoreRoots

LEMMA HoldMoves ==
  ASSUME CopyInv, NEW v, v # NIL => id[v] \in Objects!Reachable, Hold(v)
  PROVE  Objects!Move
<1>1. ~Moving /\ ~Moving' /\ UNCHANGED <<memory, org, heap, reg>> /\ locals' = locals \cup {v} /\ v # NIL
  BY DEF Hold, Moving
<1>2. \A c \in Roots' : c \in Roots \/ c = v
  BY <1>1 DEF Roots, RegRoots
<1>3. QED
  BY <1>1, <1>2, MoveIf, RootsReached

LEMMA LoadMoves ==
  ASSUME CopyInv,
         (\E c \in locals : LoadField(c) \/ Drop(c)) \/ (\E r \in Regs : LoadRegister(r))
  PROVE  Objects!Move
<1>1. ASSUME NEW c \in locals, LoadField(c) PROVE Objects!Move
  <2>1. PICK v \in Children(c) : Hold(v)
    BY <1>1 DEF LoadField
  <2>2. ~Moving /\ c \in Roots
    BY <2>1 DEF Hold, Moving, Roots
  <2>3. c \in Used /\ id[c] \in Objects!Reachable
    BY <2>2, RootsReached
  <2>4. id[v] \in Objects!Reachable
    BY <2>2, <2>3, ReachFacts
  <2>5. QED
    BY <2>1, <2>4, HoldMoves
<1>2. ASSUME NEW c \in locals, Drop(c) PROVE Objects!Move
  <2>1. ~Moving /\ ~Moving' /\ UNCHANGED <<memory, org, heap, reg>> /\ locals' = locals \ {c}
    BY <1>2 DEF Drop, Moving
  <2>2. Roots' \subseteq Roots
    BY <2>1 DEF Roots, RegRoots
  <2>3. QED
    BY <2>1, <2>2, MoveIf, RootsReached
<1>3. ASSUME NEW r \in Regs, LoadRegister(r) PROVE Objects!Move
  <2>1. ~Moving /\ Hold(reg[r])
    BY <1>3 DEF LoadRegister, Hold, Moving
  <2>2. reg[r] # NIL => reg[r] \in Roots
    BY DEF Roots, RegRoots
  <2>3. QED
    BY <2>1, <2>2, HoldMoves, RootsReached
<1>4. QED
  BY <1>1, <1>2, <1>3

LEMMA StoreMoves ==
  ASSUME CopyInv, NEW r \in Regs, NEW v \in locals \cup {NIL}, StoreRegister(r, v)
  PROVE  Objects!Move
<1>1. /\ ~Moving /\ ~Moving' /\ UNCHANGED <<memory, org, heap, locals>>
      /\ reg' = [reg EXCEPT ![r] = v] /\ reg \in [Regs -> Words]
  BY DEF StoreRegister, Moving, CopyInv, TypeOK
<1>2. Roots' \subseteq Roots
  BY <1>1 DEF Roots, RegRoots
<1>3. QED
  BY <1>1, <1>2, MoveIf, RootsReached

LEMMA FlagMoves ==
  ASSUME CopyInv, siod_gc_status \/ OutOfStorage \/ FormEnds \/ FormStarts
  PROVE  Objects!Move
<1>1. /\ ~Moving /\ ~Moving' /\ UNCHANGED <<memory, org, heap, reg>> /\ locals' \subseteq locals
  BY DEF Moving, siod_gc_status, OutOfStorage, FormEnds, FormStarts, program
<1>2. Roots' \subseteq Roots
  BY <1>1 DEF Roots, RegRoots
<1>3. QED
  BY <1>1, <1>2, MoveIf, RootsReached

LEMMA ObjectInObjects ==
  ASSUME NEW t \in Kinds, NEW m \in Ids \cup {NIL}, NEW n \in Ids \cup {NIL}
  PROVE  [type |-> t, car |-> m, cdr |-> n] \in Objects!Objects
BY DEF Objects!Objects

(* What a local variable or NIL is called. *)
LEMMA LocalNames ==
  ASSUME CopyInv, ~Moving, NEW v \in locals \cup {NIL}
  PROVE  Name(v) \in Ids \cup {NIL} /\ (Name(v) # NIL => Name(v) \in Objects!Reachable)
         /\ (v # NIL => v \in Used)
<1>1. v # NIL => v \in Roots
  BY DEF Roots
<1>2. QED
  BY <1>1, RootsReached, ReachFacts DEF Name

LEMMA SetFieldUpdates ==
  ASSUME CopyInv, CopyInv', NEW c \in locals, NEW v \in locals \cup {NIL},
         siod_setcar(c, v) \/ siod_setcdr(c, v)
  PROVE  \E n \in Ids, obj \in Objects!Objects : Objects!Update(n, obj)
<1>1. /\ ~Moving /\ ~Moving' /\ UNCHANGED <<type, id, org, heap, reg, locals>>
      /\ car \in [Cells -> Words] /\ cdr \in [Cells -> Words]
      /\ \/ HasCar(type[c]) /\ car' = [car EXCEPT ![c] = v] /\ cdr' = cdr
         \/ HasCdr(type[c]) /\ cdr' = [cdr EXCEPT ![c] = v] /\ car' = car
  BY DEF siod_setcar, siod_setcdr, Moving, program, CopyInv, TypeOK, HasCar
<1>2. c \in Used /\ c \in Cells /\ Used \subseteq Cells /\ id[c] \in Ids /\ id[c] \in Objects!Reachable /\ type[c] \in Kinds
  <2>1. c \in Roots
    BY DEF Roots
  <2>2. c \in Used /\ id[c] \in Objects!Reachable
    BY <1>1, <2>1, RootsReached
  <2>3. QED
    BY <2>2, UsedFacts DEF CopyInv, CellsOK
<1>3. ContentsByName /\ ContentsByName' /\ InUse = Used /\ InUse' = Used
  BY <1>1, ContentsNow, ContentsNext, QuietFacts DEF CopyInv, InUse, Unmoved, Used, First
<1>4. \A d, e \in Used : id[d] = id[e] => d = e
  BY <1>3 DEF CopyInv, CopiedOnce
<1>5. \A d \in Used : d # c => car'[d] = car[d] /\ cdr'[d] = cdr[d]
  BY <1>1, <1>2
<1>6. ASSUME NEW d \in Used, d # c PROVE Object(d)' = Object(d)
  BY <1>1, <1>5, <1>6 DEF Object, Name
<1> DEFINE m == IF HasCar(type[c]) THEN Name(car'[c]) ELSE NIL
           n == IF HasCdr(type[c]) THEN Name(cdr'[c]) ELSE NIL
           obj == [type |-> type[c], car |-> m, cdr |-> n]
<1>7. Object(c)' = obj
  BY <1>1 DEF Object, Name
<1>8. /\ HasCar(type[c]) => car'[c] \in {v} \/ car'[c] \in {NIL} \cup Children(c)
      /\ HasCdr(type[c]) => cdr'[c] \in {v} \/ cdr'[c] \in {NIL} \cup Children(c)
  BY <1>1, <1>2 DEF Children
<1>9. \A y \in {v, NIL} \cup Children(c) :
        Name(y) \in Ids \cup {NIL} /\ (Name(y) # NIL => Name(y) \in Objects!Reachable)
  <2>1. \A y \in Children(c) : y \in Used /\ id[y] \in Objects!Reachable
    BY <1>1, <1>2, ReachFacts
  <2>2. \A y \in Used : id[y] \in Ids
    BY <1>1, ReachFacts
  <2>3. Name(v) \in Ids \cup {NIL} /\ (Name(v) # NIL => Name(v) \in Objects!Reachable)
    BY <1>1, LocalNames
  <2>4. QED
    BY <2>1, <2>2, <2>3 DEF Name
<1>10. /\ m \in Ids \cup {NIL} /\ (m # NIL => m \in Objects!Reachable)
       /\ n \in Ids \cup {NIL} /\ (n # NIL => n \in Objects!Reachable)
  BY <1>8, <1>9
<1> HIDE DEF m, n
<1>11. obj \in Objects!Objects
  BY <1>2, <1>10, ObjectInObjects
<1>12. Objects!Fields(obj) \subseteq Objects!Reachable
  BY <1>10 DEF Objects!Fields
<1> HIDE DEF obj
<1>13. Names' = Names /\ id[c] \in Names
  BY <1>1, <1>2, <1>3 DEF Names
<1>14. Contents' = [Contents EXCEPT ![id[c]] = obj]
  <2>1. ASSUME NEW k \in Names PROVE Contents'[k] = IF k = id[c] THEN obj ELSE Contents[k]
    <3>1. PICK d \in Used : id[d] = k
      BY <1>3 DEF Names
    <3>2. Contents'[k] = Object(d)' /\ Contents[k] = Object(d)
      BY <1>1, <1>3, <3>1 DEF ContentsByName
    <3>3. CASE d = c
      BY <1>7, <3>1, <3>2, <3>3
    <3>4. CASE d # c
      BY <1>2, <1>4, <1>6, <3>1, <3>2, <3>4
    <3>5. QED
      BY <3>3, <3>4
  <2>2. Contents' = [k \in Names |-> Contents'[k]] /\ Contents = [k \in Names |-> Contents[k]]
    BY <1>3, <1>13 DEF ContentsByName
  <2>3. QED
    BY <2>1, <2>2
<1>15. StoreRoots' = StoreRoots
  BY <1>1 DEF StoreRoots, Roots, RegRoots
<1>16. id[c] \in DOMAIN Contents
  BY <1>3, <1>13 DEF ContentsByName
<1>17. Objects!Update(id[c], obj)
  BY <1>2, <1>12, <1>14, <1>15, <1>16 DEF Objects!Update, StoreRoots
<1>18. QED
  BY <1>2, <1>11, <1>17

LEMMA NewcellAllocates ==
  ASSUME CopyInv, CopyInv', NEW kind \in Kinds, NEW x \in locals \cup {NIL}, NEW y \in locals \cup {NIL},
         NEWCELL(kind, x, y)
  PROVE  \E n \in Ids, obj \in Objects!Objects : Objects!Allocate(n, obj)
<1>1. /\ ~Moving /\ ~Moving' /\ Room /\ TypeOK /\ TypeOK'
      /\ type' = [type EXCEPT ![heap] = kind] /\ car' = [car EXCEPT ![heap] = x]
      /\ cdr' = [cdr EXCEPT ![heap] = y] /\ id' = [id EXCEPT ![heap] = NewId]
      /\ heap' = heap + 1 /\ locals' = locals \cup {heap} /\ UNCHANGED <<org, reg>>
  BY DEF NEWCELL, Moving, CopyInv
<1>2. /\ heap \in Cells /\ heap \in Nat /\ heap \notin Used /\ heap < HeapEnd /\ HeapEnd \in Nat
      /\ Used \subseteq Cells /\ NIL \notin Cells
  BY <1>1, UsedFacts DEF Room
<1>3. NewId \in Ids /\ \A c \in Used : id[c] # NewId
  BY <1>1, NewIdFacts
<1>4. Used' = Used \cup {heap} /\ InUse = Used /\ InUse' = Used \cup {heap}
  <2>1. heap \in First(org) .. HeapEnd /\ First(org) \in Nat
    BY <1>1, HalfFacts DEF TypeOK
  <2>2. Used' = Used \cup {heap}
    BY <1>1, <1>2, <2>1 DEF Used, First
  <2>3. QED
    BY <1>1, <2>2, QuietFacts DEF InUse, Unmoved
<1>5. ContentsByName /\ ContentsByName'
  BY ContentsNow, ContentsNext DEF CopyInv
<1>6. /\ \A c \in Used : c # heap /\ c # NIL /\ type'[c] = type[c] /\ car'[c] = car[c] /\ cdr'[c] = cdr[c] /\ id'[c] = id[c]
      /\ type'[heap] = kind /\ car'[heap] = x /\ cdr'[heap] = y /\ id'[heap] = NewId
  <2>1. \A c \in Used : c # heap /\ c # NIL /\ c \in Cells
    BY <1>2
  <2>2. \A c \in Used : type'[c] = type[c] /\ car'[c] = car[c] /\ cdr'[c] = cdr[c] /\ id'[c] = id[c]
    BY <1>1, <1>2, <2>1 DEF TypeOK
  <2>3. type'[heap] = kind /\ car'[heap] = x /\ cdr'[heap] = y /\ id'[heap] = NewId
    BY <1>1, <1>2 DEF TypeOK
  <2>4. QED
    BY <2>1, <2>2, <2>3
<1>7. ASSUME NEW c \in Used PROVE Object(c)' = Object(c)
  <2>1. Children(c) \subseteq Used
    BY <1>1 DEF CopyInv, NoOldPointer
  <2>2. HasCar(type[c]) /\ car[c] # NIL => car[c] \in Used
    BY <2>1 DEF Children
  <2>3. HasCdr(type[c]) /\ cdr[c] # NIL => cdr[c] \in Used
    BY <2>1 DEF Children
  <2>4. HasCar(type[c]) => Name(car[c]) = IF car'[c] = NIL THEN NIL ELSE id'[car'[c]]
    BY <1>6, <2>2 DEF Name
  <2>5. HasCdr(type[c]) => Name(cdr[c]) = IF cdr'[c] = NIL THEN NIL ELSE id'[cdr'[c]]
    BY <1>6, <2>3 DEF Name
  <2>6. QED
    BY <1>6, <2>4, <2>5, ObjectSame
<1> DEFINE m == IF HasCar(kind) THEN Name(x) ELSE NIL
           n == IF HasCdr(kind) THEN Name(y) ELSE NIL
           obj == [type |-> kind, car |-> m, cdr |-> n]
<1>8. /\ Name(x) \in Ids \cup {NIL} /\ (Name(x) # NIL => Name(x) \in Objects!Reachable) /\ (x # NIL => x \in Used)
      /\ Name(y) \in Ids \cup {NIL} /\ (Name(y) # NIL => Name(y) \in Objects!Reachable) /\ (y # NIL => y \in Used)
  BY <1>1, LocalNames
<1>9. /\ m \in Ids \cup {NIL} /\ (m # NIL => m \in Objects!Reachable)
      /\ n \in Ids \cup {NIL} /\ (n # NIL => n \in Objects!Reachable)
  BY <1>8
<1>10. ASSUME NEW c, c = heap PROVE Object(c)' = obj
  <2>1. /\ Name(x) = IF x = NIL THEN NIL ELSE id'[x]
        /\ Name(y) = IF y = NIL THEN NIL ELSE id'[y]
    BY <1>6, <1>8 DEF Name
  <2>2. type'[c] = kind /\ car'[c] = x /\ cdr'[c] = y
    BY <1>6, <1>10
  <2>3. QED
    BY <2>1, <2>2 DEF Object, Name, HasCar, HasCdr
<1> HIDE DEF m, n
<1>11. obj \in Objects!Objects
  BY <1>9, ObjectInObjects
<1>12. Objects!Fields(obj) \subseteq Objects!Reachable
  BY <1>9 DEF Objects!Fields
<1> HIDE DEF obj
<1>13. Names = {id[c] : c \in Used} /\ Names' = Names \cup {NewId} /\ NewId \notin Names
  BY <1>3, <1>4, <1>6 DEF Names
<1>14. DOMAIN Contents = Names
  BY <1>5 DEF ContentsByName
<1>15. Contents' = [k \in DOMAIN Contents \cup {NewId} |-> IF k = NewId THEN obj ELSE Contents[k]]
  <2>1. ASSUME NEW k \in Names' PROVE Contents'[k] = IF k = NewId THEN obj ELSE Contents[k]
    <3>1. CASE k = NewId
      <4>1. PICK c \in InUse' : c = heap
        BY <1>4
      <4>2. Contents'[id'[c]] = Object(c)'
        BY <1>5 DEF ContentsByName
      <4>3. QED
        BY <1>6, <1>10, <3>1, <4>1, <4>2
    <3>2. CASE k # NewId
      <4>1. PICK c \in Used : id[c] = k
        BY <1>13, <3>2
      <4>2. Contents'[k] = Object(c)' /\ Contents[k] = Object(c)
        BY <1>4, <1>5, <1>6, <4>1 DEF ContentsByName
      <4>3. QED
        BY <1>7, <3>2, <4>2
    <3>3. QED
      BY <3>1, <3>2
  <2>2. Contents' = [k \in Names' |-> Contents'[k]]
    BY <1>5 DEF ContentsByName
  <2>3. QED
    BY <1>13, <1>14, <2>1, <2>2
<1>16. StoreRoots' \subseteq Objects!Reachable \cup {NewId}
  <2>1. \A c \in Roots' : c \in Roots \/ c = heap
    BY <1>1 DEF Roots, RegRoots
  <2>2. \A c \in Roots : c \in Used /\ id[c] \in Objects!Reachable
    BY <1>1, RootsReached
  <2>3. QED
    BY <1>6, <2>1, <2>2 DEF StoreRoots
<1>17. ASSUME NEW k \in Ids, NEW o \in Objects!Objects, k = NewId, o = obj
       PROVE  Objects!Allocate(k, o)
  BY <1>12, <1>13, <1>14, <1>15, <1>16, <1>17 DEF Objects!Allocate, StoreRoots
<1>18. QED
  BY <1>3, <1>11, <1>17

-----------------------------------------------------------------------------
LEMMA StoreInit == Init => Objects!Init
<1> SUFFICES ASSUME Init PROVE Objects!Init
  OBVIOUS
<1>1. org = 0 /\ First(org) = 1 /\ heap = 1 /\ ~Moving
  BY HalfIs DEF Init, Moving
<1>2. InUse = {}
  BY <1>1 DEF Used, InUse, Unmoved
<1>3. Contents = [n \in {} |-> 0]
  BY <1>2 DEF Contents
<1>4. {id[c] : c \in Roots} = {}
  BY DEF Init, Roots, RegRoots
<1>5. QED
  BY <1>3, <1>4 DEF Objects!Init

LEMMA StoreNext ==
  CopyInv /\ CopyInv' /\ [Next]_vars => [Objects!Next]_<<Contents, {id[c] : c \in Roots}>>
<1> SUFFICES ASSUME CopyInv, CopyInv', [Next]_vars
             PROVE  StoreUnchanged \/ Objects!Next
  BY DEF StoreUnchanged, StoreRoots
<1>1. CASE UNCHANGED vars
  <2>1. InUse' = InUse /\ UNCHANGED <<memory, program>>
    BY <1>1 DEF vars, memory, program, cursors, InUse, Unmoved, Used, First, Old, Half, Moving
  <2>2. QED
    BY <2>1 DEF StoreUnchanged, StoreRoots, Contents, Object, Name, Roots, RegRoots, memory, program
<1>2. CASE Program
  <2>1. CASE \E c \in locals : LoadField(c) \/ Drop(c)
    BY <2>1, LoadMoves DEF Objects!Next
  <2>2. CASE \E r \in Regs : LoadRegister(r)
    BY <2>2, LoadMoves DEF Objects!Next
  <2>3. CASE \E r \in Regs, v \in locals \cup {NIL} : StoreRegister(r, v)
    BY <2>3, StoreMoves DEF Objects!Next
  <2>4. CASE \E c \in locals, v \in locals \cup {NIL} : siod_setcar(c, v) \/ siod_setcdr(c, v)
    BY <2>4, SetFieldUpdates DEF Objects!Next
  <2>5. CASE \E kind \in Kinds, x, y \in locals \cup {NIL} : Shape(kind, x, y) /\ NEWCELL(kind, x, y)
    BY <2>5, NewcellAllocates DEF Objects!Next
  <2>6. CASE siod_gc_status \/ OutOfStorage \/ FormEnds \/ FormStarts
    BY <2>6, FlagMoves DEF Objects!Next
  <2>7. QED
    BY <1>2, <2>1, <2>2, <2>3, <2>4, <2>5, <2>6 DEF Program
<1>3. CASE Collector
  <2>1. siod_free_oldspace => StoreUnchanged \/ Objects!Next
    BY FreeReclaims DEF Objects!Next
  <2>2. QED
    BY <1>3, <2>1, StartSame, ScanRegisterSame, CursorSame, ScanCarSame, ScanCdrSame, DoneSame
       DEF Collector
<1>4. QED
  BY <1>1, <1>2, <1>3 DEF Next

(* Moving objects is invisible to the program: an object keeps its contents *)
(* as long as it can be reached, whatever siod_gc_stop_and_copy does.       *)
THEOREM CopyGCImplementsStore == Spec => ImplementsStore
<1>1. Init /\ [][Next]_vars => Objects!Init /\ [][Objects!Next]_<<Contents, {id[c] : c \in Roots}>>
  <2>1. Init /\ [][Next]_vars => []CopyInv
    BY CopyInvInductive DEF Spec
  <2>2. QED
    BY <2>1, StoreInit, StoreNext, PTL
<1>2. QED
  BY <1>1, PTL DEF Spec, ImplementsStore, Objects!Spec
=============================================================================
