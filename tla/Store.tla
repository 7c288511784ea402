-------------------------------- MODULE Store --------------------------------
(***************************************************************************)
(* What the storage manager of ULSIOD promises to the interpreter: an       *)
(* object, once built, keeps its contents for as long as the program can    *)
(* reach it; only the program changes an object; and the cell of a new      *)
(* object is one that no reachable object uses.  When and whether an        *)
(* unreachable object is reclaimed is left open.  MarkSweep and CopyGC      *)
(* implement it.                                                            *)
(***************************************************************************)
CONSTANTS Cells, NIL, Kinds

VARIABLES
  store,   \* the objects: a function from the cells in use to their contents
  roots    \* the cells the program holds

Objects == [type : Kinds, car : Cells \cup {NIL}, cdr : Cells \cup {NIL}]

Fields(obj) == {obj.car, obj.cdr} \ {NIL}

ClosedSets ==
  {S \in SUBSET Cells :
     /\ roots \subseteq S
     /\ \A c \in S \cap DOMAIN store : Fields(store[c]) \subseteq S}

Reachable == {c \in Cells : \A S \in ClosedSets : c \in S}

Init ==
  /\ store = [c \in {} |-> 0]
  /\ roots = {}

(* A new object whose fields are pointers the program has. *)
Allocate(c, obj) ==
  /\ c \notin DOMAIN store
  /\ Fields(obj) \subseteq Reachable
  /\ store' = [d \in DOMAIN store \cup {c} |-> IF d = c THEN obj ELSE store[d]]
  /\ roots' \subseteq Reachable \cup {c}

Update(c, obj) ==
  /\ c \in DOMAIN store
  /\ c \in Reachable
  /\ Fields(obj) \subseteq Reachable
  /\ store' = [store EXCEPT ![c] = obj]
  /\ UNCHANGED roots

(* The program reads fields, and drops what it held. *)
Move ==
  /\ UNCHANGED store
  /\ roots' \subseteq Reachable

Reclaim(c) ==
  /\ c \in DOMAIN store
  /\ c \notin Reachable
  /\ store' = [d \in DOMAIN store \ {c} |-> store[d]]
  /\ UNCHANGED roots

Next ==
  \/ Move
  \/ \E c \in Cells : Reclaim(c)
  \/ \E c \in Cells, obj \in Objects : Allocate(c, obj) \/ Update(c, obj)

Spec == Init /\ [][Next]_<<store, roots>>

(* No object the program can reach has been reclaimed. *)
NothingDangles == Reachable \subseteq DOMAIN store
=============================================================================
