------------------------------- MODULE Symbols -------------------------------
(***************************************************************************)
(* intern: one symbol for each name, in the lists of obarray, by the hash   *)
(* of the name, and in oblistvar.  With obarray_dim = 1 there is no obarray *)
(* and the oblist is searched.                                              *)
(*                                                                         *)
(* A symbol is its number in pname, the sequence of names of all symbols.   *)
(* intern allocates three times; what it has read before an allocation may  *)
(* be out of date after it.  The field "late" of an activation is history:  *)
(* another intern has made a symbol meanwhile, in the same list.            *)
(***************************************************************************)
EXTENDS Calls, FiniteSets, SequencesExt

CONSTANTS
  Names,
  NameHash,     \* the hash of a name before it is reduced to the dimension
  Dims,         \* the values option -o gives to obarray_dim
  MaxSymbols    \* bound: symbols ever made

ASSUME HashAssumption == NameHash \in [Names -> Nat]
ASSUME DimsAssumption == Dims \subseteq Nat \ {0}
ASSUME MaxSymbolsAssumption == MaxSymbols \in Nat

VARIABLES
  obarray_dim, pname, obarray, oblist,
  dropped       \* history: some call was late when it stored its list

symbolVars == <<obarray_dim, pname, obarray, oblist, dropped>>

HasObarray == obarray_dim > 1
Hash(n) == NameHash[n] % obarray_dim
ListFor(n) == IF HasObarray THEN obarray[Hash(n)] ELSE oblist

(* What the loop of intern finds: the first symbol of that name, or 0. *)
Find(n, list) ==
  LET i == SelectInSeq(list, LAMBDA s : pname[s] = n) IN IF i = 0 THEN 0 ELSE list[i]

SymbolsInit ==
  /\ obarray_dim \in Dims
  /\ pname = <<>>
  /\ obarray = [b \in 0 .. obarray_dim - 1 |-> <<>>]
  /\ oblist = <<>>
  /\ dropped = FALSE

Intern(n, phase, sym, list) ==
  [fn |-> "intern", name |-> n, phase |-> phase, sym |-> sym, list |-> list, late |-> FALSE]

(* A name that is found needs no allocation, and the step has no effect.    *)
siod_intern(n) ==
  /\ Find(n, ListFor(n)) = 0
  /\ Enter(Intern(n, "symcons", 0, ListFor(n)))
  /\ UNCHANGED symbolVars

(* A store to the obarray, or to the oblist, makes other calls late. *)
Overtakes(stored, a) ==
  /\ a.fn = "intern"
  /\ IF stored = "obarray"
     THEN a.phase \in {"symcons", "obarray"} /\ Hash(a.name) = Hash(Top.name)
     ELSE a.phase = "oblist" \/ ~HasObarray
OvertakeInterns(stored, s) ==
  [i \in DOMAIN s |-> IF Overtakes(stored, s[i]) THEN [s[i] EXCEPT !.late = TRUE] ELSE s[i]]

(* The store to obarray is next; or the last siod_cons, whose argument      *)
(* oblistvar is read before it allocates.                                   *)
ToObarray(a) == [a EXCEPT !.phase = "obarray"]
ToOblist(a) == [a EXCEPT !.phase = "oblist", !.list = oblist, !.late = a.late /\ ~HasObarray]

(* Variant: the new symbol goes to the oblist only. *)
SymconsToOblist ==
  /\ Running("intern", "symcons")
  /\ Len(pname) < MaxSymbols
  /\ pname' = Append(pname, Top.name)
  /\ calls' = Append(Popped, ToOblist([Top EXCEPT !.sym = Len(pname) + 1]))
  /\ UNCHANGED <<obarray_dim, obarray, oblist, dropped>>

Symcons ==
  /\ Running("intern", "symcons")
  /\ Len(pname) < MaxSymbols
  /\ pname' = Append(pname, Top.name)
  /\ LET a == [Top EXCEPT !.sym = Len(pname) + 1]
     IN  calls' = Append(Popped, IF HasObarray THEN ToObarray(a) ELSE ToOblist(a))
  /\ UNCHANGED <<obarray_dim, obarray, oblist, dropped>>

(* Variant: the bucket the last character leads to. *)
StoreNextBucket ==
  /\ Running("intern", "obarray")
  /\ obarray' = [obarray EXCEPT ![(Hash(Top.name) + 1) % obarray_dim] = <<Top.sym>> \o Top.list]
  /\ calls' = Append(OvertakeInterns("obarray", Popped), ToOblist(Top))
  /\ dropped' = (dropped \/ Top.late)
  /\ UNCHANGED <<obarray_dim, pname, oblist>>

StoreObarray ==
  /\ Running("intern", "obarray")
  /\ obarray' = [obarray EXCEPT ![Hash(Top.name)] = <<Top.sym>> \o Top.list]
  /\ calls' = Append(OvertakeInterns("obarray", Popped), ToOblist(Top))
  /\ dropped' = (dropped \/ Top.late)
  /\ UNCHANGED <<obarray_dim, pname, oblist>>

StoreOblist ==
  /\ Running("intern", "oblist")
  /\ oblist' = <<Top.sym>> \o Top.list
  /\ calls' = OvertakeInterns("oblist", Popped)
  /\ dropped' = (dropped \/ Top.late)
  /\ UNCHANGED <<obarray_dim, pname, obarray>>

SymbolsNext ==
  \/ \E n \in Names : siod_intern(n)
  \/ Symcons
  \/ StoreObarray
  \/ StoreOblist

-----------------------------------------------------------------------------

SymbolsTypeOK ==
  /\ obarray_dim \in Dims
  /\ pname \in Seq(Names) /\ Len(pname) <= MaxSymbols
  /\ DOMAIN obarray = 0 .. obarray_dim - 1
  /\ \A b \in DOMAIN obarray : obarray[b] \in Seq(1 .. Len(pname))
  /\ oblist \in Seq(1 .. Len(pname))
  /\ dropped \in BOOLEAN

Found(n) == Find(n, ListFor(n))

(* Symbols are eq by name: a call of intern that no other has overtaken     *)
(* gives its name a symbol where there was none, and no step whatever       *)
(* changes the symbol of any other name (slib.c 950-963); a call that was   *)
(* overtaken by the intern of a hook loses what the hook made.              *)
SymbolsStay ==
  [][\/ ~EvaluatesLisp /\ Top.fn = "intern" /\ Top.late
     \/ \A n \in Names : \/ Found(n)' = Found(n)
                         \/ Found(n) = 0 /\ ~EvaluatesLisp /\ Top.fn = "intern" /\ n = Top.name
    ]_<<symbolVars, calls>>

(* Nothing is in the oblist that its name does not find, even when a call   *)
(* failed between its two conses (slib.c 962-963), and no name twice.       *)
OblistFound ==
  ~dropped => /\ IsInjective(oblist)
              /\ \A i \in DOMAIN oblist : Found(pname[oblist[i]]) = oblist[i]
=============================================================================
