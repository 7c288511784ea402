-------------------------------- MODULE Tables --------------------------------
(***************************************************************************)
(* A program that interns names and uses a hash table, with an *after-gc*   *)
(* hook that does the same: Symbols and HashTable on one C stack.           *)
(***************************************************************************)
EXTENDS Symbols, HashTable

CONSTANT MaxObjects   \* bound: symbols and entries together, the storage there is

vars == <<calls, symbolVars, tableVars>>

Init == calls = <<>> /\ SymbolsInit /\ HashTableInit

Next ==
  \/ SymbolsNext /\ Len(pname') + Len(entries) <= MaxObjects /\ UNCHANGED tableVars
  \/ HashTableNext /\ Len(pname) + Len(entries') <= MaxObjects /\ UNCHANGED symbolVars
  \/ (RunHook \/ HookReturns \/ Unwind) /\ UNCHANGED <<symbolVars, tableVars>>

Spec == Init /\ [][Next]_vars

(* The lists are made of what was made, and the calls are Lisp's or the     *)
(* hook's.                                                                  *)
TypeOK ==
  /\ SymbolsTypeOK
  /\ HashTableTypeOK
  /\ \A i \in DOMAIN calls : calls[i].fn = "hook" <=> i % 2 = 0
=============================================================================
