------------------------------ MODULE HashTable ------------------------------
(***************************************************************************)
(* Hash tables: arrays of association lists, with href and hset.            *)
(*                                                                         *)
(* A key is an object with contents, which the program may change (aset on  *)
(* a string); siod_equal and siod_c_siod_sxhash look at the contents.  An   *)
(* entry is a cell (key . value), its number in entries, since lists may    *)
(* share it.  hset allocates twice between reading a list and writing it;   *)
(* the field "late" of its activation is history: meanwhile the list has    *)
(* been written or the key changed.                                         *)
(***************************************************************************)
EXTENDS Calls, FiniteSets, SequencesExt

CONSTANTS
  Keys, Contents,
  Sxhash,       \* the hash of contents: an index into the table
  Values,
  None,         \* what href returns for no entry
  MaxEntries    \* bound: entries ever made

ASSUME SxhashAssumption == Sxhash \in [Contents -> Nat]
ASSUME NoneAssumption == None \notin Values
ASSUME MaxEntriesAssumption == MaxEntries \in Nat

VARIABLES
  content,      \* contents of the key objects
  entries,      \* the cells (key . value)
  table         \* the lists

tableVars == <<content, entries, table>>

Buckets == {Sxhash[c] : c \in Contents}
href_index(k) == Sxhash[content[k]]

(* siod_assoc of a key equal to contents c, 0 for NIL. *)
assoc(c, list) ==
  LET i == SelectInSeq(list, LAMBDA e : content[entries[e].key] = c)
  IN  IF i = 0 THEN 0 ELSE list[i]

HashTableInit ==
  /\ content \in [Keys -> Contents]
  /\ entries = <<>>
  /\ table = [b \in Buckets |-> <<>>]

Hset(k, v, phase) ==
  [fn |-> "hset", key |-> k, value |-> v, phase |-> phase, index |-> href_index(k),
   list |-> table[href_index(k)], entry |-> 0, late |-> FALSE]

(* Variant: the first entry of the list, whatever its key. *)
HsetFirst(k, v) ==
  LET e == IF table[href_index(k)] = <<>> THEN 0 ELSE Head(table[href_index(k)])
  IN  /\ EvaluatesLisp
      /\ e # 0
      /\ entries' = [entries EXCEPT ![e].value = v]
      /\ UNCHANGED <<calls, content, table>>

(* hset of a key that has an entry: siod_setcdr. *)
HsetOld(k, v) ==
  LET e == assoc(content[k], table[href_index(k)])
  IN  /\ EvaluatesLisp
      /\ e # 0
      /\ entries' = [entries EXCEPT ![e].value = v]
      /\ UNCHANGED <<calls, content, table>>

HsetNew(k, v) ==
  /\ assoc(content[k], table[href_index(k)]) = 0
  /\ Enter(Hset(k, v, "cell"))
  /\ UNCHANGED tableVars

(* Variant: the cell after the one that was allocated. *)
HsetCellPast ==
  /\ Running("hset", "cell")
  /\ Len(entries) < MaxEntries
  /\ entries' = Append(entries, [key |-> Top.key, value |-> Top.value])
  /\ calls' = Append(Popped, [Top EXCEPT !.phase = "bucket", !.entry = Len(entries) + 2])
  /\ UNCHANGED <<content, table>>

HsetCell ==
  /\ Running("hset", "cell")
  /\ Len(entries) < MaxEntries
  /\ entries' = Append(entries, [key |-> Top.key, value |-> Top.value])
  /\ calls' = Append(Popped, [Top EXCEPT !.phase = "bucket", !.entry = Len(entries) + 1])
  /\ UNCHANGED <<content, table>>

OvertakeHsets(indices, keys, s) ==
  LET Late(a) == a.fn = "hset" /\ (a.index \in indices \/ a.key \in keys)
  IN  [i \in DOMAIN s |-> IF Late(s[i]) THEN [s[i] EXCEPT !.late = TRUE] ELSE s[i]]

(* Variant: the list is the new entry only. *)
HsetBucketAlone ==
  /\ Running("hset", "bucket")
  /\ table' = [table EXCEPT ![Top.index] = <<Top.entry>>]
  /\ calls' = OvertakeHsets({Top.index}, {}, Popped)
  /\ UNCHANGED <<content, entries>>

HsetBucket ==
  /\ Running("hset", "bucket")
  /\ table' = [table EXCEPT ![Top.index] = <<Top.entry>> \o Top.list]
  /\ calls' = OvertakeHsets({Top.index}, {}, Popped)
  /\ UNCHANGED <<content, entries>>

(* The program changes the contents of a key. *)
siod_aset(k, c) ==
  /\ EvaluatesLisp
  /\ content' = [content EXCEPT ![k] = c]
  /\ calls' = OvertakeHsets({}, {k}, calls)
  /\ UNCHANGED <<entries, table>>

siod_hset(k, v) == HsetOld(k, v) \/ HsetNew(k, v)

HashTableNext ==
  \/ \E k \in Keys, v \in Values : siod_hset(k, v)
  \/ HsetCell
  \/ HsetBucket
  \/ \E k \in Keys, c \in Contents : siod_aset(k, c)

-----------------------------------------------------------------------------

HashTableTypeOK ==
  /\ content \in [Keys -> Contents]
  /\ entries \in Seq([key : Keys, value : Values]) /\ Len(entries) <= MaxEntries
  /\ DOMAIN table = Buckets
  /\ \A b \in Buckets : table[b] \in Seq(1 .. Len(entries))

href(c) == LET e == assoc(c, table[Sxhash[c]]) IN IF e = 0 THEN None ELSE entries[e].value

hrefs == [c \in Contents |-> href(c)]

(* A table is a finite map by the contents of its keys: each step leaves    *)
(* every href as it was, or an hset that no other hset of its list and no   *)
(* change of its key has overtaken sets the href of its key; and a call     *)
(* that fails changes nothing (sliba.c 715-728).  The exceptions: a program *)
(* that changes a key, and an hset whose list is out of date.               *)
HsetPuts ==
  [][\/ hrefs' = hrefs
     \/ content' # content
     \/ Running("hset", "bucket") /\ Top.late
     \/ Running("hset", "bucket") /\ hrefs' = [hrefs EXCEPT ![content[Top.key]] = Top.value]
     \/ /\ EvaluatesLisp
        /\ \E k \in Keys, v \in Values : HsetOld(k, v)
        /\ \A k \in Keys, v \in Values : HsetOld(k, v) => hrefs' = [hrefs EXCEPT ![content[k]] = v]
    ]_<<tableVars, calls>>
=============================================================================
