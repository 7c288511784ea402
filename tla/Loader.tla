-------------------------------- MODULE Loader --------------------------------
(***************************************************************************)
(* Files: the cells of C files, fopen and fclose, load with its header and  *)
(* its library directory, and require with its flags.                       *)
(*                                                                         *)
(* calls holds the activations of siod_require, siod_vload and *catch,      *)
(* innermost last.  A C file is a cell number; the FILE in it has the same  *)
(* number, "inCell" says which cells have one, "open" which of them the C   *)
(* library has open.                                                        *)
(***************************************************************************)
EXTENDS Naturals, Sequences, FiniteSets, FiniteSetsExt, SequencesExt

CONSTANTS
  Names,      \* the names of the files
  Objects,    \* those of them that are shared objects, for require_so
  Contents,   \* the forms in each: [op, name]
  Parser,     \* the file the header of each names as its parser, or None
  None,
  Found,      \* the directories ("cwd", "lib") each is in at first
  Cells,      \* bound: cells of C files
  MaxOpen,    \* how many files a process may have open
  MaxDepth,   \* how many calls deep the C stack gets before STACK_CHECK fails
  Movable,    \* bound: the files that other processes move
  MaxChanges  \* bound: how often they do

ASSUME ContentsAssumption ==
  Contents \in [Names -> Seq([op : {"eval", "require", "try", "load"}, name : Names])]
ASSUME ParserAssumption == Parser \in [Names -> Names \union {None}]
ASSUME ObjectsAssumption == Objects \subseteq Names /\ \A n \in Objects : Contents[n] = <<>> /\ Parser[n] = None
ASSUME NoneAssumption == None \notin Names /\ None \notin Cells

VARIABLES
  calls,
  cells, inCell,  \* the cells in use; those of them with a FILE
  open,           \* the files the C library has open
  held,           \* the cells Lisp variables hold
  where,          \* the directories each file is in
  loaded,         \* the names whose flag *<name>-siod_loaded* is set
  completed,      \* history: how often require loaded a name to its end, at most 2
  abandoned,      \* history: cells of loads that an error or interrupt ended, or of files the
                  \* program holds no longer
  changes

fileVars == <<cells, inCell, open, held>>
vars == <<calls, fileVars, where, loaded, completed, abandoned, changes>>

Require(n, phase) == [fn |-> "require", name |-> n, phase |-> phase]
Load(n, cflag, rflag) ==
  [fn |-> "load", name |-> n, cflag |-> cflag, phase |-> IF rflag THEN "probe" ELSE "open",
   dir |-> "cwd", cell |-> None, pos |-> 1]
LoadSo(n) == [fn |-> "load_so", name |-> n, phase |-> "open"]
SaveForms(n) == [fn |-> "save_forms", name |-> n, phase |-> "open", cell |-> None]
LoadRequired(n) == IF n \in Objects THEN LoadSo(n) ELSE Load(n, FALSE, TRUE)
Catch == [fn |-> "catch"]

Top == calls[Len(calls)]
Below == SubSeq(calls, 1, Len(calls) - 1)
Running(fn, phase) == calls # <<>> /\ Top.fn = fn /\ Top.phase = phase
Become(a) == calls' = Append(Below, a)
Push(below, a) == Len(below) + Len(a) <= MaxDepth /\ calls' = below \o a

HasFile == {"load", "save_forms"}
(* The cells something points to. *)
Referenced == held \union {calls[i].cell : i \in {j \in DOMAIN calls : calls[j].fn \in HasFile}}

Init ==
  /\ calls = <<>> /\ cells = {} /\ inCell = {} /\ open = {} /\ held = {}
  /\ where = Found
  /\ loaded = {} /\ completed = [n \in Names |-> 0] /\ abandoned = {} /\ changes = 0

-----------------------------------------------------------------------------
(* siod_fopen_cg: a cell first, then the file; without the file the cell is *)
(* garbage.  fclose and the garbage collector use siod_file_gc_free.        *)

CanOpen(n, dir) == dir \in where[n] /\ Cardinality(open) < MaxOpen

siod_fopen_cg(c) ==
  /\ cells' = cells \union {c}
  /\ inCell' = inCell \union {c}
  /\ open' = open \union {c}

(* Variant: the cell keeps its pointer. *)
FileFreeKeeping(c) ==
  /\ open' = open \ {c}
  /\ UNCHANGED inCell

siod_file_gc_free(c) ==
  /\ open' = open \ (inCell \intersect {c})
  /\ inCell' = inCell \ {c}

Unchanged == <<where, loaded, completed, abandoned, changes>>

(* Lisp code at top level; fopen and popen, fclose and pclose, and a        *)
(* variable that is assigned something else.                                *)
fopen(n, c) ==
  /\ calls = <<>>
  /\ c \notin cells
  /\ CanOpen(n, "cwd")
  /\ siod_fopen_cg(c)
  /\ held' = held \union {c}
  /\ UNCHANGED <<calls, Unchanged>>

siod_fclose_l(c) ==
  /\ calls = <<>>
  /\ c \in held
  /\ siod_file_gc_free(c)
  /\ UNCHANGED <<calls, cells, held, Unchanged>>

(* pclose insists on a file that is open ("file is closed"). *)
siod_pclose_l(c) ==
  /\ calls = <<>>
  /\ c \in held \intersect inCell
  /\ open' = open \ {c}
  /\ inCell' = inCell \ {c}
  /\ UNCHANGED <<calls, cells, held, Unchanged>>

Forget(c) ==
  /\ calls = <<>>
  /\ c \in held
  /\ held' = held \ {c}
  /\ abandoned' = abandoned \union {c}
  /\ UNCHANGED <<calls, cells, inCell, open, where, loaded, completed, changes>>

(* A collection, which may come at any time. *)
Collect(c) ==
  /\ c \in cells \ Referenced
  /\ siod_file_gc_free(c)
  /\ cells' = cells \ {c}
  /\ abandoned' = abandoned \ {c}
  /\ UNCHANGED <<calls, held, where, loaded, completed, changes>>

-----------------------------------------------------------------------------
(* siod_load, siod_require, siod_require_so and siod_save_forms, from the    *)
(* top level.                                                               *)
TopLevel(n) ==
  /\ calls = <<>>
  /\ \/ Push(<<>>, <<Require(n, "test")>>)
     \/ n \notin Objects /\ \E cflag, rflag \in BOOLEAN : Push(<<>>, <<Load(n, cflag, rflag)>>)
     \/ n \notin Objects /\ Push(<<>>, <<SaveForms(n)>>)
  /\ UNCHANGED <<fileVars, Unchanged>>

(* Variant: the flag is set before the load. *)
RequireSetsFirst ==
  /\ Running("require", "test")
  /\ IF Top.name \in loaded THEN calls' = Below
     ELSE Push(Below, <<Require(Top.name, "set"), LoadRequired(Top.name)>>)
  /\ loaded' = loaded \union {Top.name}
  /\ UNCHANGED <<fileVars, where, completed, abandoned, changes>>

RequireTests ==
  /\ Running("require", "test")
  /\ IF Top.name \in loaded THEN calls' = Below
     ELSE Push(Below, <<Require(Top.name, "set"), LoadRequired(Top.name)>>)
  /\ UNCHANGED <<fileVars, Unchanged>>

(* Variant: the flag is not set. *)
RequireForgets ==
  /\ Running("require", "set")
  /\ completed' = [completed EXCEPT ![Top.name] = IF @ < 2 THEN @ + 1 ELSE @]
  /\ calls' = Below
  /\ UNCHANGED <<fileVars, where, loaded, abandoned, changes>>

RequireSets ==
  /\ Running("require", "set")
  /\ loaded' = loaded \union {Top.name}
  /\ completed' = [completed EXCEPT ![Top.name] = IF @ < 2 THEN @ + 1 ELSE @]
  /\ calls' = Below
  /\ UNCHANGED <<fileVars, where, abandoned, changes>>

(* A file that can be opened here, or else in the library, or else here.    *)
Probe ==
  /\ Running("load", "probe")
  /\ Become([Top EXCEPT !.phase = "open",
                        !.dir = IF ~CanOpen(Top.name, "cwd") /\ CanOpen(Top.name, "lib") THEN "lib" ELSE "cwd"])
  /\ UNCHANGED <<fileVars, Unchanged>>

(* The file is opened, and the parser of its header required. *)
Open(c) ==
  /\ Running("load", "open")
  /\ c \notin cells
  /\ CanOpen(Top.name, Top.dir)
  /\ siod_fopen_cg(c)
  /\ LET a == [Top EXCEPT !.phase = "forms", !.cell = c]
     IN  Push(Below, IF Parser[a.name] = None THEN <<a>> ELSE <<a, Require(Parser[a.name], "test")>>)
  /\ UNCHANGED <<held, Unchanged>>

(* The next form is read and, without cflag, evaluated. *)
Form ==
  /\ Running("load", "forms")
  /\ Top.pos <= Len(Contents[Top.name])
  /\ LET form == Contents[Top.name][Top.pos]
         a == [Top EXCEPT !.pos = @ + 1]
     IN  IF Top.cflag \/ form.op = "eval" THEN Become(a)
         ELSE Push(Below, <<a>> \o
                CASE form.op = "require" -> <<Require(form.name, "test")>>
                  [] form.op = "try" -> <<Catch, Require(form.name, "test")>>
                  [] form.op = "load" -> <<Load(form.name, FALSE, FALSE)>>)
  /\ UNCHANGED <<fileVars, Unchanged>>

(* Variant: the file is left to the garbage collector. *)
EndOfFileOpen ==
  /\ Running("load", "forms")
  /\ Top.pos > Len(Contents[Top.name])
  /\ calls' = Below
  /\ UNCHANGED <<fileVars, Unchanged>>

EndOfFile ==
  /\ Running("load", "forms")
  /\ Top.pos > Len(Contents[Top.name])
  /\ siod_file_gc_free(Top.cell)
  /\ calls' = Below
  /\ UNCHANGED <<cells, held, Unchanged>>

(* siod_save_forms creates or appends to the file, whose forms stay what     *)
(* they are here, prints and closes it.                                     *)
SaveOpens(c) ==
  /\ Running("save_forms", "open")
  /\ c \notin cells
  /\ Cardinality(open) < MaxOpen
  /\ siod_fopen_cg(c)
  /\ where' = [where EXCEPT ![Top.name] = @ \union {"cwd"}]
  /\ Become([Top EXCEPT !.phase = "forms", !.cell = c])
  /\ UNCHANGED <<held, loaded, completed, abandoned, changes>>

SaveCloses ==
  /\ Running("save_forms", "forms")
  /\ siod_file_gc_free(Top.cell)
  /\ calls' = Below
  /\ UNCHANGED <<cells, held, Unchanged>>

(* siod_load_so: the object from here or else from the library, and its     *)
(* init function, all of it shielded from interrupts.                       *)
siod_load_so ==
  /\ Running("load_so", "open")
  /\ where[Top.name] # {}
  /\ calls' = Below
  /\ UNCHANGED <<fileVars, Unchanged>>

CatchReturns ==
  /\ calls # <<>> /\ Top.fn = "catch"
  /\ calls' = Below
  /\ UNCHANGED <<fileVars, Unchanged>>

(* Control goes on after the innermost catch. *)
LastCatch == Max({0} \union {i \in DOMAIN calls : calls[i].fn = "catch"})
Jump ==
  /\ calls' = SubSeq(calls, 1, LastCatch - 1)
  /\ abandoned' = abandoned \union
       ({calls[i].cell : i \in {j \in LastCatch + 1 .. Len(calls) : calls[j].fn \in HasFile}} \ {None})

(* An interrupt, a form that fails, no stack left; siod_load_so only fails. *)
err ==
  /\ calls # <<>>
  /\ Top.fn = "load_so" => where[Top.name] = {}
  /\ Jump
  /\ UNCHANGED <<fileVars, where, loaded, completed, changes>>

(* siod_fopen_cg fails after it has made its cell. *)
OpenFails(c) ==
  /\ \/ Running("load", "open") /\ ~CanOpen(Top.name, Top.dir)
     \/ Running("save_forms", "open") /\ Cardinality(open) = MaxOpen
  /\ c \notin cells
  /\ cells' = cells \union {c}
  /\ Jump
  /\ UNCHANGED <<inCell, open, held, where, loaded, completed, changes>>

(* Another process moves a file. *)
FileMoves(n, dirs) ==
  /\ changes < MaxChanges
  /\ where' = [where EXCEPT ![n] = dirs]
  /\ changes' = changes + 1
  /\ UNCHANGED <<calls, fileVars, loaded, completed, abandoned>>

Next ==
  \/ \E n \in Names, c \in Cells : fopen(n, c)
  \/ \E c \in Cells : siod_fclose_l(c) \/ siod_pclose_l(c) \/ Forget(c) \/ Collect(c) \/ Open(c) \/ OpenFails(c) \/ SaveOpens(c)
  \/ \E n \in Names : TopLevel(n)
  \/ RequireTests \/ RequireSets \/ Probe \/ Form \/ EndOfFile \/ SaveCloses \/ siod_load_so \/ CatchReturns
  \/ err
  \/ \E n \in Movable, dirs \in SUBSET {"cwd", "lib"} : FileMoves(n, dirs)

Spec == Init /\ [][Next]_vars

-----------------------------------------------------------------------------

(* A FILE is open exactly while a cell in use has it: no step loses one     *)
(* that is open, and none is closed twice or used after it was closed,      *)
(* whether load, fclose, pclose or the collector closed it, or nobody yet   *)
(* (slib.c 2268-2304, 2446-2470; slibu.c 1523-1535).                        *)
FilesOwned == open = inCell /\ inCell \subseteq cells /\ Referenced \ {None} \subseteq cells

(* Only an error, an interrupt or the program itself leaves a file open:    *)
(* load has closed its file whenever it returns (slib.c 2388).              *)
LoadCloses == open \subseteq Referenced \union abandoned

(* A file that requires others goes on only when these, and the parser its  *)
(* header names, have been loaded to their end (slib.c 2355-2405).          *)
DependenciesFirst ==
  \A i \in DOMAIN calls :
    (calls[i].fn = "load" /\ calls[i].phase = "forms" /\ ~calls[i].cflag) =>
      /\ Parser[calls[i].name] # None /\ (calls[i].pos > 1 \/ i = Len(calls)) =>
           completed[Parser[calls[i].name]] > 0
      /\ \A j \in 1 .. calls[i].pos - 1 :
           LET form == Contents[calls[i].name][j]
           IN  form.op = "require" /\ (j < calls[i].pos - 1 \/ i = Len(calls)) => completed[form.name] > 0

(* The files a file makes load; it is cyclic if whatever has these, and the *)
(* files that those make load, has the file itself.                         *)
Uses(n) == ({Contents[n][i].name : i \in {j \in DOMAIN Contents[n] : Contents[n][j].op # "eval"}}
            \union {Parser[n]}) \ {None}
Cyclic(n) ==
  \A used \in SUBSET Names : Uses(n) \subseteq used /\ (\A m \in used : Uses(m) \subseteq used) => n \in used

(* require loads a file once, however many files require it and whatever    *)
(* failed before, unless the file requires itself by way of others: then    *)
(* its flag is not yet set when it is asked for again (slib.c 2396-2405).   *)
LoadedOnce == \A n \in Names : completed[n] > 1 => Cyclic(n)
=============================================================================
