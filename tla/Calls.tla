-------------------------------- MODULE Calls --------------------------------
(***************************************************************************)
(* C functions that allocate while they update a structure, and the Lisp    *)
(* code that runs inside them: NEWCELL may collect, the collection may run  *)
(* the *after-gc* hook, and the hook may call the same functions.           *)
(*                                                                         *)
(* calls holds the activations of these functions, innermost last, with a   *)
(* Hook on top of one while its allocation runs the hook.                   *)
(***************************************************************************)
EXTENDS Naturals, Sequences

CONSTANT MaxDepth   \* bound: activations and hooks on the C stack

VARIABLE calls

Hook == [fn |-> "hook"]
Top == calls[Len(calls)]
Below(n) == SubSeq(calls, 1, n)
Popped == Below(Len(calls) - 1)

EvaluatesLisp == calls # <<>> => Top.fn = "hook"
Running(fn, phase) == ~EvaluatesLisp /\ Top.fn = fn /\ Top.phase = phase

Enter(a) ==
  /\ EvaluatesLisp
  /\ Len(calls) < MaxDepth
  /\ calls' = Append(calls, a)

(* The innermost activation, which is allocating, collects first. *)
RunHook ==
  /\ ~EvaluatesLisp
  /\ Len(calls) < MaxDepth
  /\ calls' = Append(calls, Hook)

HookReturns == calls # <<>> /\ Top.fn = "hook" /\ calls' = Popped

(* No storage, an interrupt, an error or a throw in the hook: control is    *)
(* back in Lisp code, that of an outer hook or that of the program.         *)
Unwind ==
  \E n \in 0 .. Len(calls) - 1 :
    /\ n > 0 => calls[n].fn = "hook"
    /\ calls' = Below(n)
=============================================================================
