--------------------------- MODULE MarkSweepTrace ---------------------------
(***************************************************************************)
(* The storage manager with the traced closures of trace.c, a type whose   *)
(* cells it marks through a hook.  (trace f) wraps the body of f, which is *)
(* the program's own allocations and stores, and then changes the type of  *)
(* f's cell in place; (untrace f) changes it back.                         *)
(***************************************************************************)
EXTENDS MarkSweep

Retype(c, from, to) ==
  /\ pc = "run"
  /\ type[c] = from
  /\ type' = [type EXCEPT ![c] = to]
  /\ UNCHANGED <<mark, car, cdr, nactive, heap, freelist, program, calls, errjmp_ok, pc, gray, sweeping>>

(* siod_setcdr has accepted the closure's code: it is a cons. *)
siod_ltrace_1(c) == car[c] # NIL /\ type[car[c]] = "cons" /\ Retype(c, "closure", "traced")
siod_luntrace_1(c) == Retype(c, "traced", "closure")

TraceNext == Next \/ \E c \in locals : siod_ltrace_1(c) \/ siod_luntrace_1(c)

TraceSpec == Init /\ [][TraceNext]_vars
=============================================================================
