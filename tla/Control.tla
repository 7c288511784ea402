------------------------------- MODULE Control -------------------------------
(***************************************************************************)
(* Non-local control in ULSIOD: the read-eval-print driver, *catch and      *)
(* *throw, err, the critical sections of siod_no_interrupt, the *after-gc*  *)
(* hook, and the signals SIGINT and SIGALRM, which may arrive between any   *)
(* two steps.                                                               *)
(*                                                                         *)
(* stack holds the activations of C functions that control passes through;  *)
(* an address in the C stack is a position in it, and NULL is 0.            *)
(***************************************************************************)
EXTENDS Integers, Sequences, FiniteSets

CONSTANTS
  Tags,         \* the tags of *catch and *throw
  errobj,       \* sym_errobj, the tag that takes errors
  catchall,     \* sym_catchall, the tag that takes everything
  Wants,        \* what callers of siod_repl_driver pass as want_sigint
  MaxDepth      \* bound: activations on the C stack

ASSUME TagsAssumption == errobj \in Tags /\ catchall \in Tags
ASSUME WantsAssumption == Wants \subseteq BOOLEAN
ASSUME DepthAssumption == MaxDepth \in Nat

NULL == 0
Wild == -1
Errors == {errobj, catchall}

VARIABLES
  stack,                \* activations, innermost last
  catch_framep,         \* the innermost catch frame
  errjmp_ok, nointerrupt, interrupt_differed, inside_err,
  sigint, osigint,      \* the disposition of SIGINT, and the one saved
  alarm,                \* "off", or pending: "weak" or, with the flag, "sure"
  pc,                   \* where the thread is, see TypeOK
  hookCaught,           \* history: an error was caught by a hook that runs
                        \* inside a critical section
  hookThrew             \* history: a throw left a critical section or err by
                        \* way of a hook

flags == <<errjmp_ok, nointerrupt, interrupt_differed, inside_err>>
signals == <<sigint, osigint, alarm>>
history == <<hookCaught, hookThrew>>
vars == <<stack, catch_framep, flags, signals, pc, history>>

(* Activations.  The driver knows whether it was asked to take SIGINT, a    *)
(* critical section and a collection what nointerrupt was before, and err   *)
(* whether it was given the value to return, whether it interrupted another *)
(* err, and the frame it has chosen.                                        *)
Driver(want) == [fn |-> "driver", want_sigint |-> want]
CatchFrame(t, n) == [fn |-> "catch", tag |-> t, next |-> n, retval |-> "none"]
Section(flag) == [fn |-> "section", flag |-> flag]
Collection(flag) == [fn |-> "gc", flag |-> flag, phase |-> "mark"]
Hook == [fn |-> "hook"]
ErrFrame(how, was, l) ==
  [fn |-> "err", given |-> how = "reraise", was_inside |-> was, frame |-> l, phase |-> "cons"]

Top == stack[Len(stack)]
Popped == SubSeq(stack, 1, Len(stack) - 1)
Running(fns) == pc = "run" /\ Top.fn \in fns
Push(a) == Len(stack) < MaxDepth /\ stack' = Append(stack, a)
At(fns) == {i \in 1 .. Len(stack) : stack[i].fn \in fns}

(* The first frame of the list from p that has one of the tags; a pointer   *)
(* to an activation that has ended leads anywhere.                          *)
IsFrame(p) == p \in At({"catch"})
Search(tags) ==
  LET found[p \in 0 .. catch_framep] ==
        IF p = NULL THEN NULL
        ELSE IF ~IsFrame(p) THEN Wild
        ELSE IF stack[p].tag \in tags THEN p
        ELSE found[stack[p].next]
  IN  found[catch_framep]

(* A hook between positions l and h that runs inside one of fns. *)
HookInside(fns, l, h) == \E i \in At({"hook"}), j \in At(fns) : l < j /\ j < i /\ i < h

Init ==
  /\ stack = <<>>
  /\ catch_framep = NULL
  /\ errjmp_ok = 0 /\ nointerrupt = 1 /\ interrupt_differed = 0 /\ inside_err = 0
  /\ sigint = "default" /\ osigint = "default" /\ alarm = "off"
  /\ pc = "out"
  /\ hookCaught = FALSE /\ hookThrew = FALSE

-----------------------------------------------------------------------------
(* err, called with C stack s: with a message ("error"), with the value an  *)
(* earlier error returned ("reraise") or with neither ("quit").  Its        *)
(* callers below say what becomes of interrupt_differed and alarm.          *)

Fatal == errjmp_ok = 0 /\ pc' = "exit" /\ UNCHANGED <<stack, inside_err>>

ToHandler(s, how) ==
  /\ errjmp_ok = 1
  /\ Search(Errors) \notin {NULL, Wild}
  /\ Len(s) <= MaxDepth
  /\ stack' = Append(s, ErrFrame(how, inside_err, Search(Errors)))
  /\ inside_err' = 1
  /\ pc' = "run"

ToDriver(how) ==
  /\ errjmp_ok = 1
  /\ Search(Errors) = NULL
  /\ stack # <<>>
  /\ stack' = <<stack[1]>>
  /\ inside_err' = 0
  /\ pc' = IF how = "quit" THEN "quit" ELSE "start"

(* The driver that set errjmp, or a catch frame, has returned. *)
ToNowhere ==
  /\ errjmp_ok = 1
  /\ Search(Errors) = Wild \/ (Search(Errors) = NULL /\ stack = <<>>)
  /\ pc' = "crashed"
  /\ UNCHANGED <<stack, inside_err>>

err(s, how) ==
  /\ nointerrupt' = 1
  /\ Fatal \/ ToHandler(s, how) \/ ToDriver(how) \/ ToNowhere
  /\ UNCHANGED <<catch_framep, errjmp_ok, sigint, osigint, history>>

(* What the frame is to return: the message of an error inside err is lost. *)
Retval == IF Top.was_inside = 1 /\ ~Top.given THEN "nil" ELSE "error"

(* Variant: interrupts stay off. *)
ErrSetsRetvalShielded ==
  /\ Running({"err"})
  /\ Top.phase = "cons"
  /\ stack' = [stack EXCEPT ![Top.frame].retval = Retval, ![Len(stack)].phase = "jump"]
  /\ inside_err' = 0
  /\ UNCHANGED <<catch_framep, errjmp_ok, nointerrupt, interrupt_differed, signals, pc, history>>

(* Variant: the flag that says err is running stays up. *)
ErrSetsRetvalInside ==
  /\ Running({"err"})
  /\ Top.phase = "cons"
  /\ stack' = [stack EXCEPT ![Top.frame].retval = Retval, ![Len(stack)].phase = "jump"]
  /\ nointerrupt' = 0
  /\ hookCaught' = (hookCaught \/ HookInside({"section"}, 0, Top.frame))
  /\ UNCHANGED <<catch_framep, errjmp_ok, interrupt_differed, inside_err, signals, pc, hookThrew>>

(* err has consed the value the frame is to return. *)
ErrSetsRetval ==
  /\ Running({"err"})
  /\ Top.phase = "cons"
  /\ stack' = [stack EXCEPT ![Top.frame].retval = Retval, ![Len(stack)].phase = "jump"]
  /\ nointerrupt' = 0
  /\ inside_err' = 0
  /\ hookCaught' = (hookCaught \/ HookInside({"section"}, 0, Top.frame))
  /\ UNCHANGED <<catch_framep, errjmp_ok, interrupt_differed, signals, pc, hookThrew>>

(* longjmp to frame l, whose function makes it the innermost again. *)
Land(l) ==
  /\ stack' = SubSeq(stack, 1, l)
  /\ catch_framep' = l
  /\ pc' = "caught"

ErrJumps ==
  /\ Running({"err"})
  /\ Top.phase = "jump"
  /\ Land(Top.frame)
  /\ UNCHANGED <<flags, signals, history>>

-----------------------------------------------------------------------------
(* *catch and *throw. *)

EvaluatesLisp == Running({"driver", "catch", "hook"})

siod_leval_catch(tag) ==
  /\ EvaluatesLisp
  /\ Push(CatchFrame(tag, catch_framep))
  /\ catch_framep' = Len(stack) + 1
  /\ UNCHANGED <<flags, signals, pc, history>>

siod_leval_catch_1 ==
  /\ Running({"catch"})
  /\ catch_framep' = stack[catch_framep].next
  /\ stack' = Popped
  /\ UNCHANGED <<flags, signals, pc, history>>

(* Variant: the frame is left in the list. *)
CaughtKeepingFrame ==
  /\ pc = "caught"
  /\ stack' = Popped
  /\ pc' = "run"
  /\ UNCHANGED <<catch_framep, flags, signals, history>>

Caught ==
  /\ pc = "caught"
  /\ catch_framep' = Top.next
  /\ stack' = Popped
  /\ pc' = "run"
  /\ UNCHANGED <<flags, signals, history>>

ThrowTo(l) ==
  /\ l \notin {NULL, Wild}
  /\ Land(l)
  /\ hookThrew' = (hookThrew \/ HookInside({"section", "err"}, l, Len(stack) + 1))
  /\ UNCHANGED <<flags, signals, hookCaught>>

(* Variant: catchall does not take throws. *)
LthrowExact(tag) ==
  /\ EvaluatesLisp
  /\ \/ ThrowTo(Search({tag}))
     \/ /\ Search({tag}) = NULL
        /\ err(stack, "error")
        /\ UNCHANGED <<interrupt_differed, alarm>>

siod_lthrow(tag) ==
  /\ EvaluatesLisp
  /\ \/ ThrowTo(Search({tag, catchall}))
     \/ /\ Search({tag, catchall}) = NULL
        /\ err(stack, "error")
        /\ UNCHANGED <<interrupt_differed, alarm>>

Consing == Running({"err"}) /\ Top.phase = "cons" /\ Top.given = FALSE

(* An error in Lisp code or in a critical section; no storage in err. *)
Error ==
  /\ EvaluatesLisp \/ Running({"section"}) \/ Consing
  /\ err(stack, "error")
  /\ UNCHANGED <<interrupt_differed, alarm>>

(* siod_lerr of the value an earlier error returned. *)
Reraise ==
  /\ EvaluatesLisp
  /\ err(stack, "reraise")
  /\ UNCHANGED <<interrupt_differed, alarm>>

siod_quit ==
  /\ EvaluatesLisp
  /\ err(stack, "quit")
  /\ UNCHANGED <<interrupt_differed, alarm>>

-----------------------------------------------------------------------------
(* Critical sections: flag = siod_no_interrupt(1) ... siod_no_interrupt(flag). *)

(* Variant: nointerrupt counts the critical sections. *)
CountSections ==
  /\ EvaluatesLisp \/ Running({"section"})
  /\ Push(Section(nointerrupt))
  /\ nointerrupt' = nointerrupt + 1
  /\ UNCHANGED <<catch_framep, errjmp_ok, interrupt_differed, inside_err, signals, pc, history>>

siod_no_interrupt_1 ==
  /\ EvaluatesLisp \/ Running({"section"})
  /\ Push(Section(nointerrupt))
  /\ nointerrupt' = 1
  /\ UNCHANGED <<catch_framep, errjmp_ok, interrupt_differed, inside_err, signals, pc, history>>

(* siod_no_interrupt(flag) as the activations s are what is left: an        *)
(* interrupt that was differed is raised now.                               *)
Restore(flag, s) ==
  \/ /\ flag = 0 /\ interrupt_differed = 1
     /\ interrupt_differed' = 0
     /\ err(s, "error")
     /\ UNCHANGED alarm
  \/ /\ flag = 1 \/ interrupt_differed = 0
     /\ nointerrupt' = flag
     /\ stack' = s
     /\ UNCHANGED <<catch_framep, errjmp_ok, interrupt_differed, inside_err, signals, pc, history>>

(* Variant: the end of a section lets interrupts in, whatever it is nested in. *)
LetInterruptsIn == Running({"section"}) /\ Restore(0, Popped)

siod_no_interrupt_flag == Running({"section"}) /\ Restore(Top.flag, Popped)

(* siod_lalarm, whose critical section holds nothing that can fail. *)
siod_lalarm(how) ==
  /\ EvaluatesLisp
  /\ alarm = "off"
  /\ alarm' = how
  /\ UNCHANGED <<stack, catch_framep, flags, sigint, osigint, pc, history>>

-----------------------------------------------------------------------------
(* siod_gc_for_newcell, called by whatever conses. *)

siod_gc_for_newcell ==
  /\ EvaluatesLisp \/ Running({"section"}) \/ Consing
  /\ Push(Collection(nointerrupt))
  /\ nointerrupt' = 1
  /\ errjmp_ok' = 0
  /\ UNCHANGED <<catch_framep, interrupt_differed, inside_err, signals, pc, history>>

GcEnds ==
  /\ Running({"gc"})
  /\ Top.phase = "mark"
  /\ errjmp_ok' = 1
  /\ stack' = [stack EXCEPT ![Len(stack)].phase = "done"]
  /\ UNCHANGED <<catch_framep, nointerrupt, interrupt_differed, inside_err, signals, pc, history>>

(* Interrupts are let in, and the hook runs if enough cells were found. *)
GcReturns ==
  /\ Running({"gc"})
  /\ Top.phase = "done"
  /\ Restore(Top.flag, Popped) \/ Restore(Top.flag, Append(Popped, Hook))

HookReturns ==
  /\ Running({"hook"})
  /\ stack' = Popped
  /\ UNCHANGED <<catch_framep, flags, signals, pc, history>>

-----------------------------------------------------------------------------
(* siod_repl_driver. *)

(* No storage for what ulsiod_main builds before the first driver. *)
StartupError ==
  /\ pc = "out"
  /\ errjmp_ok = 0
  /\ err(stack, "error")
  /\ UNCHANGED <<interrupt_differed, alarm>>

siod_repl_driver(want) ==
  /\ pc = "out"
  /\ stack' = <<Driver(want)>>
  /\ pc' = "start"
  /\ UNCHANGED <<catch_framep, flags, signals, history>>

(* setjmp has returned 0 or 1. *)
InstallHandlers ==
  /\ pc = "start"
  /\ IF Top.want_sigint
     THEN osigint' = sigint /\ sigint' = "siod"
     ELSE UNCHANGED <<sigint, osigint>>
  /\ pc' = "reset"
  /\ UNCHANGED <<stack, catch_framep, flags, alarm, history>>

(* Variant: the frames of the form that failed stay in the list. *)
ResetKeepingFrames ==
  /\ pc = "reset"
  /\ errjmp_ok' = 1 /\ interrupt_differed' = 0 /\ nointerrupt' = 0
  /\ pc' = "run"
  /\ hookCaught' = FALSE /\ hookThrew' = (hookThrew /\ inside_err = 1)
  /\ UNCHANGED <<stack, catch_framep, inside_err, signals>>

ResetState ==
  /\ pc = "reset"
  /\ catch_framep' = NULL
  /\ errjmp_ok' = 1 /\ interrupt_differed' = 0 /\ nointerrupt' = 0
  /\ pc' = "run"
  /\ hookCaught' = FALSE /\ hookThrew' = (hookThrew /\ inside_err = 1)
  /\ UNCHANGED <<stack, inside_err, signals>>

(* End of input, or setjmp has returned 2. *)
DriverReturns ==
  /\ Running({"driver"}) \/ pc = "quit"
  /\ sigint' = IF Top.want_sigint THEN osigint ELSE sigint
  /\ stack' = <<>>
  /\ pc' = "out"
  /\ UNCHANGED <<catch_framep, flags, osigint, alarm, history>>

-----------------------------------------------------------------------------
(* The signals. *)

Alive == pc \notin {"exit", "crashed"}

siod_handle_sigint ==
  /\ Alive
  /\ sigint = "siod"
  /\ \/ /\ nointerrupt = 1
        /\ interrupt_differed' = 1
        /\ UNCHANGED <<stack, catch_framep, errjmp_ok, nointerrupt, inside_err, pc, sigint, osigint, history>>
     \/ /\ nointerrupt = 0
        /\ err(stack, "error")
        /\ UNCHANGED interrupt_differed
  /\ UNCHANGED alarm

siod_handle_sigalrm ==
  /\ Alive
  /\ alarm # "off"
  /\ \/ /\ nointerrupt = 1
        /\ interrupt_differed' = IF alarm = "sure" THEN 1 ELSE interrupt_differed
        /\ UNCHANGED <<stack, catch_framep, errjmp_ok, nointerrupt, inside_err, pc, sigint, osigint, history>>
     \/ /\ nointerrupt = 0
        /\ err(stack, "error")
        /\ UNCHANGED interrupt_differed
  /\ alarm' = "off"

-----------------------------------------------------------------------------
Program ==
  \/ \E tag \in Tags : siod_leval_catch(tag) \/ siod_lthrow(tag)
  \/ siod_leval_catch_1 \/ Caught
  \/ Error \/ Reraise \/ siod_quit \/ ErrSetsRetval \/ ErrJumps
  \/ siod_no_interrupt_1 \/ siod_no_interrupt_flag
  \/ \E how \in {"weak", "sure"} : siod_lalarm(how)
  \/ siod_gc_for_newcell \/ GcEnds \/ GcReturns \/ HookReturns
  \/ InstallHandlers \/ ResetState \/ DriverReturns

Caller == StartupError \/ \E want \in Wants : siod_repl_driver(want)

Next == Program \/ Caller \/ siod_handle_sigint \/ siod_handle_sigalrm

Spec == Init /\ [][Next]_vars

-----------------------------------------------------------------------------
Positions == 0 .. MaxDepth + 1
Bits == {0, 1}
Activations ==
  [fn : {"driver"}, want_sigint : BOOLEAN]
    \cup [fn : {"catch"}, tag : Tags, next : Positions, retval : {"none", "nil", "error"}]
    \cup [fn : {"section"}, flag : Bits]
    \cup [fn : {"gc"}, flag : Bits, phase : {"mark", "done"}]
    \cup [fn : {"hook"}]
    \cup [fn : {"err"}, given : BOOLEAN, was_inside : Bits, frame : Positions, phase : {"cons", "jump"}]

TypeOK ==
  /\ stack \in Seq(Activations)
  /\ Len(stack) \in Positions /\ catch_framep \in Positions
  /\ errjmp_ok \in Bits /\ nointerrupt \in Bits
  /\ interrupt_differed \in Bits /\ inside_err \in Bits
  /\ sigint \in {"default", "siod"} /\ osigint \in {"default", "siod"}
  /\ alarm \in {"off", "weak", "sure"}
  /\ pc \in {"out", "start", "reset", "quit", "run", "caught", "exit", "crashed"}
  /\ hookCaught \in BOOLEAN /\ hookThrew \in BOOLEAN

(* The list of catch frames is the catch activations on the C stack, from   *)
(* the innermost outwards, whichever of them returns, throws or is thrown   *)
(* out of: no frame of a function that has returned is ever in it while the *)
(* program runs.                                                            *)
Innermost(p, n) ==
  /\ p = NULL \/ (p \in At({"catch"}) /\ p <= n)
  /\ \A q \in At({"catch"}) : q <= n => q <= p
FramesLinked ==
  pc \in {"run", "caught"} =>
    /\ Innermost(catch_framep, Len(stack))
    /\ \A p \in At({"catch"}) : Innermost(stack[p].next, p - 1)

(* As long as a driver is active err finds a place to go: a signal at any   *)
(* instruction, the driver's own included, never jumps to a function that   *)
(* has returned.                                                            *)
LandsInLiveFrames == pc = "crashed" => stack = <<>>

(* A signal arriving during a collection or a critical section waits for    *)
(* its end, and err is not usable within a collection, so that none leaves  *)
(* half-way.  Only a hook that catches an error inside a critical section   *)
(* can lift that.                                                           *)
Shielded ==
  pc = "run" /\ nointerrupt = 0 =>
    errjmp_ok = 1 /\ (At({"section", "gc"}) = {} \/ Top.fn = "err" \/ hookCaught)

(* Interrupts are not left off: outside critical sections, collections and  *)
(* err a signal is raised at once, unless a hook threw out of one of them.  *)
Responsive == pc = "run" /\ nointerrupt = 1 => At({"section", "gc", "err"}) # {} \/ hookThrew

(* The frame an error goes to gets the error's message and object: NIL only *)
(* when the error interrupted another one, never because inside_err was     *)
(* left set, unless a hook threw out of err.                                *)
MessageLostOnlyWhenNested ==
  Running({"err"}) /\ Top.was_inside = 1 =>
    hookThrew \/ Cardinality(At({"err"})) > 1

(* The tags of the catch frames of C stack s, innermost last. *)
InForce(s) ==
  LET tags[n \in 0 .. Len(s)] ==
        IF n = 0 THEN <<>>
        ELSE IF s[n].fn = "catch" THEN Append(tags[n - 1], s[n].tag)
        ELSE tags[n - 1]
  IN  tags[Len(s)]

(* The frames are the handlers in force of Catch, and every way of leaving  *)
(* them goes to the innermost one that takes the tag or the error.          *)
Handlers == INSTANCE Catch WITH handlers <- InForce(stack), All <- catchall
ImplementsCatch == Handlers!Spec

(* err never jumps to a driver that has returned. *)
ErrjmpLive == pc # "crashed"

(* A differed interrupt is taken back only to raise an error. *)
DifferedRaisesStep == interrupt_differed = 1 /\ interrupt_differed' = 0 => nointerrupt' = 1
DifferedRaises == [][DifferedRaisesStep]_vars
=============================================================================
