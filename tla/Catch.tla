-------------------------------- MODULE Catch --------------------------------
(***************************************************************************)
(* What *catch, *throw and errors promise the Scheme program: the handlers  *)
(* in force are a stack, and a throw or an error goes to the innermost      *)
(* handler that takes it and ends those inside it.                          *)
(***************************************************************************)
EXTENDS Naturals, Sequences

CONSTANTS
  Tags,         \* the tags of *catch and *throw
  Errors,       \* the tags that take errors: errobj and catchall
  All           \* the tag that takes everything

VARIABLE handlers   \* tags of the handlers in force, innermost last

Init == handlers = <<>>

Establish(tag) == handlers' = Append(handlers, tag)

Leave == handlers # <<>> /\ handlers' = SubSeq(handlers, 1, Len(handlers) - 1)

(* Control goes to handler i, the innermost one that takes tags. *)
Transfer(i, tags) ==
  /\ handlers[i] \in tags
  /\ \A j \in i + 1 .. Len(handlers) : handlers[j] \notin tags
  /\ handlers' = SubSeq(handlers, 1, i)

Throw(tag) == \E i \in 1 .. Len(handlers) : Transfer(i, {tag, All})

Error == \E i \in 1 .. Len(handlers) : Transfer(i, Errors)

(* An error nothing takes ends the top-level form. *)
Toplevel ==
  /\ \A i \in 1 .. Len(handlers) : handlers[i] \notin Errors
  /\ handlers' = <<>>

Next == (\E tag \in Tags : Establish(tag) \/ Throw(tag)) \/ Leave \/ Error \/ Toplevel

Spec == Init /\ [][Next]_handlers
=============================================================================
