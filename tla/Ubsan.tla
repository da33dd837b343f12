---------------------------------- MODULE Ubsan ----------------------------------
(***************************************************************************)
(* The handlers of undefined behaviour, src/src/ubsan/ubsan_handlers.c,    *)
(* and drt_printf and drt_die of src/src/common/san_printf.c, on the       *)
(* console they share.  One step prints one text.                          *)
(*                                                                         *)
(* Everything a handler prints after UBSAN_HANDLE, the types above all, is *)
(* behind an abort and is never printed.  The _abort variants call the     *)
(* plain ones; only for float_cast_overflow is there a difference.         *)
(***************************************************************************)
EXTENDS Printf, FiniteSets

CONSTANTS
  Threads,
  Handlers,   \* for a thread, the handlers the compiler has it call
  Printed,    \* for a thread, the directives other code prints with it
  Locations,  \* for a thread, its source locations: records [filename, line, column]
  Types,      \* for a thread, the types in its data
  Pointers,   \* the pointers a report may be about
  Numbers,    \* the small integers in the data of a report
  Stacks,     \* the stacks that may be captured
  NoThread    \* ubsan_lock is free; nothing has been printed

\* What a program may print: a directive of a format with its argument.
Directives ==
  [conv : STRING \ {"text", "forever"}, pad : STRING, width : Nat, long : 0 .. 3, n : Int, text : STRING]

Arithmetic == {"add_overflow", "sub_overflow", "mul_overflow", "negate_overflow", "divrem_overflow"}

HandlerNames ==
  Arithmetic \cup
  {"type_mismatch", "type_mismatch_v1", "shift_out_of_bounds", "out_of_bounds", "vla_bound_not_positive",
   "invalid_value", "invalid_builtin", "nonnull_arg", "implicit_conversion", "pointer_overflow",
   "function_type_mismatch", "builtin_unreachable", "float_cast_overflow"}

ASSUME UbsanConstants ==
  /\ NoThread \notin Threads
  /\ Pointers \subseteq Nat /\ Numbers \subseteq Nat /\ Stacks \subseteq Seq(Nat)
  /\ \A t \in Threads :
       /\ Handlers[t] \subseteq HandlerNames /\ Types[t] \subseteq STRING
       /\ Locations[t] \subseteq [filename : STRING, line : Nat, column : Nat]
       /\ Printed[t] \subseteq Directives

VARIABLES
  ubsan_lock,  \* the holder of ubsan_lock
  pc,          \* where a thread is in a handler; "run" is outside of all
  todo,        \* what it has still to print
  last,        \* who printed last, and was it under the lock
  issued,      \* history: what it was to print since it entered
  said,        \* history: the texts it has printed since it entered
  cut          \* history: has a report under the lock come into its own

vars == <<ubsan_lock, pc, todo, last, issued, said, cut>>

Init ==
  /\ ubsan_lock = NoThread
  /\ pc = [t \in Threads |-> "run"]
  /\ todo = [t \in Threads |-> <<>>]
  /\ last = [by |-> NoThread, locked |-> FALSE]
  /\ issued = [t \in Threads |-> <<>>]
  /\ said = [t \in Threads |-> <<>>]
  /\ cut = [t \in Threads |-> FALSE]

---------------------------------------------------------------------------------
(* What the handlers print. *)

ubsan_print_location(loc) ==
  IF loc.filename = Null
    THEN <<Text("<unknown>")>>
    ELSE <<String(loc.filename), Text(":"), Directive("u", loc.line), Text(":"), Directive("u", loc.column)>>

ubsan_print_type(td) == <<Text(IF td = Null THEN "<unknown type>" ELSE td)>>

TypeMismatch(ptr) == <<Text("  Pointer: "), Directive("p", ptr), Text("  Type: ")>>

TypeMismatchV1(ptr, alignment, kind) ==
  <<Text("  Pointer: "), Directive("p", ptr), Text("  Alignment: "), Directive("u", alignment),
    Text("  Type check kind: "), Directive("u", kind), Text("  Type: ")>>

\* The first label of the types; the types never follow.
TypeLabel(h) ==
  <<Text(IF h = "shift_out_of_bounds" THEN "  Left type: "
         ELSE IF h = "out_of_bounds" THEN "  Array type: " ELSE "  Type: ")>>

InvalidBuiltin(kind) == <<Text("  Kind: "), Directive("u", kind), Text("  Type: ")>>

NonnullArg(index) == <<Text("  Arg index: "), Directive("d", index), Text("  Attribute location: ")>>

ImplicitConversion(kind) == <<Text("  Kind: "), Directive("u", kind), Text("  From type: ")>>

PointerOverflow(base, result) ==
  <<Text("  Base: "), Directive("p", base), Text("  Result: "), Directive("p", result)>>

\* The details of a report of handler h, for all the data it can be given.
DetailsOf(h) ==
  CASE h = "type_mismatch" -> {TypeMismatch(p) : p \in Pointers}
    [] h = "type_mismatch_v1" -> {TypeMismatchV1(p, a, k) : p \in Pointers, a \in Numbers, k \in Numbers}
    [] h = "invalid_builtin" -> {InvalidBuiltin(k) : k \in Numbers}
    [] h = "nonnull_arg" -> {NonnullArg(i) : i \in Numbers}
    [] h = "implicit_conversion" -> {ImplicitConversion(k) : k \in Numbers}
    [] h = "pointer_overflow" -> {PointerOverflow(b, r) : b \in Pointers, r \in Pointers}
    [] OTHER -> {TypeLabel(h)}

\* UBSAN_HANDLE up to the stack; the heading is the name of the handler.
Handled(h, loc, details) ==
  <<Text(h)>> \o ubsan_print_location(loc) \o
  <<Text("\n")>> \o details \o <<Text("\n")>>

\* The handlers that are written out, with a type that may be unknown.
FunctionTypeMismatch(loc, type) ==
  <<Text("function_type_mismatch")>> \o ubsan_print_location(loc) \o
  <<Text("\n  Type: ")>> \o ubsan_print_type(type) \o <<Text("\n")>>

BuiltinUnreachable(loc) ==
  <<Text("builtin_unreachable")>> \o ubsan_print_location(loc) \o <<Text("\n")>>

FloatCastOverflow(loc, from, to) ==
  ubsan_print_location(loc) \o <<Text("float cast overflow: From type: ")>> \o ubsan_print_type(from) \o
  <<Text(" To type: ")>> \o ubsan_print_type(to) \o <<Text("\n")>>

Reports(t, h) ==
  CASE h = "function_type_mismatch" -> {FunctionTypeMismatch(l, ty) : l \in Locations[t], ty \in Types[t]}
    [] h = "builtin_unreachable" -> {BuiltinUnreachable(l) : l \in Locations[t]}
    [] h = "float_cast_overflow" -> {FloatCastOverflow(l, f, ty) : l \in Locations[t], f \in Types[t], ty \in Types[t]}
    [] OTHER -> {Handled(h, l, d) : l \in Locations[t], d \in DetailsOf(h)}

---------------------------------------------------------------------------------
(* The program. *)

Enter(t, where, items) ==
  /\ pc[t] = "run"
  /\ pc' = [pc EXCEPT ![t] = where]
  /\ todo' = [todo EXCEPT ![t] = items]
  /\ issued' = [issued EXCEPT ![t] = items]
  /\ UNCHANGED <<ubsan_lock, last, said, cut>>

\* A handler that reports under the lock.
LockedHandler(t) ==
  \E h \in Handlers[t] \ {"float_cast_overflow"} : \E items \in Reports(t, h) : Enter(t, "lock", items)

\* __ubsan_handle_float_cast_overflow takes no lock and returns; the _abort
\* variant aborts.
FloatCastHandler(t) ==
  /\ "float_cast_overflow" \in Handlers[t]
  /\ \E items \in Reports(t, "float_cast_overflow"), abort \in BOOLEAN : Enter(t, IF abort THEN "die" ELSE "print", items)

drt_printf(t) == \E d \in Printed[t] : Enter(t, "print", <<d>>)

\* Its callers give it no arguments.
drt_die(t) == Enter(t, "die", <<Text("\n[MISAN FATAL] "), Text("out of memory"), Text("\n")>>)

Program(t) == LockedHandler(t) \/ FloatCastHandler(t) \/ drt_printf(t) \/ drt_die(t)

---------------------------------------------------------------------------------
(* Steps of a handler. *)

Locked == {"report", "trace"}
Printing(t) == pc[t] \in {"print", "die", "report", "trace"} /\ todo[t] # <<>>

\* Slip: the lock is not waited for.
AcquireAtOnce(t) ==
  /\ pc[t] = "lock"
  /\ ubsan_lock' = t
  /\ pc' = [pc EXCEPT ![t] = "report"]
  /\ UNCHANGED <<todo, last, issued, said, cut>>

Acquire(t) ==
  /\ pc[t] = "lock" /\ ubsan_lock = NoThread
  /\ ubsan_lock' = t
  /\ pc' = [pc EXCEPT ![t] = "report"]
  /\ UNCHANGED <<todo, last, issued, said, cut>>

Show(t) ==
  /\ last' = [by |-> t, locked |-> pc[t] \in Locked]
  /\ cut' = [cut EXCEPT ![t] = @ \/ (said[t] # <<>> /\ pc[t] \in Locked /\ last.by # t /\ last.locked)]

\* drt_arch_print_string.
PrintText(t) ==
  /\ Printing(t) /\ Head(todo[t]).conv = "text"
  /\ Show(t)
  /\ said' = [said EXCEPT ![t] = Append(@, Head(todo[t]).text)]
  /\ todo' = [todo EXCEPT ![t] = Tail(@)]
  /\ UNCHANGED <<ubsan_lock, pc, issued>>

\* The loop of drt_putn that never ends.
PrintPad(t) ==
  /\ Printing(t) /\ Head(todo[t]).conv = "forever"
  /\ Show(t)
  /\ UNCHANGED <<ubsan_lock, pc, todo, issued, said>>

Format(t) ==
  /\ Printing(t) /\ Head(todo[t]).conv \notin {"text", "forever"}
  /\ todo' = [todo EXCEPT ![t] = Expand(Head(@)) \o Tail(@)]
  /\ UNCHANGED <<ubsan_lock, pc, last, issued, said, cut>>

\* Slip: the lock is released before the stack is printed.
CaptureUnlocked(t) ==
  /\ pc[t] = "report" /\ todo[t] = <<>>
  /\ \E pcs \in Stacks :
       /\ todo' = [todo EXCEPT ![t] = StackTrace(pcs)]
       /\ issued' = [issued EXCEPT ![t] = @ \o StackTrace(pcs)]
  /\ pc' = [pc EXCEPT ![t] = "trace"]
  /\ ubsan_lock' = NoThread
  /\ UNCHANGED <<last, said, cut>>

Capture(t) ==
  /\ pc[t] = "report" /\ todo[t] = <<>>
  /\ \E pcs \in Stacks :
       /\ todo' = [todo EXCEPT ![t] = StackTrace(pcs)]
       /\ issued' = [issued EXCEPT ![t] = @ \o StackTrace(pcs)]
  /\ pc' = [pc EXCEPT ![t] = "trace"]
  /\ UNCHANGED <<ubsan_lock, last, said, cut>>

Leave(t, where) ==
  /\ pc' = [pc EXCEPT ![t] = where]
  /\ issued' = [issued EXCEPT ![t] = <<>>] /\ said' = [said EXCEPT ![t] = <<>>]
  /\ cut' = [cut EXCEPT ![t] = FALSE]
  /\ UNCHANGED <<todo, last>>

Unlock(t) ==
  /\ pc[t] = "trace" /\ todo[t] = <<>>
  /\ ubsan_lock' = NoThread
  /\ Leave(t, "abort")

\* The end of what prints without the lock.
Return(t) ==
  /\ pc[t] \in {"print", "die"} /\ todo[t] = <<>>
  /\ Leave(t, IF pc[t] = "die" THEN "abort" ELSE "run")
  /\ UNCHANGED ubsan_lock

Step(t) ==
  \/ Acquire(t) \/ PrintText(t) \/ PrintPad(t) \/ Format(t) \/ Capture(t) \/ Unlock(t) \/ Return(t)

Next == \E t \in Threads : Program(t) \/ Step(t)

Spec == Init /\ [][Next]_vars

\* A thread in a handler goes on; the program need not call one.
Fairness == \A t \in Threads : WF_vars(Step(t))

FairSpec == Spec /\ Fairness

---------------------------------------------------------------------------------
(* What should hold. *)

\* The lock, control and the console have their types, and the lock has a holder
\* exactly while one thread is between drt_spin_lock and drt_spin_unlock.
TypeOK ==
  /\ ubsan_lock \in Threads \cup {NoThread}
  /\ \A t \in Threads : pc[t] \in {"run", "lock", "report", "trace", "print", "die", "abort"}
  /\ \A t \in Threads : ubsan_lock = t <=> pc[t] \in Locked
  /\ \A t \in Threads : todo[t] # <<>> => pc[t] \in {"lock", "report", "trace", "print", "die"}
  /\ last \in [by : Threads \cup {NoThread}, locked : BOOLEAN]

CTexts(items) == FlattenSeq([i \in 1 .. Len(items) |-> CText(items[i])])

\* What a thread has printed, with what it has still to print, is at every
\* moment the text C's printf gives for what it was asked to print: every value
\* of every width, the smallest included, comes out right, and nothing is lost,
\* doubled or out of its turn.  Nothing is said of a thread that was asked to
\* print a number shorter than its field; and of a null string or a conversion
\* the code does not know, only that its text comes in its turn (CText).
TextAsInC ==
  \A t \in Threads :
    (\A i \in 1 .. Len(issued[t]) : ~Short(issued[t][i])) => said[t] \o CTexts(todo[t]) = CTexts(issued[t])

\* No two reports under ubsan_lock run into each other, whatever other code
\* prints meanwhile.
ReportsWhole == \A t \in Threads : ~cut[t]

\* The thread prints a number that does not fill its field.
PrintsShort(t) == \E i \in 1 .. Len(issued[t]) : Short(issued[t][i])

\* A report comes to its abort, and is never returned from, unless a number
\* shorter than its field is in the way of it or of a report before it.
ReportEndsInAbort ==
  \A t \in Threads : pc[t] = "lock" ~> (pc[t] = "abort" \/ \E u \in Threads : PrintsShort(u) /\ pc[u] \in Locked)

\* "All handlers report then abort" (ubsan_handlers.c:2-3), of the handlers
\* that take the lock.
AllHandlersAbort == \A t \in Threads : pc[t] = "lock" ~> pc[t] = "abort"

=================================================================================
