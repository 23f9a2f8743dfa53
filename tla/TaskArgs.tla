------------------------------ MODULE TaskArgs ------------------------------
(***************************************************************************)
(* Where the variadic create_task (scheduler.h) puts the arguments of a    *)
(* new task: two passes over them, _calc_sizes and _process_arg, then the  *)
(* stack pointer and the entry address.  The interrupts are disabled       *)
(* throughout, so nothing else happens in between.  The entry function     *)
(* looks for its arguments where avr-gcc's calling convention has them.    *)
(***************************************************************************)
EXTENDS Integers, Sequences

CONSTANTS
  ArgSizes,    \* the sizes of argument types, in bytes
  MaxArgs,     \* bound: arguments of a task; they fit the address space together
  StackSizes   \* the lengths of the stack array

Word == 65536   \* the values of an uint16_t

SizesFit ==
  /\ ArgSizes \subseteq 1..255 /\ MaxArgs \in 0..255
  /\ StackSizes \subseteq 1..(Word - 1)

ASSUME ConstantsAssumption == SizesFit

VARIABLES
  args,          \* args[i]: sizeof the i-th argument
  size,          \* task.stack.size
  pass,          \* "calc", "process" or "done"
  next,          \* the argument it is the turn of
  args_to_stack, regs_used, stack_used, stack_base,
  place,         \* place[i]: where the i-th argument has been copied
  task_sp,       \* task.cpu_state.sp, as an index of the stack array
  entry          \* the index of the array element with the entry's high byte

args_vars ==
  <<args, size, pass, next, args_to_stack, regs_used, stack_used, stack_base,
    place, task_sp, entry>>

Places == [in : {"regs", "stack"}, base : Int]

ArgsTypeOK ==
  /\ args \in Seq(ArgSizes) /\ Len(args) <= MaxArgs /\ size \in StackSizes
  /\ pass \in {"calc", "process", "done"} /\ next \in 1..(Len(args) + 1)
  /\ args_to_stack \in BOOLEAN
  /\ regs_used \in 0..16 /\ stack_used \in 0..(Word - 1) /\ stack_base \in 0..(Word - 1)
  /\ place \in Seq(Places) /\ task_sp \in 0..(Word - 1) /\ entry \in 0..(Word - 1)

\* The other create_task has returned: task_sp and entry are set for a task
\* without arguments.
ArgsInit ==
  /\ args \in UNION {[1..n -> ArgSizes] : n \in 0..MaxArgs}
  /\ size \in StackSizes
  /\ pass = "calc" /\ next = 1
  /\ args_to_stack = FALSE /\ regs_used = 0 /\ stack_used = 0 /\ stack_base = 0
  /\ place = <<>>
  /\ task_sp = (size - 3) % Word /\ entry = (size - 2) % Word

Rounded(n) == n + (n % 2)

FitsInRegs == regs_used + Rounded(args[next]) < 17 /\ ~args_to_stack

_calc_sizes ==
  /\ pass = "calc" /\ next <= Len(args)
  /\ next' = next + 1
  /\ \/ /\ FitsInRegs
        /\ regs_used' = regs_used + Rounded(args[next])
        /\ UNCHANGED <<args_to_stack, stack_used>>
     \/ /\ ~FitsInRegs
        /\ args_to_stack' = TRUE
        /\ stack_used' = (stack_used + args[next]) % Word
        /\ UNCHANGED regs_used
  /\ UNCHANGED <<args, size, pass, stack_base, place, task_sp, entry>>

\* Between the passes.
Restart ==
  /\ pass = "calc" /\ next > Len(args)
  /\ pass' = "process" /\ next' = 1
  /\ stack_base' = stack_used /\ regs_used' = 0 /\ args_to_stack' = FALSE
  /\ UNCHANGED <<args, size, stack_used, place, task_sp, entry>>

\* Mutant: the padding is put below an argument of odd size.
_process_arg_low ==
  /\ pass = "process" /\ next <= Len(args)
  /\ next' = next + 1
  /\ \/ /\ FitsInRegs
        /\ place' = Append(place, [in |-> "regs", base |-> 25 - regs_used - args[next] + 1])
        /\ regs_used' = regs_used + Rounded(args[next])
        /\ UNCHANGED <<args_to_stack, stack_used>>
     \/ /\ ~FitsInRegs
        /\ args_to_stack' = TRUE
        /\ place' = Append(place, [in |-> "stack", base |-> (size - stack_used - 1) % Word])
        /\ stack_used' = (stack_used - args[next]) % Word
        /\ UNCHANGED regs_used
  /\ UNCHANGED <<args, size, pass, stack_base, task_sp, entry>>

_process_arg ==
  /\ pass = "process" /\ next <= Len(args)
  /\ next' = next + 1
  /\ \/ /\ FitsInRegs
        /\ place' = Append(place, [in |-> "regs",
                                   base |-> 25 - regs_used - Rounded(args[next]) + 1])
        /\ regs_used' = regs_used + Rounded(args[next])
        /\ UNCHANGED <<args_to_stack, stack_used>>
     \/ /\ ~FitsInRegs
        /\ args_to_stack' = TRUE
        /\ place' = Append(place, [in |-> "stack", base |-> (size - stack_used - 1) % Word])
        /\ stack_used' = (stack_used - args[next]) % Word
        /\ UNCHANGED regs_used
  /\ UNCHANGED <<args, size, pass, stack_base, task_sp, entry>>

\* Mutant: the stack pointer is set right below the arguments.
set_entry_over ==
  /\ pass = "process" /\ next > Len(args) /\ pass' = "done"
  /\ \/ stack_base = 0 /\ UNCHANGED <<task_sp, entry>>
     \/ /\ stack_base # 0
        /\ task_sp' = (size - stack_base - 2) % Word
        /\ entry' = (task_sp' + 1) % Word
  /\ UNCHANGED <<args, size, next, args_to_stack, regs_used, stack_used, stack_base, place>>

\* if (stack_base != 0): the stack pointer and the entry address are set anew.
set_entry ==
  /\ pass = "process" /\ next > Len(args) /\ pass' = "done"
  /\ \/ stack_base = 0 /\ UNCHANGED <<task_sp, entry>>
     \/ /\ stack_base # 0
        /\ task_sp' = (size - stack_base - 6) % Word
        /\ entry' = (task_sp' + 1) % Word
  /\ UNCHANGED <<args, size, next, args_to_stack, regs_used, stack_used, stack_base, place>>

ArgsNext == _calc_sizes \/ Restart \/ _process_arg \/ set_entry

ArgsSpec == ArgsInit /\ [][ArgsNext]_args_vars

(***************************************************************************)
(* The calling convention (avr-gcc): arguments go to r25..r8 from left to  *)
(* right, each in an even number of registers, its lowest byte in the      *)
(* lowest one; the first that does not fit and all behind it are on the    *)
(* stack, lowest address first, above the return address.                  *)
(***************************************************************************)
\* Sums(a)[i]: the sum of the first i elements.
Sums(a) ==
  LET sum[i \in 0..Len(a)] == IF i = 0 THEN 0 ELSE sum[i - 1] + a[i]
  IN sum

\* What the first i arguments need: registers, and, with r bytes of registers
\* to use, bytes of stack.
RegBytes == Sums([i \in 1..Len(args) |-> Rounded(args[i])])
StackBytes(r) == Sums([i \in 1..Len(args) |-> IF RegBytes[i] > r THEN args[i] ELSE 0])

\* The stack pointer when the entry function starts: the two bytes of its
\* address have been popped by reti or ret.
EntrySp == task_sp + 2

ExpectedPlace(i) ==
  IF RegBytes[i] <= 18 THEN [in |-> "regs", base |-> 26 - RegBytes[i]]
  ELSE [in |-> "stack", base |-> EntrySp + 3 + StackBytes(18)[i - 1]]

\* The bytes of the arguments on the stack, as indices of the array.
Bytes(i) == place[i].base .. (place[i].base + args[i] - 1)
OnStack == {i \in 1..Len(args) : place[i].in = "stack"}

(***************************************************************************)
(* Properties.                                                             *)
(***************************************************************************)
\* Among the first i arguments one should end in r9 and r8 (18 bytes of
\* registers).  The code does not use them: "regs_used + arg_size + padding < 17".
UsesR8(i) == \E k \in 1..i : RegBytes[k] = 18

\* The arrays below this length are too short; create_task does not look.
Roomy == size >= stack_base + 6

\* scheduler.h, "Arguments allocated left to right r25-r8": the entry function
\* finds every argument where it looks for it, in whatever order sizes come.
ArgumentsFound ==
  pass = "done" /\ Roomy => \A i \in 1..Len(args) : place[i] = ExpectedPlace(i)

\* _calc_sizes / _process_arg: which arguments the entry function finds where it
\* looks for them: all up to the first one that should end in r8, which the code
\* puts on the stack, and from there on none.
FoundBelowR8 ==
  pass = "done" /\ Roomy
    => \A i \in 1..Len(args) : place[i] = ExpectedPlace(i) <=> ~UsesR8(i)

\* create_task: arguments and entry address are written inside the stack array,
\* no two on the same byte, and none below the stack pointer, where the first
\* push of the task would destroy it.
StackIntact ==
  pass = "done" /\ Roomy
    => /\ entry = task_sp + 1 /\ entry + 1 < size
       /\ \A i \in OnStack :
            /\ Bytes(i) \subseteq (entry + 2)..(size - 1)
            /\ \A j \in OnStack : i # j => Bytes(i) \cap Bytes(j) = {}

\* The counters after k arguments, in either pass: registers go first, and the
\* first argument that needs more than 16 bytes sends all behind it to the stack.
Counted(k) ==
  /\ args_to_stack <=> RegBytes[k] > 16
  /\ ~args_to_stack => regs_used = RegBytes[k]

\* Where _process_arg puts the i-th argument: the first one on the stack lowest.
CodePlace(i) ==
  IF RegBytes[i] <= 16 THEN [in |-> "regs", base |-> 26 - RegBytes[i]]
  ELSE LET above == StackBytes(16)[Len(args)] - StackBytes(16)[i - 1]
       IN [in |-> "stack", base |-> (size - above - 1) % Word]

\* The second pass repeats the decisions of the first, and gives back, argument
\* by argument, the bytes that pass has counted.
PassesAgree ==
  LET k == next - 1
      bytes == StackBytes(16)
  IN /\ Counted(k)
     /\ pass = "calc" => stack_used = bytes[k] /\ stack_base = 0 /\ place = <<>>
     /\ pass # "calc" =>
          /\ stack_base = bytes[Len(args)] /\ stack_used = bytes[Len(args)] - bytes[k]
          /\ Len(place) = k /\ \A i \in 1..k : place[i] = CodePlace(i)
     /\ pass = "done" => next = Len(args) + 1

\* task_sp and entry belong to a task without arguments on its stack, or, at the
\* end, lie below the arguments.
EntrySet ==
  \/ /\ pass = "done" /\ stack_base # 0
     /\ task_sp = (size - stack_base - 6) % Word /\ entry = (task_sp + 1) % Word
  \/ /\ pass # "done" \/ stack_base = 0
     /\ task_sp = (size - 3) % Word /\ entry = (size - 2) % Word

\* create_task: the counters of both passes stay in range, the passes agree, and
\* in an array that is long enough nothing is written over anything else.
ArgsInv == ArgsTypeOK /\ PassesAgree /\ EntrySet /\ StackIntact
=============================================================================
