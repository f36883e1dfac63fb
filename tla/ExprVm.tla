-------------------------------- MODULE ExprVm --------------------------------
(***************************************************************************)
(* The two machines that evaluate compiled expressions, eval::vm (the      *)
(* cases of a switch state) and ir::expr_vm, side by side on one program.  *)
(*                                                                         *)
(* A program is chosen as it is executed: NothingTwice is why that is a    *)
(* program.  Integers have Width bits and the overflow of i64.  A text is  *)
(* a word over two digits and a letter, so that some read as numbers;      *)
(* lists and objects are left out.  Floats are of eval::vm alone and       *)
(* without their numbers: whatever depends on one may come out either way. *)
(***************************************************************************)
EXTENDS Integers, Sequences

CONSTANTS
  Width,        \* bits of an integer; 64
  MaxLetters,   \* bound: letters of a text constant
  StackMax,     \* values the stack of either machine holds; 64
  MaxOps        \* bound: instructions of a program

ASSUME ExprAssumption ==
  /\ Width \in Nat \ {0, 1}
  /\ MaxLetters \in Nat /\ StackMax \in Nat \ {0} /\ MaxOps \in Nat \ {0}

VARIABLES
  size,   \* instructions of the program
  pc,     \* those executed or jumped over
  ir, ev, \* the machines: the stack, its top first, and the result
  numerals \* history: two texts that both read as numbers were compared or added

xvars == <<size, pc, ir, ev, numerals>>

MinInt == -(2 ^ (Width - 1))
MaxInt == 2 ^ (Width - 1) - 1

\* A value: its type, its number or truth or the length of its text, and the text.
Val(t, v) == [t |-> t, v |-> v, w |-> <<>>]
Null    == Val("null", 0)
Num(n)  == Val("int", n)
Text(w) == [t |-> "text", v |-> Len(w), w |-> w]
Truth(b) == Val("bool", IF b THEN 1 ELSE 0)
Float   == Val("float", 0)
Error   == Val("error", 0)
Panic   == Val("panic", 0)    \* the thread panics
Running == Val("running", 0)
Absent  == Val("absent", 0)   \* the machine does not have an instruction of the program

\* The digits 0 and 1, and 2 for a letter, which comes after them in UTF-8.
Digits  == 0 .. 1
Letters == 0 .. 2

Constant == {Null} \cup {Num(n) : n \in MinInt .. MaxInt} \cup {Truth(b) : b \in BOOLEAN}
                   \cup {Text(w) : w \in UNION {[1 .. n -> Letters] : n \in 0 .. MaxLetters}}

\* The slots of the frame: a null and a number; no other index is in bounds.
Frame == <<Null, Num(MaxInt)>>
SlotAt(i) == IF i \in DOMAIN Frame THEN Frame[i] ELSE Error

Compares   == {"Lt", "Le", "Gt", "Ge"}
Arithmetic == {"Add", "Sub", "Mul", "Div", "Mod"}
Logic      == {"And", "Or"}
TextTests  == {"Contains", "StartsWith", "EndsWith"}
Jumps      == {"Jump", "JumpTrue", "JumpFalse"}

Instruction ==
  {<<"LoadConst", v>> : v \in Constant}
  \cup {"LoadSlot", "LoadAccessor", "Exists"} \X (1 .. 3)
  \cup (Compares \cup Arithmetic \cup Logic \cup TextTests) \X {0}
  \cup {"Eq", "Ne", "Not", "Length"} \X {0}
  \cup Jumps \X (0 .. MaxOps)

OnlyIr == {"LoadAccessor", "Exists", "Length"} \cup TextTests \cup Jumps
OnlyEv == {"Ne"}

----------------------------------------------------------------------------
(* What both do alike.                                                     *)

\* Division rounds towards zero, and the remainder has the sign of the dividend.
Magnitude(n) == IF n < 0 THEN -n ELSE n
Quotient(a, b) ==
  LET q == Magnitude(a) \div Magnitude(b) IN IF (a < 0) = (b < 0) THEN q ELSE -q
Remainder(a, b) == a - b * Quotient(a, b)

\* Whether op holds of two operands, by the order and the equality they have.
Holds(op, less, equal) ==
  \/ op = "Lt" /\ less
  \/ op = "Le" /\ (less \/ equal)
  \/ op = "Gt" /\ ~less /\ ~equal
  \/ op = "Ge" /\ ~less

\* The number an operation has without bounds; b is not zero in a division.
Unbounded(op, a, b) ==
  CASE op = "Add" -> a + b
    [] op = "Sub" -> a - b
    [] op = "Mul" -> a * b
    [] op = "Div" -> Quotient(a, b)
    [] op = "Mod" -> Remainder(a, b)

Divides(op) == op \in {"Div", "Mod"}

\* MinInt by -1 is the one pair whose quotient is no i64; % fails for it as well.
Edge(op, a, b) == Divides(op) /\ a = MinInt /\ b = -1

Push(m, x) ==
  IF x \in {Error, Panic} THEN [m EXCEPT !.out = x]
  ELSE IF Len(m.stack) >= StackMax THEN [m EXCEPT !.out = Error]
  ELSE [m EXCEPT !.stack = <<x>> \o @]

Faults(m) == [m EXCEPT !.out = Error]
Pop(m, n) == [m EXCEPT !.stack = SubSeq(@, n + 1, Len(@))]

\* The result is the top of the stack, whatever is below it.
Result(m) == IF m.out # Running THEN m
             ELSE IF m.stack = <<>> THEN Faults(m) ELSE [m EXCEPT !.out = m.stack[1]]

----------------------------------------------------------------------------
(* ir::expr_vm: no conversions, and an overflow is an error.               *)

IrTruthy(a) == a.v # 0

\* The order of texts: u is a beginning of w, or smaller where they first differ.
Before(u, w) ==
  \E i \in DOMAIN w : /\ i <= Len(u) + 1 /\ \A j \in 1 .. i - 1 : u[j] = w[j]
                      /\ i \in DOMAIN u => u[i] < w[i]

IrCompare(op, a, b) ==
  CASE a.t = "int" /\ b.t = "int"   -> Truth(Holds(op, a.v < b.v, a.v = b.v))
    [] a.t = "text" /\ b.t = "text" -> Truth(Holds(op, Before(a.w, b.w), a.w = b.w))
    [] OTHER -> Error

IrArithmetic(op, a, b) ==
  IF op = "Add" /\ a.t = "text" /\ b.t = "text" THEN Text(a.w \o b.w)
  ELSE IF a.t # "int" \/ b.t # "int" THEN Error
  ELSE IF (Divides(op) /\ b.v = 0) \/ Edge(op, a.v, b.v) THEN Error
  ELSE LET n == Unbounded(op, a.v, b.v) IN
         IF n \in MinInt .. MaxInt THEN Num(n) ELSE Error

\* The places of u in w: the lengths of what stands before it.
Places(u, w) == {n \in 0 .. Len(w) - Len(u) : SubSeq(w, n + 1, n + Len(u)) = u}

IrTextTest(op, a, b) ==
  IF a.t # "text" \/ b.t # "text" THEN Error
  ELSE Truth(\/ op = "Contains" /\ Places(b.w, a.w) # {}
             \/ op = "StartsWith" /\ 0 \in Places(b.w, a.w)
             \/ op = "EndsWith" /\ a.v - b.v \in Places(b.w, a.w))

IrBinary(op, a, b) ==
  IF op = "Eq" THEN Truth(a = b)
  ELSE IF op \in Compares THEN IrCompare(op, a, b)
  ELSE IF op \in Arithmetic THEN IrArithmetic(op, a, b)
  ELSE IF op \in TextTests THEN IrTextTest(op, a, b)
  ELSE Truth(IF op = "And" THEN IrTruthy(a) /\ IrTruthy(b) ELSE IrTruthy(a) \/ IrTruthy(b))

\* Mutant: pop2 returns the top of the stack first, and it is taken for the left
\* operand.
IrOperandsSwapped(m, op) == Push(Pop(m, 2), IrBinary(op, m.stack[1], m.stack[2]))
IrOperands(m, op)        == Push(Pop(m, 2), IrBinary(op, m.stack[2], m.stack[1]))

IrLength(a) == Num(IF a.t = "text" THEN a.v ELSE IF a = Null THEN 0 ELSE 1)

Needs(op) == IF op \in {"Not", "Length", "JumpTrue", "JumpFalse"} THEN 1 ELSE 2

\* The jump is taken, once the condition has been popped.
Taken(op, a) ==
  \/ op = "Jump"
  \/ op = "JumpTrue" /\ IrTruthy(a)
  \/ op = "JumpFalse" /\ ~IrTruthy(a)

\* Mutant: what the comments say, the increment of the loop is skipped.
LandsUnincremented(n) == pc + n
\* eval increments pc after every instruction, also after a jump.
Lands(n) == pc + n + 1

IrStep(op, arg) ==
  LET m == ir IN
  CASE op \in {"LoadSlot", "LoadAccessor"} -> Push(m, SlotAt(arg))
    [] op = "LoadConst" -> Push(m, arg)
    [] op = "Exists"    -> Push(m, Truth(arg \in DOMAIN Frame /\ SlotAt(arg) # Null))
    [] op = "Jump"      -> IF pc + arg >= size THEN Faults(m) ELSE m
    [] OTHER ->
         IF Len(m.stack) < Needs(op) THEN Faults(m)
         ELSE IF op = "Not"    THEN Push(Pop(m, 1), Truth(~IrTruthy(m.stack[1])))
         ELSE IF op = "Length" THEN Push(Pop(m, 1), IrLength(m.stack[1]))
         ELSE IF op \in Jumps
           THEN IF Taken(op, m.stack[1]) /\ pc + arg >= size THEN Faults(m) ELSE Pop(m, 1)
         ELSE IrOperands(m, op)

----------------------------------------------------------------------------
(* eval::vm: numbers and truths are converted, and an overflow saturates.  *)
(* Each operator gives the set of what may come out.                       *)

\* A text reads as the number its digits give, which f64 holds exactly up to 2^53.
\* The words have no sign, point or exponent, with which texts read as numbers too.
ReadsAsNumber(a) == a.t = "text" /\ a.w # <<>> /\ \A i \in DOMAIN a.w : a.w[i] \in Digits
Decimal(w) == LET d[n \in 0 .. Len(w)] == IF n = 0 THEN 0 ELSE 10 * d[n - 1] + w[n]
              IN d[Len(w)]

Numeric(a) == a.t \in {"int", "bool", "float"} \/ ReadsAsNumber(a)
Number(a)  == IF a.t = "text" THEN Decimal(a.w) ELSE a.v
Either     == {Truth(TRUE), Truth(FALSE)}

EvTruths(a) == IF a.t = "float" THEN BOOLEAN ELSE {a.v # 0}

EvCompare(op, a, b) ==
  IF ~Numeric(a) \/ ~Numeric(b) THEN {Error}
  ELSE IF "float" \in {a.t, b.t} THEN Either
  ELSE {Truth(Holds(op, Number(a) < Number(b), Number(a) = Number(b)))}

EvArithmetic(op, a, b) ==
  IF ~Numeric(a) \/ ~Numeric(b) THEN {Error}
  ELSE IF Divides(op) /\ b.t # "float" /\ Number(b) = 0 THEN {Error}
  ELSE IF a.t # "int" \/ b.t # "int"
    THEN {Float} \cup (IF Divides(op) /\ b.t = "float" THEN {Error} ELSE {})
  ELSE IF Edge(op, a.v, b.v) THEN {Panic}
  ELSE LET n == Unbounded(op, a.v, b.v) IN
         {Num(IF n < MinInt THEN MinInt ELSE IF n > MaxInt THEN MaxInt ELSE n)}

EvEqual(a, b) == IF a = Float /\ b = Float THEN BOOLEAN ELSE {a = b}

EvBinary(op, a, b) ==
  IF op = "Eq" THEN {Truth(q) : q \in EvEqual(a, b)}
  ELSE IF op = "Ne" THEN {Truth(~q) : q \in EvEqual(a, b)}
  ELSE IF op \in Compares THEN EvCompare(op, a, b)
  ELSE IF op \in Arithmetic THEN EvArithmetic(op, a, b)
  ELSE IF op = "And" THEN {Truth(x /\ y) : x \in EvTruths(a), y \in EvTruths(b)}
  ELSE {Truth(x \/ y) : x \in EvTruths(a), y \in EvTruths(b)}

EvSteps(op, arg) ==
  LET m == ev IN
  CASE op = "LoadSlot"  -> {Push(m, SlotAt(arg))}
    [] op = "LoadConst" -> {Push(m, arg)}
    [] OTHER ->
         IF Len(m.stack) < Needs(op) THEN {Faults(m)}
         ELSE IF op = "Not" THEN {Push(Pop(m, 1), Truth(~x)) : x \in EvTruths(m.stack[1])}
         ELSE {Push(Pop(m, 2), x) : x \in EvBinary(op, m.stack[2], m.stack[1])}

----------------------------------------------------------------------------

ExprInit ==
  /\ size \in 1 .. MaxOps /\ pc = 0
  /\ ir = [stack |-> <<>>, out |-> Running] /\ ev = ir /\ numerals = FALSE

\* What only eval::vm reads as numbers: the operands of op on the stack of m.
BothNumerals(op, m) ==
  /\ op \in Compares \cup {"Add"} /\ Len(m.stack) >= 2
  /\ ReadsAsNumber(m.stack[1]) /\ ReadsAsNumber(m.stack[2])

Lacks(m) == [stack |-> <<>>, out |-> Absent]

\* The next instruction, on each machine that has it and has not failed.
Execute(op, arg) ==
  /\ pc < size
  /\ ir' = IF ir.out # Running THEN ir
           ELSE IF op \in OnlyEv THEN Lacks(ir) ELSE IrStep(op, arg)
  /\ ev' \in IF ev.out # Running THEN {ev}
             ELSE IF op \in OnlyIr THEN {Lacks(ev)} ELSE EvSteps(op, arg)
  /\ pc' = IF op \in Jumps /\ ir.out = Running /\ ir'.out = Running
                /\ (op = "Jump" \/ Taken(op, ir.stack[1]))
             THEN Lands(arg) ELSE pc + 1
  /\ numerals' = (numerals \/ (Running = ir.out /\ Running = ev.out /\ BothNumerals(op, ir)))
  /\ UNCHANGED size

Finish ==
  /\ pc = size /\ Running \in {ir.out, ev.out}
  /\ ir' = Result(ir) /\ ev' = Result(ev)
  /\ UNCHANGED <<size, pc, numerals>>

ExprNext == (\E i \in Instruction : Execute(i[1], i[2])) \/ Finish

ExprSpec == ExprInit /\ [][ExprNext]_xvars

----------------------------------------------------------------------------

Values(S) == {x \in S : x.t \in {"null", "bool", "int", "text", "float"}}

\* The type invariant of the machines.
ExprTypeOK ==
  /\ size \in 1 .. MaxOps /\ pc \in 0 .. size /\ numerals \in BOOLEAN
  /\ \A m \in {ir, ev} :
       /\ Len(m.stack) <= StackMax
       /\ \A i \in DOMAIN m.stack : m.stack[i].t \in {"null", "bool", "int", "text", "float"}
       /\ m.out.t \in {"null", "bool", "int", "text", "float",
                      "error", "panic", "running", "absent"}

\* Where both machines give an expression a value, it is the same value, although one
\* converts, saturates and pops its right operand first, and the other does not; but
\* for an expression that compares or adds two texts that both read as numbers.
MachinesAgree ==
  pc = size /\ ~numerals => \A x, y \in Values({ir.out, ev.out}) : x = y

\* No instruction is executed twice, whatever the jumps: every program ends.
NothingTwice == [][pc' > pc \/ pc = size]_xvars

----------------------------------------------------------------------------
(* What the code does not do.                                              *)

\* One expression, one value: eval::vm adds the texts "1" and "1" up to a float where
\* ir::expr_vm puts them together, and "01" is below "1" for one and equal for the other.
MachinesAlwaysAgree ==
  pc = size => \A x, y \in Values({ir.out, ev.out}) : x = y

\* eval::vm saturates, but the quotient of MinInt by -1 panics.
NeverPanics == ev.out # Panic

\* The comments of expr_vm.rs: the increment is skipped, so that a jump of n lands
\* n instructions further.
JumpsAsCommented ==
  [][\A n \in 1 .. MaxOps : Execute("Jump", n) /\ ir'.out = Running => pc' = pc + n]_xvars

=============================================================================
