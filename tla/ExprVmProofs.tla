---------------------------- MODULE ExprVmProofs ----------------------------
(***************************************************************************)
(* The two machines give an expression no two values, unless it compares   *)
(* or adds two texts that read as numbers, and every program ends, for     *)
(* integers of any width, texts, stacks and programs of any length.        *)
(*                                                                         *)
(* The argument: while neither machine has failed and no such texts have   *)
(* met, their stacks are equal and hold no float, so that an instruction   *)
(* both have meets the same operands; and what the first machine makes of  *)
(* those without a conversion and without an overflow is what the second   *)
(* makes of them.                                                          *)
(***************************************************************************)
EXTENDS ExprVm, SequenceTheorems, TLAPS

----------------------------------------------------------------------------
(* The inductive invariant.                                                *)

Kinds  == {"null", "bool", "int", "text", "float"}
Word   == Seq(Letters)
Value  == [t : Kinds, v : Int, w : Word]
Exact  == [t : Kinds \ {"float"}, v : Int, w : Word]    \* the values ir::expr_vm knows

Broken == {Error, Panic}
Ends   == {Error, Panic, Absent}

\* A machine with values of S: its stack within the limit, and its result.
MachineOf(S) == {m \in [stack : Seq(S), out : S \cup Ends \cup {Running}] : Len(m.stack) <= StackMax}

Types == /\ size \in 1 .. MaxOps /\ pc \in 0 .. size /\ numerals \in BOOLEAN
         /\ ir \in MachineOf(Exact) /\ ev \in MachineOf(Value)

\* While both run they have the same on their stacks.
Alike == ir.out = Running /\ ev.out = Running /\ ~numerals => ir.stack = ev.stack

\* No machine has a result before the end of the program, where both stop at once.
Together ==
  /\ \A x \in {ir.out, ev.out} : x \in Value => pc = size /\ Running \notin {ir.out, ev.out}
  /\ MachinesAgree

ExprInv == Types /\ Alike /\ Together

----------------------------------------------------------------------------
(* The values.                                                             *)

LEMMA Bounds == MinInt \in Int /\ MaxInt \in Int
BY ExprAssumption DEF MinInt, MaxInt

LEMMA ValueTypes ==
  /\ Exact \subseteq Value /\ Null \in Exact /\ Float \in Value
  /\ \A b \in BOOLEAN : Truth(b) \in Exact
  /\ \A n \in Int : Num(n) \in Exact
  /\ \A w \in Word : Text(w) \in Exact
  /\ \A x \in Value : x \notin Ends /\ x # Running
  /\ Running \notin Ends /\ Error # Panic /\ Absent \notin Broken
  /\ \A x \in Ends \cup {Running} : x.t \notin Kinds
<1>1. <<>> \in Word /\ \A w \in Word : Len(w) \in Int
  BY DEF Word
<1>2. \A w \in Word : Text(w) \in Exact
  BY <1>1 DEF Text, Exact, Kinds
<1> QED
  BY <1>1, <1>2 DEF Exact, Value, Kinds, Null, Float, Truth, Num, Val, Ends, Broken, Error, Panic,
     Running, Absent

LEMMA SlotTypes == \A i : SlotAt(i) \in Exact \cup {Error}
<1> TAKE i
<1>1. CASE i \in DOMAIN Frame
  <2>1. Frame[1] = Null /\ Frame[2] = Num(MaxInt) /\ DOMAIN Frame = 1 .. 2
    BY DEF Frame
  <2> QED BY <1>1, <2>1, ValueTypes, Bounds DEF SlotAt
<1>2. CASE i \notin DOMAIN Frame
  BY <1>2 DEF SlotAt
<1> QED BY <1>1, <1>2

LEMMA ConstantTypes == Constant \subseteq Exact
<1>1. \A n \in MinInt .. MaxInt : n \in Int
  BY Bounds
<1>2. \A n \in 0 .. MaxLetters : n \in Nat /\ [1 .. n -> Letters] \subseteq Word
  BY ExprAssumption, SeqDef DEF Word
<1> QED BY <1>1, <1>2, ValueTypes DEF Constant

\* Arithmetic stays among the integers, division by zero aside.
LEMMA UnboundedTypes ==
  ASSUME NEW a \in Int, NEW b \in Int, NEW op \in Arithmetic, Divides(op) => b # 0
  PROVE  Unbounded(op, a, b) \in Int
<1>1. b # 0 => Quotient(a, b) \in Int
  BY DEF Quotient, Magnitude
<1>2. b # 0 => Remainder(a, b) \in Int
  <2> DEFINE q == Quotient(a, b)
  <2> SUFFICES ASSUME b # 0 PROVE a - b * q \in Int
    BY DEF Remainder
  <2>1. q \in Int
    BY <1>1
  <2> HIDE DEF q
  <2> QED BY <2>1
<1> QED BY <1>1, <1>2 DEF Unbounded, Arithmetic, Divides

Operators == {"Eq", "Ne"} \cup Compares \cup Arithmetic \cup Logic \cup TextTests

LEMMA IrBinaryTypes ==
  ASSUME NEW a \in Exact, NEW b \in Exact, NEW op \in Operators \ {"Ne"}
  PROVE  IrBinary(op, a, b) \in Exact \cup {Error}
<1>1. a.v \in Int /\ b.v \in Int
  BY DEF Exact
<1>2. op \in Compares => IrCompare(op, a, b) \in Exact \cup {Error}
  <2> DEFINE p == Holds(op, a.v < b.v, a.v = b.v)
             q == Holds(op, Before(a.w, b.w), a.w = b.w)
  <2>1. p \in BOOLEAN /\ q \in BOOLEAN
    BY DEF Holds
  <2>2. IrCompare(op, a, b) \in {Truth(p), Truth(q), Error}
    BY DEF IrCompare
  <2> HIDE DEF p, q
  <2> QED BY <2>1, <2>2, ValueTypes
<1>3. op \in Arithmetic => IrArithmetic(op, a, b) \in Exact \cup {Error}
  <2> SUFFICES ASSUME op \in Arithmetic PROVE IrArithmetic(op, a, b) \in Exact \cup {Error}
    OBVIOUS
  <2>1. a.w \o b.w \in Word
    BY DEF Exact, Word
  <2>2. (Divides(op) => b.v # 0) => Unbounded(op, a.v, b.v) \in Int
    BY <1>1, UnboundedTypes
  <2> QED BY <2>1, <2>2, ValueTypes DEF IrArithmetic
<1>4. IrTextTest(op, a, b) \in Exact \cup {Error}
  <2> DEFINE p == \/ op = "Contains" /\ Places(b.w, a.w) # {}
                  \/ op = "StartsWith" /\ 0 \in Places(b.w, a.w)
                  \/ op = "EndsWith" /\ a.v - b.v \in Places(b.w, a.w)
  <2>1. p \in BOOLEAN
    OBVIOUS
  <2> HIDE DEF p
  <2>2. Truth(p) \in Exact
    BY <2>1, ValueTypes
  <2> QED BY <2>2 DEF IrTextTest, p
<1> QED BY <1>2, <1>3, <1>4, ValueTypes DEF IrBinary, IrTruthy

LEMMA EvBinaryTypes ==
  ASSUME NEW a \in Value, NEW b \in Value, NEW op \in Operators \ TextTests
  PROVE  EvBinary(op, a, b) \subseteq Value \cup Broken
<1>1. a.v \in Int /\ b.v \in Int
  BY DEF Value
<1>2. EvCompare(op, a, b) \subseteq Value \cup Broken
  <2> DEFINE p == Holds(op, Number(a) < Number(b), Number(a) = Number(b))
  <2>1. p \in BOOLEAN
    BY DEF Holds
  <2>2. EvCompare(op, a, b) \in {{Error}, Either, {Truth(p)}}
    BY DEF EvCompare
  <2>3. Either \subseteq Value
    BY ValueTypes DEF Either
  <2> HIDE DEF p
  <2>4. Truth(p) \in Value
    BY <2>1, ValueTypes
  <2> QED BY <2>2, <2>3, <2>4 DEF Broken
<1>3. op \in Arithmetic => EvArithmetic(op, a, b) \subseteq Value \cup Broken
  <2> SUFFICES ASSUME op \in Arithmetic PROVE EvArithmetic(op, a, b) \subseteq Value \cup Broken
    OBVIOUS
  <2> DEFINE n == Unbounded(op, a.v, b.v)
             s == IF n < MinInt THEN MinInt ELSE IF n > MaxInt THEN MaxInt ELSE n
  <2>1. (Divides(op) => b.v # 0) => n \in Int
    BY <1>1, UnboundedTypes
  <2>2. n \in Int => s \in Int
    BY Bounds
  <2>3. n \in Int => Num(s) \in Value
    BY <2>2, ValueTypes
  <2>4. b.t = "int" => b.t # "float" /\ Number(b) = b.v
    BY DEF Number
  <2>5. \/ EvArithmetic(op, a, b) \subseteq {Error, Panic, Float}
        \/ (Divides(op) => b.v # 0) /\ EvArithmetic(op, a, b) = {Num(s)}
    BY <2>4 DEF EvArithmetic
  <2> QED BY <2>1, <2>3, <2>5, ValueTypes DEF Broken
<1>4. \A x \in EvEqual(a, b) : x \in BOOLEAN
  BY DEF EvEqual
<1>5. EvTruths(a) \subseteq BOOLEAN /\ EvTruths(b) \subseteq BOOLEAN
  BY DEF EvTruths
<1>6. \A b0 \in BOOLEAN : Truth(b0) \in Value
  BY ValueTypes
<1>7. /\ {Truth(q) : q \in EvEqual(a, b)} \subseteq Value
      /\ {Truth(~q) : q \in EvEqual(a, b)} \subseteq Value
  BY <1>4, <1>6
<1>8. /\ {Truth(x /\ y) : x \in EvTruths(a), y \in EvTruths(b)} \subseteq Value
      /\ {Truth(x \/ y) : x \in EvTruths(a), y \in EvTruths(b)} \subseteq Value
  BY <1>5, <1>6
<1> QED BY <1>2, <1>3, <1>7, <1>8 DEF EvBinary

\* Where ir::expr_vm has a value for two operands, eval::vm has no other, unless it
\* compares or adds what both are texts and numbers.
LEMMA BinaryAgrees ==
  ASSUME NEW a \in Exact, NEW b \in Exact, NEW op \in Operators \ (TextTests \cup {"Ne"}),
         ~(op \in Compares \cup {"Add"} /\ ReadsAsNumber(a) /\ ReadsAsNumber(b)),
         IrBinary(op, a, b) \in Exact,
         NEW x \in EvBinary(op, a, b), x \in Value
  PROVE  x = IrBinary(op, a, b)
<1>1. /\ a.v \in Int /\ b.v \in Int /\ a.t # "float" /\ b.t # "float"
      /\ a # Float /\ b # Float /\ a \in Value /\ b \in Value
      /\ Error \notin Value /\ Panic \notin Value /\ Error \notin Exact
  <2>1. a.v \in Int /\ b.v \in Int /\ a.t # "float" /\ b.t # "float"
    BY DEF Exact
  <2>2. a # Float /\ b # Float
    BY <2>1 DEF Float, Val
  <2> QED BY <2>1, <2>2, ValueTypes DEF Ends
<1>2. CASE op = "Eq"
  BY <1>1, <1>2 DEF IrBinary, EvBinary, EvEqual
<1>3. CASE op \in Compares
  <2>1. op # "Eq" /\ op # "Ne"
    BY <1>3 DEF Compares
  <2>2. IrBinary(op, a, b) = IrCompare(op, a, b) /\ x \in EvCompare(op, a, b)
    BY <1>3, <2>1 DEF IrBinary, EvBinary
  <2>3. EvCompare(op, a, b) # {Error}
    BY <1>1, <2>2
  <2>4. Numeric(a) /\ Numeric(b)
    BY <2>3 DEF EvCompare
  <2>5. a.t = "int" /\ b.t = "int"
    <3>1. ~(a.t = "text" /\ b.t = "text")
      BY <1>3, <2>4 DEF Numeric
    <3> QED BY <1>1, <2>2, <3>1 DEF IrCompare
  <2> DEFINE p == Holds(op, a.v < b.v, a.v = b.v)
  <2>6. IrCompare(op, a, b) = Truth(p)
    BY <2>5 DEF IrCompare
  <2>7. EvCompare(op, a, b) = {Truth(p)}
    BY <2>4, <2>5 DEF EvCompare, Number
  <2> HIDE DEF p
  <2> QED BY <2>2, <2>6, <2>7
<1>4. CASE op \in Arithmetic
  <2>1. op \notin {"Eq", "Ne"} \cup Compares
    BY <1>4 DEF Compares, Arithmetic
  <2>2. IrBinary(op, a, b) = IrArithmetic(op, a, b) /\ x \in EvArithmetic(op, a, b)
    BY <1>4, <2>1 DEF IrBinary, EvBinary
  <2>3. op = "Add" /\ a.t = "text" /\ b.t = "text" => EvArithmetic(op, a, b) = {Error}
    BY DEF EvArithmetic, Numeric
  <2>4. a.t = "int" /\ b.t = "int" /\ ~(Divides(op) /\ b.v = 0) /\ ~Edge(op, a.v, b.v)
    BY <1>1, <2>2, <2>3 DEF IrArithmetic
  <2> DEFINE n == Unbounded(op, a.v, b.v)
  <2>5. IrArithmetic(op, a, b) = Num(n) /\ n \in MinInt .. MaxInt
    BY <1>1, <2>2, <2>4 DEF IrArithmetic
  <2>6. EvArithmetic(op, a, b) = {Num(IF n < MinInt THEN MinInt ELSE IF n > MaxInt THEN MaxInt ELSE n)}
    BY <2>4 DEF EvArithmetic, Numeric, Number
  <2> HIDE DEF n
  <2>7. (IF n < MinInt THEN MinInt ELSE IF n > MaxInt THEN MaxInt ELSE n) = n
    BY <2>5, Bounds
  <2> QED BY <2>2, <2>5, <2>6, <2>7
<1>5. CASE op \in Logic
  <2>1. op \notin {"Eq", "Ne"} \cup Compares \cup Arithmetic \cup TextTests
    BY <1>5 DEF Compares, Arithmetic, Logic, TextTests
  <2>2. EvTruths(a) = {IrTruthy(a)} /\ EvTruths(b) = {IrTruthy(b)}
    BY <1>1 DEF EvTruths, IrTruthy
  <2>3. op = "And" \/ op = "Or"
    BY <1>5 DEF Logic
  <2> QED BY <2>1, <2>2, <2>3 DEF IrBinary, EvBinary
<1> QED BY <1>2, <1>3, <1>4, <1>5 DEF Operators

----------------------------------------------------------------------------
(* The machines.                                                           *)

LEMMA Machines ==
  ASSUME NEW S, NEW m
  PROVE  m \in MachineOf(S) <=>
           /\ m \in [stack : Seq(S), out : S \cup Ends \cup {Running}]
           /\ Len(m.stack) <= StackMax
BY DEF MachineOf

LEMMA Fails ==
  ASSUME NEW S, NEW m \in MachineOf(S), NEW e \in Broken
  PROVE  [m EXCEPT !.out = e] \in MachineOf(S) /\ [m EXCEPT !.out = e].out = e
BY DEF MachineOf, Ends, Broken

\* A push leaves the value on top, or breaks the machine.
LEMMA Pushes ==
  ASSUME NEW S \in SUBSET Value, NEW m \in MachineOf(S), m.out = Running, NEW x \in S \cup Broken
  PROVE  /\ Push(m, x) \in MachineOf(S) /\ Push(m, x).out \in Broken \cup {Running}
         /\ Push(m, x).out = Running => x \in S /\ Push(m, x).stack = <<x>> \o m.stack
<1>1. CASE x \in Broken
  <2>1. Push(m, x) = [m EXCEPT !.out = x] /\ x # Running
    BY <1>1, ValueTypes DEF Push, Broken, Ends
  <2> QED BY <1>1, <2>1, Fails
<1>2. CASE x \notin Broken /\ Len(m.stack) >= StackMax
  <2>1. Push(m, x) = [m EXCEPT !.out = Error] /\ Error # Running /\ Error \in Broken
    BY <1>2, ValueTypes DEF Push, Broken, Ends
  <2> QED BY <2>1, Fails
<1>3. CASE x \notin Broken /\ ~(Len(m.stack) >= StackMax)
  <2>1. Push(m, x) = [m EXCEPT !.stack = <<x>> \o m.stack]
    BY <1>3 DEF Push, Broken
  <2>2. x \in S /\ m.stack \in Seq(S) /\ StackMax \in Nat
    BY <1>3, Machines, ExprAssumption
  <2> DEFINE s == <<x>> \o m.stack
  <2>3. s \in Seq(S) /\ Len(s) = Len(m.stack) + 1
    BY <2>2
  <2>4. Len(s) <= StackMax
    BY <1>3, <2>2, <2>3
  <2> HIDE DEF s
  <2>5. Push(m, x) = [m EXCEPT !.stack = s]
    BY <2>1 DEF s
  <2>6. /\ [m EXCEPT !.stack = s] \in MachineOf(S)
        /\ [m EXCEPT !.stack = s].out = Running /\ [m EXCEPT !.stack = s].stack = s
    BY <2>3, <2>4 DEF MachineOf
  <2> QED BY <2>2, <2>5, <2>6 DEF s
<1> QED BY <1>1, <1>2, <1>3

LEMMA Pops ==
  ASSUME NEW S, NEW m \in MachineOf(S), NEW n \in 0 .. Len(m.stack)
  PROVE  /\ Pop(m, n) \in MachineOf(S) /\ Pop(m, n).out = m.out
         /\ Pop(m, n).stack = SubSeq(m.stack, n + 1, Len(m.stack))
<1> DEFINE s == SubSeq(m.stack, n + 1, Len(m.stack))
<1>1. m.stack \in Seq(S) /\ Len(m.stack) <= StackMax /\ StackMax \in Nat
  BY ExprAssumption DEF MachineOf
<1>2. s \in Seq(S) /\ Len(s) = Len(m.stack) - n
  BY <1>1
<1>3. Len(s) <= StackMax
  BY <1>1, <1>2
<1>4. Pop(m, n) = [m EXCEPT !.stack = s]
  BY DEF Pop
<1> HIDE DEF s
<1>5. /\ [m EXCEPT !.stack = s] \in MachineOf(S)
      /\ [m EXCEPT !.stack = s].out = m.out /\ [m EXCEPT !.stack = s].stack = s
  BY <1>2, <1>3 DEF MachineOf
<1> QED BY <1>4, <1>5 DEF s

\* The values on top of the stack.
LEMMA Tops ==
  ASSUME NEW S, NEW m \in MachineOf(S)
  PROVE  /\ Len(m.stack) \in Nat
         /\ Len(m.stack) >= 1 => m.stack[1] \in S
         /\ Len(m.stack) >= 2 => m.stack[2] \in S
<1>1. m.stack \in Seq(S)
  BY DEF MachineOf
<1> QED BY <1>1

\* The instructions.
LEMMA Instructions ==
  ASSUME NEW i \in Instruction
  PROVE  /\ i[1] \in {"LoadConst", "LoadSlot", "LoadAccessor", "Exists", "Not", "Length"}
                     \cup Operators \cup Jumps
         /\ i[1] = "LoadConst" => i[2] \in Constant
         /\ i[1] \in Jumps => i[2] \in 0 .. MaxOps
<1>1. CASE i \in {<<"LoadConst", v>> : v \in Constant}
  BY <1>1 DEF Jumps
<1>2. CASE i \in {"LoadSlot", "LoadAccessor", "Exists"} \X (1 .. 3)
  BY <1>2 DEF Jumps
<1>3. CASE i \in (Compares \cup Arithmetic \cup Logic \cup TextTests) \X {0}
  BY <1>3 DEF Operators, Compares, Arithmetic, Logic, TextTests, Jumps
<1>4. CASE i \in {"Eq", "Ne", "Not", "Length"} \X {0}
  BY <1>4 DEF Operators, Jumps
<1>5. CASE i \in Jumps \X (0 .. MaxOps)
  BY <1>5 DEF Jumps
<1> QED BY <1>1, <1>2, <1>3, <1>4, <1>5 DEF Instruction

Kept(S, m) == m \in MachineOf(S) /\ m.out \in Broken \cup {Running}

\* An instruction leaves ir::expr_vm running or broken.
LEMMA IrStepTypes ==
  ASSUME Types, ir.out = Running, NEW i \in Instruction, i[1] \notin OnlyEv
  PROVE  Kept(Exact, IrStep(i[1], i[2]))
<1> DEFINE op  == i[1]
           arg == i[2]
           m   == ir
<1>1. m \in MachineOf(Exact) /\ m.out = Running /\ Exact \in SUBSET Value
  BY ValueTypes DEF Types
<1>2. Error \in Broken
  BY DEF Broken
<1>3. Kept(Exact, Faults(m)) /\ Kept(Exact, m)
  BY <1>1, <1>2, Fails DEF Faults, Kept
<1>4. ASSUME NEW x \in Exact \cup {Error} PROVE Kept(Exact, Push(m, x))
  BY <1>1, <1>2, Pushes DEF Kept
<1>5. ASSUME NEW n \in 1 .. Len(m.stack), NEW x \in Exact \cup {Error}
      PROVE  Kept(Exact, Push(Pop(m, n), x)) /\ Kept(Exact, Pop(m, n))
  <2>0. n \in 0 .. Len(m.stack)
    OBVIOUS
  <2>1. Pop(m, n) \in MachineOf(Exact) /\ Pop(m, n).out = Running
    BY <1>1, <2>0, Pops
  <2>2. x \in Exact \cup Broken
    BY <1>2
  <2>3. Kept(Exact, Push(Pop(m, n), x))
    BY <1>1, <2>1, <2>2, Pushes DEF Kept
  <2> QED BY <2>1, <2>3 DEF Kept
<1>6. CASE op \in {"LoadSlot", "LoadAccessor"}
  <2>1. IrStep(op, arg) = Push(m, SlotAt(arg))
    BY <1>6 DEF IrStep
  <2> QED BY <1>4, <2>1, SlotTypes
<1>7. CASE op = "LoadConst"
  <2>1. IrStep(op, arg) = Push(m, arg) /\ arg \in Exact
    BY <1>7, Instructions, ConstantTypes DEF IrStep
  <2> QED BY <1>4, <2>1
<1>8. CASE op = "Exists"
  <2> DEFINE p == arg \in DOMAIN Frame /\ SlotAt(arg) # Null
  <2>1. IrStep(op, arg) = Push(m, Truth(p)) /\ p \in BOOLEAN
    BY <1>8 DEF IrStep
  <2> HIDE DEF p
  <2>2. Truth(p) \in Exact
    BY <2>1, ValueTypes
  <2> QED BY <1>4, <2>1, <2>2
<1>9. CASE op = "Jump"
  <2>1. IrStep(op, arg) \in {Faults(m), m}
    BY <1>9 DEF IrStep
  <2> QED BY <1>3, <2>1
<1>10. CASE op \in {"Not", "Length", "JumpTrue", "JumpFalse"}
  <2>1. CASE Len(m.stack) < 1
    <3>1. IrStep(op, arg) = Faults(m)
      BY <1>10, <2>1 DEF IrStep, Needs
    <3> QED BY <1>3, <3>1
  <2>2. CASE ~(Len(m.stack) < 1)
    <3>1. Len(m.stack) \in Nat /\ m.stack[1] \in Exact /\ 1 \in 1 .. Len(m.stack)
      BY <1>1, <2>2, Tops
    <3> DEFINE a == m.stack[1]
               p == ~IrTruthy(a)
               n == IF a.t = "text" THEN a.v ELSE IF a = Null THEN 0 ELSE 1
    <3>2. p \in BOOLEAN /\ n \in Int
      BY <3>1 DEF IrTruthy, Exact
    <3>3. /\ op = "Not" => IrStep(op, arg) = Push(Pop(m, 1), Truth(p))
          /\ op = "Length" => IrStep(op, arg) = Push(Pop(m, 1), Num(n))
          /\ op \in {"JumpTrue", "JumpFalse"} => IrStep(op, arg) \in {Faults(m), Pop(m, 1)}
      BY <1>10, <2>2 DEF IrStep, Needs, IrLength, Jumps
    <3> HIDE DEF p, n
    <3>4. Truth(p) \in Exact /\ Num(n) \in Exact
      BY <3>2, ValueTypes
    <3> QED BY <1>3, <1>5, <1>10, <3>1, <3>3, <3>4
  <2> QED BY <2>1, <2>2
<1>11. CASE op \in Operators
  <2>1. /\ Needs(op) = 2 /\ op \notin Jumps /\ op \in Operators \ {"Ne"}
        /\ op \notin {"LoadConst", "LoadSlot", "LoadAccessor", "Exists", "Jump", "Not", "Length"}
    BY <1>11 DEF Needs, Operators, Compares, Arithmetic, Logic, TextTests, Jumps, OnlyEv
  <2>2. CASE Len(m.stack) < 2
    <3>1. IrStep(op, arg) = Faults(m)
      BY <2>1, <2>2 DEF IrStep
    <3> QED BY <1>3, <3>1
  <2>3. CASE ~(Len(m.stack) < 2)
    <3>1. /\ Len(m.stack) \in Nat /\ m.stack[1] \in Exact /\ m.stack[2] \in Exact
          /\ 2 \in 1 .. Len(m.stack)
      BY <1>1, <2>3, Tops
    <3>2. IrStep(op, arg) = Push(Pop(m, 2), IrBinary(op, m.stack[2], m.stack[1]))
      BY <2>1, <2>3 DEF IrStep, IrOperands
    <3>3. IrBinary(op, m.stack[2], m.stack[1]) \in Exact \cup {Error}
      BY <2>1, <3>1, IrBinaryTypes
    <3> QED BY <1>5, <3>1, <3>2, <3>3
  <2> QED BY <2>2, <2>3
<1>12. op \in Jumps => op \in {"Jump", "JumpTrue", "JumpFalse"}
  BY DEF Jumps
<1> QED BY <1>6, <1>7, <1>8, <1>9, <1>10, <1>11, <1>12, Instructions

\* So it does eval::vm.
LEMMA EvStepTypes ==
  ASSUME Types, ev.out = Running, NEW i \in Instruction, i[1] \notin OnlyIr,
         NEW n \in EvSteps(i[1], i[2])
  PROVE  Kept(Value, n)
<1> DEFINE op  == i[1]
           arg == i[2]
           m   == ev
<1>1. m \in MachineOf(Value) /\ m.out = Running /\ Value \in SUBSET Value
  BY DEF Types
<1>2. Error \in Broken
  BY DEF Broken
<1>3. Kept(Value, Faults(m))
  BY <1>1, <1>2, Fails DEF Faults, Kept
<1>4. ASSUME NEW x \in Value \cup Broken PROVE Kept(Value, Push(m, x))
  BY <1>1, Pushes DEF Kept
<1>5. ASSUME NEW k \in 1 .. Len(m.stack), NEW x \in Value \cup Broken
      PROVE  Kept(Value, Push(Pop(m, k), x))
  <2>0. k \in 0 .. Len(m.stack)
    OBVIOUS
  <2>1. Pop(m, k) \in MachineOf(Value) /\ Pop(m, k).out = Running
    BY <1>1, <2>0, Pops
  <2> QED BY <1>1, <2>1, Pushes DEF Kept
<1>6. CASE op = "LoadSlot"
  <2>1. n = Push(m, SlotAt(arg)) /\ SlotAt(arg) \in Value \cup Broken
    BY <1>2, <1>6, SlotTypes, ValueTypes DEF EvSteps
  <2> QED BY <1>4, <2>1
<1>7. CASE op = "LoadConst"
  <2>1. n = Push(m, arg) /\ arg \in Value
    BY <1>7, Instructions, ConstantTypes, ValueTypes DEF EvSteps
  <2> QED BY <1>4, <2>1
<1>8. CASE op = "Not"
  <2>1. CASE Len(m.stack) < 1
    BY <1>3, <1>8, <2>1 DEF EvSteps, Needs
  <2>2. CASE ~(Len(m.stack) < 1)
    <3>1. Len(m.stack) \in Nat /\ m.stack[1] \in Value /\ 1 \in 1 .. Len(m.stack)
      BY <1>1, <2>2, Tops
    <3>2. \E x \in EvTruths(m.stack[1]) : n = Push(Pop(m, 1), Truth(~x))
      BY <1>8, <2>2 DEF EvSteps, Needs
    <3>3. EvTruths(m.stack[1]) \subseteq BOOLEAN /\ \A x \in BOOLEAN : Truth(~x) \in Value
      BY ValueTypes DEF EvTruths
    <3> QED BY <1>5, <3>1, <3>2, <3>3
  <2> QED BY <2>1, <2>2
<1>9. CASE op \in Operators
  <2>1. /\ Needs(op) = 2 /\ op \in Operators \ TextTests
        /\ op \notin {"LoadConst", "LoadSlot", "Not"}
    BY <1>9 DEF Needs, Operators, Compares, Arithmetic, Logic, TextTests, OnlyIr
  <2>2. CASE Len(m.stack) < 2
    BY <1>3, <2>1, <2>2 DEF EvSteps
  <2>3. CASE ~(Len(m.stack) < 2)
    <3>1. /\ Len(m.stack) \in Nat /\ m.stack[1] \in Value /\ m.stack[2] \in Value
          /\ 2 \in 1 .. Len(m.stack)
      BY <1>1, <2>3, Tops
    <3>2. \E x \in EvBinary(op, m.stack[2], m.stack[1]) : n = Push(Pop(m, 2), x)
      BY <2>1, <2>3 DEF EvSteps
    <3>3. EvBinary(op, m.stack[2], m.stack[1]) \subseteq Value \cup Broken
      BY <2>1, <3>1, EvBinaryTypes
    <3> QED BY <1>5, <3>1, <3>2, <3>3
  <2> QED BY <2>2, <2>3
<1> QED BY <1>6, <1>7, <1>8, <1>9, Instructions DEF OnlyIr, Jumps, TextTests


----------------------------------------------------------------------------
(* The machines side by side.                                              *)

\* Two pushes that break neither machine, of one value on one stack.
LEMMA PushesAgree ==
  ASSUME NEW m \in MachineOf(Exact), NEW n \in MachineOf(Value),
         m.out = Running, n.out = Running, m.stack = n.stack,
         NEW x \in Exact \cup Broken, NEW y \in Value \cup Broken,
         x \in Exact /\ y \in Value => x = y,
         Push(m, x).out = Running, Push(n, y).out = Running
  PROVE  Push(m, x).stack = Push(n, y).stack
<1>1. Exact \in SUBSET Value /\ Value \in SUBSET Value
  BY ValueTypes
<1>2. x \in Exact /\ Push(m, x).stack = <<x>> \o m.stack
  BY <1>1, Pushes
<1>3. y \in Value /\ Push(n, y).stack = <<y>> \o n.stack
  BY <1>1, Pushes
<1> QED BY <1>2, <1>3

\* An instruction both machines have leaves them alike, when they read no texts of
\* its operands as different things.
LEMMA StepsAgree ==
  ASSUME Types, Alike, ir.out = Running, ev.out = Running, ~numerals,
         NEW i \in Instruction, i[1] \notin OnlyEv \cup OnlyIr, ~BothNumerals(i[1], ir),
         NEW n \in EvSteps(i[1], i[2]), n.out = Running, IrStep(i[1], i[2]).out = Running
  PROVE  IrStep(i[1], i[2]).stack = n.stack
<1> DEFINE op  == i[1]
           arg == i[2]
           s   == ir.stack
<1>1. /\ ir \in MachineOf(Exact) /\ ev \in MachineOf(Value) /\ ev.stack = s
      /\ Len(s) \in Nat
      /\ Len(s) >= 1 => s[1] \in Exact
      /\ Len(s) >= 2 => s[2] \in Exact
  BY Tops DEF Types, Alike
<1>2. ASSUME NEW x \in Exact \cup Broken, NEW y \in Value \cup Broken,
             x \in Exact /\ y \in Value => x = y,
             Push(ir, x).out = Running, Push(ev, y).out = Running
      PROVE  Push(ir, x).stack = Push(ev, y).stack
  BY <1>1, <1>2, PushesAgree
<1>3. ASSUME NEW k \in 1 .. Len(s), NEW x \in Exact \cup Broken, NEW y \in Value \cup Broken,
             x \in Exact /\ y \in Value => x = y,
             Push(Pop(ir, k), x).out = Running, Push(Pop(ev, k), y).out = Running
      PROVE  Push(Pop(ir, k), x).stack = Push(Pop(ev, k), y).stack
  <2>1. k \in 0 .. Len(s) /\ k \in 0 .. Len(ev.stack)
    BY <1>1
  <2>2. Pop(ir, k) \in MachineOf(Exact) /\ Pop(ev, k) \in MachineOf(Value)
    BY <1>1, <2>1, Pops
  <2>3. Pop(ir, k).out = Running /\ Pop(ev, k).out = Running
    BY <1>1, <2>1, Pops
  <2>4. Pop(ir, k).stack = Pop(ev, k).stack
    BY <1>1, <2>1, Pops, ZenonT(30)
  <2> QED BY <1>3, <2>2, <2>3, <2>4, PushesAgree
<1>4. Error \in Broken /\ Faults(ir).out = Error /\ Error # Running
  BY <1>1, ValueTypes DEF Faults, Broken, MachineOf, Ends
<1>5. CASE op = "LoadSlot"
  <2>1. /\ IrStep(op, arg) = Push(ir, SlotAt(arg)) /\ n = Push(ev, SlotAt(arg))
        /\ SlotAt(arg) \in Exact \cup Broken /\ SlotAt(arg) \in Value \cup Broken
    BY <1>4, <1>5, SlotTypes, ValueTypes DEF IrStep, EvSteps
  <2> QED BY <1>2, <2>1
<1>6. CASE op = "LoadConst"
  <2>1. /\ IrStep(op, arg) = Push(ir, arg) /\ n = Push(ev, arg)
        /\ arg \in Exact /\ arg \in Value
    BY <1>6, Instructions, ConstantTypes, ValueTypes DEF IrStep, EvSteps
  <2> QED BY <1>2, <2>1
<1>7. CASE op = "Not"
  <2>1. ~(Len(s) < 1)
    BY <1>4, <1>7 DEF IrStep, Needs
  <2>2. s[1] \in Exact /\ 1 \in 1 .. Len(s)
    BY <1>1, <2>1
  <2> DEFINE p == ~IrTruthy(s[1])
  <2>3. EvTruths(s[1]) = {IrTruthy(s[1])} /\ p \in BOOLEAN
    BY <2>2 DEF EvTruths, IrTruthy, Exact
  <2>4. IrStep(op, arg) = Push(Pop(ir, 1), Truth(p)) /\ n = Push(Pop(ev, 1), Truth(p))
    BY <1>1, <1>7, <2>1, <2>3 DEF IrStep, EvSteps, Needs
  <2> HIDE DEF p
  <2>5. Truth(p) \in Exact /\ Truth(p) \in Value
    BY <2>3, ValueTypes
  <2> QED BY <1>3, <2>2, <2>4, <2>5
<1>8. CASE op \in Operators
  <2>1. /\ Needs(op) = 2 /\ op \notin Jumps /\ op \in Operators \ (TextTests \cup {"Ne"})
        /\ op \notin {"LoadConst", "LoadSlot", "LoadAccessor", "Exists", "Jump", "Not", "Length"}
    BY <1>8 DEF Needs, Operators, Compares, Arithmetic, Logic, TextTests, Jumps, OnlyEv, OnlyIr
  <2>2. ~(Len(s) < 2)
    BY <1>4, <2>1 DEF IrStep
  <2>3. s[1] \in Exact /\ s[2] \in Exact /\ 2 \in 1 .. Len(s) /\ s[1] \in Value /\ s[2] \in Value
    BY <1>1, <2>2, ValueTypes
  <2>4. IrStep(op, arg) = Push(Pop(ir, 2), IrBinary(op, s[2], s[1]))
    BY <2>1, <2>2 DEF IrStep, IrOperands
  <2>5. PICK y \in EvBinary(op, s[2], s[1]) : n = Push(Pop(ev, 2), y)
    BY <1>1, <2>1, <2>2 DEF EvSteps
  <2>6. IrBinary(op, s[2], s[1]) \in Exact \cup Broken
    BY <1>4, <2>1, <2>3, IrBinaryTypes
  <2>7. y \in Value \cup Broken
    BY <2>1, <2>3, <2>5, EvBinaryTypes
  <2>8. ~(op \in Compares \cup {"Add"} /\ ReadsAsNumber(s[2]) /\ ReadsAsNumber(s[1]))
    BY <1>1, <2>2 DEF BothNumerals
  <2>9. IrBinary(op, s[2], s[1]) \in Exact /\ y \in Value => IrBinary(op, s[2], s[1]) = y
    BY <2>1, <2>3, <2>5, <2>8, BinaryAgrees
  <2> QED BY <1>3, <2>3, <2>4, <2>5, <2>6, <2>7, <2>9
<1> QED BY <1>5, <1>6, <1>7, <1>8, Instructions DEF OnlyIr, Jumps, TextTests

\* What the next instruction makes of each machine.
LEMMA Executes ==
  ASSUME Types, NEW i \in Instruction, Execute(i[1], i[2])
  PROVE  /\ IF ir.out # Running THEN ir' = ir
            ELSE /\ ir' \in MachineOf(Exact) /\ ir'.out \in Ends \cup {Running}
                 /\ ir'.out = Running => i[1] \notin OnlyEv /\ ir' = IrStep(i[1], i[2])
         /\ IF ev.out # Running THEN ev' = ev
            ELSE /\ ev' \in MachineOf(Value) /\ ev'.out \in Ends \cup {Running}
                 /\ ev'.out = Running => i[1] \notin OnlyIr /\ ev' \in EvSteps(i[1], i[2])
<1>0. \A m : Lacks(m).out = Absent /\ Absent # Running /\ Broken \subseteq Ends
  BY ValueTypes DEF Lacks, Broken, Ends
<1>1. ASSUME NEW S, NEW m PROVE Lacks(m) \in MachineOf(S)
  <2>1. <<>> \in Seq(S) /\ Len(<<>>) = 0
    OBVIOUS
  <2> QED BY <2>1, ExprAssumption DEF Lacks, MachineOf, Ends
<1>2. ASSUME ir.out = Running
      PROVE  /\ ir' \in MachineOf(Exact) /\ ir'.out \in Ends \cup {Running}
             /\ ir'.out = Running => i[1] \notin OnlyEv /\ ir' = IrStep(i[1], i[2])
  <2>1. CASE i[1] \in OnlyEv
    <3>1. ir' = Lacks(ir)
      BY <1>2, <2>1 DEF Execute
    <3> QED BY <1>0, <1>1, <3>1 DEF Ends
  <2>2. CASE i[1] \notin OnlyEv
    <3>1. ir' = IrStep(i[1], i[2])
      BY <1>2, <2>2 DEF Execute
    <3> QED BY <1>0, <1>2, <2>2, <3>1, IrStepTypes DEF Kept
  <2> QED BY <2>1, <2>2
<1>3. ASSUME ev.out = Running
      PROVE  /\ ev' \in MachineOf(Value) /\ ev'.out \in Ends \cup {Running}
             /\ ev'.out = Running => i[1] \notin OnlyIr /\ ev' \in EvSteps(i[1], i[2])
  <2>1. CASE i[1] \in OnlyIr
    <3>1. ev' = Lacks(ev)
      BY <1>3, <2>1 DEF Execute
    <3> QED BY <1>0, <1>1, <3>1 DEF Ends
  <2>2. CASE i[1] \notin OnlyIr
    <3>1. ev' \in EvSteps(i[1], i[2])
      BY <1>3, <2>2 DEF Execute
    <3> QED BY <1>0, <1>3, <2>2, <3>1, EvStepTypes DEF Kept
  <2> QED BY <2>1, <2>2
<1> QED BY <1>2, <1>3 DEF Execute

\* Execution goes on after the instruction, or further on within the program.
LEMMA Forward ==
  ASSUME Types, NEW i \in Instruction, Execute(i[1], i[2])
  PROVE  pc' \in 0 .. size /\ pc' > pc
<1>1. pc \in Nat /\ size \in Nat /\ pc < size
  BY ExprAssumption DEF Types, Execute
<1>2. CASE pc' = pc + 1
  BY <1>1, <1>2
<1>3. CASE pc' # pc + 1
  <2>1. /\ i[1] \in Jumps /\ ir.out = Running /\ ir'.out = Running
        /\ i[1] = "Jump" \/ Taken(i[1], ir.stack[1])
        /\ pc' = pc + i[2] + 1
    BY <1>3 DEF Execute, Lands
  <2>2. i[2] \in Nat /\ ir' = IrStep(i[1], i[2])
    BY <2>1, Executes, Instructions
  <2>3. Faults(ir).out # Running
    BY ValueTypes DEF Types, Faults, MachineOf, Ends
  <2>4. ~(pc + i[2] >= size)
    <3>1. CASE i[1] = "Jump"
      BY <2>1, <2>2, <2>3, <3>1 DEF IrStep
    <3>2. CASE i[1] \in {"JumpTrue", "JumpFalse"}
      <4>1. Taken(i[1], ir.stack[1])
        BY <2>1, <3>2
      <4> QED BY <2>1, <2>2, <2>3, <3>2, <4>1 DEF IrStep, Needs
    <3> QED BY <2>1, <3>1, <3>2 DEF Jumps
  <2> QED BY <1>1, <2>1, <2>2, <2>4
<1> QED BY <1>2, <1>3

\* The result of a machine: the top of its stack, if it still runs.
LEMMA Results ==
  ASSUME NEW S \in SUBSET Value, NEW m \in MachineOf(S)
  PROVE  /\ Result(m) \in MachineOf(S) /\ Result(m).out # Running
         /\ IF m.out # Running THEN Result(m) = m
            ELSE Result(m).out = (IF m.stack = <<>> THEN Error ELSE m.stack[1])
<1>1. CASE m.out # Running
  BY <1>1 DEF Result
<1>2. CASE m.out = Running /\ m.stack = <<>>
  <2>1. Result(m) = [m EXCEPT !.out = Error] /\ Error \in Broken /\ Error # Running
    BY <1>2, ValueTypes DEF Result, Faults, Broken, Ends
  <2> QED BY <1>2, <2>1, Fails
<1>3. CASE m.out = Running /\ m.stack # <<>>
  <2>1. m.stack[1] \in S
    BY <1>3 DEF MachineOf
  <2>2. Result(m) = [m EXCEPT !.out = m.stack[1]] /\ m.stack[1] # Running
    BY <1>3, <2>1, ValueTypes DEF Result
  <2>3. /\ [m EXCEPT !.out = m.stack[1]] \in MachineOf(S)
        /\ [m EXCEPT !.out = m.stack[1]].out = m.stack[1]
    BY <2>1 DEF MachineOf
  <2> QED BY <1>3, <2>2, <2>3
<1> QED BY <1>1, <1>2, <1>3

----------------------------------------------------------------------------
(* The invariant.                                                          *)

LEMMA ExprInit0 == ExprInit => ExprInv
<1> SUFFICES ASSUME ExprInit PROVE ExprInv
  OBVIOUS
<1>1. <<>> \in Seq(Exact) /\ <<>> \in Seq(Value) /\ Len(<<>>) = 0
  OBVIOUS
<1>2. Types
  <2>1. ir \in MachineOf(Exact) /\ ev \in MachineOf(Value)
    BY <1>1, ExprAssumption DEF ExprInit, MachineOf
  <2>2. size \in 1 .. MaxOps /\ pc \in 0 .. size
    BY ExprAssumption DEF ExprInit
  <2>3. numerals \in BOOLEAN
    BY DEF ExprInit
  <2> QED BY <2>1, <2>2, <2>3 DEF Types
<1>3. ir.out = Running /\ ev.out = Running /\ Running \notin Value
  BY ValueTypes DEF ExprInit
<1> QED BY <1>2, <1>3, ValueTypes DEF ExprInit, ExprInv, Alike, Together, MachinesAgree, Values, Kinds

LEMMA ExprStep == ExprInv /\ [ExprNext]_xvars => ExprInv'
<1> SUFFICES ASSUME ExprInv, [ExprNext]_xvars PROVE ExprInv'
  OBVIOUS
<1>0. Types /\ Alike /\ Together /\ Exact \in SUBSET Value /\ Value \in SUBSET Value
  BY ValueTypes DEF ExprInv
<1>1. ASSUME NEW i \in Instruction, Execute(i[1], i[2]) PROVE ExprInv'
  <2>0. pc < size /\ size' = size /\ pc # size
    BY <1>0, <1>1, ExprAssumption DEF Execute, Types
  <2>1. Types'
    <3>1. numerals' \in BOOLEAN
      BY <1>0, <1>1 DEF Execute, Types
    <3> QED BY <1>0, <1>1, <2>0, <3>1, Executes, Forward DEF Types
  <2>2. Alike'
    <3> SUFFICES ASSUME ir'.out = Running, ev'.out = Running, ~numerals'
                 PROVE  ir'.stack = ev'.stack
      BY DEF Alike
    <3>1. ir.out = Running /\ ev.out = Running
      BY <1>0, <1>1, Executes
    <3>2. /\ i[1] \notin OnlyEv \cup OnlyIr
          /\ ir' = IrStep(i[1], i[2]) /\ ev' \in EvSteps(i[1], i[2])
      BY <1>0, <1>1, <3>1, Executes
    <3>3. ~numerals /\ ~BothNumerals(i[1], ir)
      BY <1>1, <3>1 DEF Execute
    <3> QED BY <1>0, <3>1, <3>2, <3>3, StepsAgree
  <2>3. ir.out \notin Value /\ ev.out \notin Value
    BY <1>0, <2>0 DEF Together
  <2>4. ir'.out \notin Value /\ ev'.out \notin Value
    BY <1>0, <1>1, <2>3, Executes, ValueTypes
  <2>5. Together'
    <3>1. ir'.out.t \notin Kinds /\ ev'.out.t \notin Kinds
      BY <2>1, <2>4, ValueTypes DEF Types, MachineOf
    <3> QED BY <2>4, <3>1 DEF Together, MachinesAgree, Values, Kinds
  <2> QED BY <2>1, <2>2, <2>5 DEF ExprInv
<1>2. ASSUME Finish PROVE ExprInv'
  <2>1. Types'
    BY <1>0, <1>2, Results DEF Types, Finish
  <2>2. ir'.out # Running /\ ev'.out # Running /\ pc' = size'
    BY <1>0, <1>2, Results DEF Types, Finish
  <2>3. Alike'
    BY <2>2 DEF Alike
  <2>4. ASSUME ~numerals' PROVE \A x, y \in Values({ir'.out, ev'.out}) : x = y
    <3>0. ~numerals
      BY <1>2, <2>4 DEF Finish
    <3>1. CASE ir.out = Running /\ ev.out = Running
      <4>1. ir.stack = ev.stack
        BY <1>0, <3>0, <3>1 DEF Alike
      <4>2. ir'.out = ev'.out
        BY <1>0, <1>2, <3>1, <4>1, Results DEF Types, Finish
      <4> QED BY <4>2 DEF Values
    <3>2. CASE ~(ir.out = Running /\ ev.out = Running)
      <4>1. ir.out \notin Value /\ ev.out \notin Value
        BY <1>0, <1>2 DEF Together, Finish
      <4>2. \/ ir'.out = ir.out \/ ev'.out = ev.out
        BY <1>0, <1>2, <3>2, Results DEF Types, Finish
      <4>3. ir'.out.t \notin Kinds \/ ev'.out.t \notin Kinds
        BY <2>1, <4>1, <4>2, ValueTypes DEF Types, MachineOf
      <4> QED BY <4>3 DEF Values, Kinds
    <3> QED BY <3>1, <3>2
  <2> QED BY <2>1, <2>2, <2>3, <2>4 DEF ExprInv, Together, MachinesAgree
<1>3. CASE UNCHANGED xvars
  BY <1>0, <1>3 DEF xvars, ExprInv, Types, Alike, Together, MachinesAgree
<1> QED BY <1>1, <1>2, <1>3 DEF ExprNext

LEMMA ExprAlways == ExprSpec => []ExprInv
BY ExprInit0, ExprStep, PTL DEF ExprSpec

\* The machines keep their types: the stacks within their limit, and the counter
\* within the program.
THEOREM ExprTypeTheorem == ExprSpec => []ExprTypeOK
<1>1. ExprInv => ExprTypeOK
  <2> SUFFICES ASSUME ExprInv PROVE ExprTypeOK
    OBVIOUS
  <2>1. ASSUME NEW m \in {ir, ev}
        PROVE  /\ Len(m.stack) <= StackMax
               /\ \A i \in DOMAIN m.stack : m.stack[i].t \in Kinds
               /\ m.out.t \in Kinds \cup {"error", "panic", "running", "absent"}
    <3>1. m \in MachineOf(Value)
      <4>1. MachineOf(Exact) \subseteq MachineOf(Value)
        <5>1. Seq(Exact) \subseteq Seq(Value) /\ Exact \subseteq Value
          BY ValueTypes
        <5> QED BY <5>1 DEF MachineOf
      <4> QED BY <4>1 DEF ExprInv, Types
    <3>2. m.stack \in Seq(Value) /\ m.out \in Value \cup Ends \cup {Running}
          /\ Len(m.stack) <= StackMax
      BY <3>1 DEF MachineOf
    <3>3. \A i \in DOMAIN m.stack : m.stack[i] \in Value
      BY <3>2
    <3> QED BY <3>2, <3>3 DEF Value, Ends, Error, Panic, Absent, Running, Val
  <2> QED BY <2>1 DEF ExprInv, Types, ExprTypeOK, Kinds
<1> QED BY <1>1, ExprAlways, PTL

\* eval::vm and ir::expr_vm: where both give an expression a value, it is the same,
\* unless the expression compares or adds two texts that read as numbers.
THEOREM MachinesAgreeTheorem == ExprSpec => []MachinesAgree
<1>1. ExprInv => MachinesAgree
  BY DEF ExprInv, Together
<1> QED BY <1>1, ExprAlways, PTL

\* eval of ir::expr_vm: whatever the jumps, no instruction is executed a second time.
THEOREM NothingTwiceTheorem == ExprSpec => NothingTwice
<1>1. ExprInv /\ [ExprNext]_xvars => [pc' > pc \/ pc = size]_xvars
  BY Forward DEF ExprInv, ExprNext, Finish
<1> QED BY <1>1, ExprAlways, PTL DEF ExprSpec, NothingTwice

=============================================================================
