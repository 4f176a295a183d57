--------------------------- MODULE FullOpCachingAsm ---------------------------
(***************************************************************************)
(* The generator of scripts/gen_full_op_caching_asm.py: it prints ARM code *)
(* for the 2n-limb product of two n-limb operands, row by row, keeping     *)
(* operand limbs cached in the registers OP_REGS and the running column    *)
(* sums in the rotating registers IM_REGS.                                 *)
(*                                                                         *)
(* The printed instructions are executed as they are printed, on a machine *)
(* whose words are scaled from 2^32 to W: regs holds the value of every    *)
(* register, stack the product area at sp, opA and opB the operands at r1  *)
(* and r2.  A register or stack word never written holds UNDEF, and any    *)
(* arithmetic on UNDEF gives UNDEF.                                        *)
(***************************************************************************)
EXTENDS Integers, Sequences, SequencesExt

CONSTANTS
  E,          \* the maximal width of a row (3)
  OP_REGS,    \* operand registers, <<"r3", ..., "r8">>
  IM_REGS,    \* intermediate registers, <<"r9", ..., "r12">>
  W,          \* word base (2^32 in the code; scaled for TLC)
  Bits,       \* values of the -b argument; NOARG when it is not given
  NOARG,      \* -b not given
  MaxN,       \* the largest limb count B // 32 of Bits
  Inputs(_),  \* Inputs(n): the operand pairs to execute the code on
  UNDEF,      \* the contents of a word never written
  NOREG       \* a key with no operand register assigned

\* __main__'s asserts: 2 * E operand and E + 1 intermediate registers.
RegistersSufficient == Len(OP_REGS) = 2 * E /\ Len(IM_REGS) = E + 1

ASSUME E \in Nat \ {0} /\ RegistersSufficient
ASSUME \A B \in Bits \ {NOARG} : B \in Nat /\ B \div 32 <= MaxN

VARIABLES
  n, opA, opB,        \* N and the operands A (at r1) and B (at r2)
  i,                  \* row index of the loop in __main__
  pc,                 \* the statement about to run
  col,                \* column index of the loop in print_row
  a, b, max_a, max_b, prev_width, cols_with_values, \* RowGeneratorState
  im_regs,            \* IntermediateRegisters.regs, in rotation order
  assigned, available, \* OperandRegisters
  regs, stack,        \* the machine running the printed code
  err                 \* the exception that ended the script

vars == <<n, opA, opB, i, pc, col, a, b, max_a, max_b, prev_width,
          cols_with_values, im_regs, assigned, available, regs, stack, err>>

Regs == Range(OP_REGS) \cup Range(IM_REGS)
Words == 0 .. W - 1
Limbs == -E .. MaxN + E
\* OperandRegisters.key: a limb is named by its operand and index.
key(name, limb) == <<name, limb>>
Keys == {key(name, k) : name \in {"a", "b"}, k \in Limbs}
\* Stack words from sp up, two past the largest product area.
Cols == 0 .. 2 * MaxN + 1

\* N = B // 32: the number of limbs of a B-bit operand.
NumLimbs(B) == B \div 32

Ns == {NumLimbs(B) : B \in Bits \ {NOARG}}

\* OperandRegisters(OP_REGS): no limb has a register, all are available.
NewOperandRegisters == [asg |-> [k \in Keys |-> NOREG], avail |-> OP_REGS]

\* math.ceil(n / e)
num_rows == (n + E - 1) \div E

\* lo() and hi(k) of IntermediateRegisters (0-indexed in the code).
lo == im_regs[1]
hi(k) == im_regs[k + 1]

\* IntermediateRegisters.rotate: regs[1:] + regs[:1].
rotate(r) == Tail(r) \o <<Head(r)>>

\* IntermediateRegisters(IM_REGS)
NewIntermediateRegisters == IM_REGS

\* RowGeneratorState(N, E, op_regs, im_regs): no column holds a value yet.
NewRowGeneratorState ==
  /\ cols_with_values = {}
  /\ im_regs = NewIntermediateRegisters

\* RowGeneratorState.col_has_value
col_has_value(c) == c \in cols_with_values

\* The operand word at limb k; outside the operand it is whatever memory
\* holds there.
Limb(x, k) == IF k \in 0 .. n - 1 THEN x[k] ELSE UNDEF

Operand(k) == Limb(IF k[1] = "a" THEN opA ELSE opB, k[2])

(***************************************************************************)
(* RowGeneratorState.get_width: the multiplications in the current column. *)
(***************************************************************************)
Min2(x, y) == IF x < y THEN x ELSE y

get_width ==
  IF b = 0 THEN (a % E) + 1
  ELSE IF a = max_a THEN Min2(E, max_b + 1 - b)
  ELSE E

\* get_operands: (k, A limb, B limb) for each multiplication of the column.
Operands == [k \in 1 .. get_width |-> <<a - (k - 1), b + (k - 1)>>]

(***************************************************************************)
(* The operand register allocator, as a record al = [asg, avail].          *)
(***************************************************************************)
\* Mutant of Release: the register is returned without checking that the
\* key holds one.
ReleaseNoCheck(al, k) ==
  [asg |-> [al.asg EXCEPT ![k] = NOREG], avail |-> Append(al.avail, al.asg[k])]

\* OperandRegisters.release: return the register of key, if it has one.
Release(al, k) ==
  IF al.asg[k] = NOREG THEN al
  ELSE [asg |-> [al.asg EXCEPT ![k] = NOREG],
        avail |-> Append(al.avail, al.asg[k])]

ReleaseAll(al, keys) == FoldLeft(Release, al, keys)

\* Mutant of Get: available[0] is assigned but not popped.
GetNoPop(al, k) ==
  IF al.asg[k] # NOREG THEN [al |-> al, new |-> FALSE, fail |-> FALSE]
  ELSE IF al.avail = << >> THEN [al |-> al, new |-> FALSE, fail |-> TRUE]
  ELSE [al |-> [asg |-> [al.asg EXCEPT ![k] = Head(al.avail)],
                avail |-> al.avail],
        new |-> TRUE, fail |-> FALSE]

\* OperandRegisters.get: the register of key, assigning the first available
\* one if it has none; popping from an empty list raises IndexError.
Get(al, k) ==
  IF al.asg[k] # NOREG THEN [al |-> al, new |-> FALSE, fail |-> FALSE]
  ELSE IF al.avail = << >> THEN [al |-> al, new |-> FALSE, fail |-> TRUE]
  ELSE [al |-> [asg |-> [al.asg EXCEPT ![k] = Head(al.avail)],
                avail |-> Tail(al.avail)],
        new |-> TRUE, fail |-> FALSE]

Alloc == [asg |-> assigned, avail |-> available]

\* Mutant of KeyRange: range(from, to - 1), the last limb left out.
KeyRangeShort(name, from, to) ==
  [k \in 1 .. (IF to - 1 > from THEN to - 1 - from ELSE 0) |-> key(name, from + k - 1)]

\* The keys of limbs lo .. hi-1 of one operand, in increasing order.
KeyRange(name, from, to) ==
  [k \in 1 .. (IF to > from THEN to - from ELSE 0) |-> key(name, from + k - 1)]

\* umull and umaal on words, UNDEF if an input is.
MulAcc(x, y, l, h) ==
  IF UNDEF \in {x, y, l, h} THEN [lo |-> UNDEF, hi |-> UNDEF]
  ELSE [lo |-> (x * y + l + h) % W, hi |-> (x * y + l + h) \div W]

-----------------------------------------------------------------------------
(***************************************************************************)
(* __main__'s arguments: without -b it prints the help and exits with 1;  *)
(* otherwise N = B // 32 (0 for B < 32, which prints no row).              *)
(***************************************************************************)
ParseArgs(B) ==
  IF B = NOARG THEN [n |-> 0, pc |-> "usage"]
  ELSE [n |-> NumLimbs(B), pc |-> "row"]

(***************************************************************************)
(* __main__: sub sp reserves the 2N-word product area, then op_regs,      *)
(* im_regs and the state are made; the product area, the words above it  *)
(* and all registers start unwritten.                                      *)
(***************************************************************************)
Init ==
  /\ \E B \in Bits : n = ParseArgs(B).n /\ pc = ParseArgs(B).pc
  /\ \E ops \in Inputs(n) : opA = ops[1] /\ opB = ops[2]
  /\ i = 0
  /\ col = 0
  /\ a = 0 /\ b = 0 /\ max_a = 0 /\ max_b = 0 /\ prev_width = 1
  /\ NewRowGeneratorState
  /\ assigned = NewOperandRegisters.asg
  /\ available = NewOperandRegisters.avail
  /\ regs = [r \in Regs |-> UNDEF]
  /\ stack = [c \in Cols |-> UNDEF]
  /\ err = "none"

(***************************************************************************)
(* state.init(i), then release_non_overlapping_op_regs at the start of    *)
(* print_row: the first row may be partial and starts at the top limbs of *)
(* A; row i >= 1 starts at A[e*(i-1)].                                     *)
(***************************************************************************)
StartRow ==
  /\ pc = "row" /\ i < num_rows
  /\ LET a1 == IF i = 0 THEN (num_rows - 1) * E ELSE E * (i - 1)
         al == ReleaseAll(Alloc, KeyRange("a", 0, a1) \o KeyRange("a", a1 + E, n)
                                   \o KeyRange("b", E, n))
     IN /\ a' = a1
        /\ b' = 0
        /\ max_b' = IF i = 0 THEN n - a1 - 1 ELSE n - 1
        /\ max_a' = IF i = 1 THEN n - E * (num_rows - 2) - 1
                    ELSE Min2(n - 1, a1 + 2 * E - 1)
        /\ prev_width' = 1
        /\ assigned' = al.asg
        /\ available' = al.avail
        /\ col' = a1
  /\ pc' = "loop"
  /\ UNCHANGED <<n, opA, opB, i, cols_with_values, im_regs, regs, stack, err>>

\* The loop of __main__ is over.
Finish ==
  /\ pc = "row" /\ i >= num_rows
  /\ pc' = "done"
  /\ UNCHANGED <<n, opA, opB, i, col, a, b, max_a, max_b, prev_width,
                 cols_with_values, im_regs, assigned, available, regs, stack, err>>

\* The for loop of print_row and the assertion at its top.
LoopTop ==
  /\ pc = "loop"
  /\ IF col >= 2 * n - 1 THEN i' = i + 1 /\ pc' = "row" /\ err' = err
     ELSE IF a < n /\ b < n THEN pc' = "clear" /\ UNCHANGED <<i, err>>
     ELSE pc' = "failed" /\ err' = "AssertionError" /\ i' = i
  /\ UNCHANGED <<n, opA, opB, col, a, b, max_a, max_b, prev_width,
                 cols_with_values, im_regs, assigned, available, regs, stack>>

(***************************************************************************)
(* print_clear_registers: mov #0 into the intermediate registers umaal    *)
(* will add but that hold nothing of this column.                          *)
(***************************************************************************)
\* Mutant of ClearRegs: hi(width) is not cleared for a column with no value.
ClearRegsNoExtra ==
  IF b = 0 /\ get_width = 1
  THEN IF col_has_value(col) THEN {lo} ELSE {}
  ELSE {hi(k) : k \in prev_width .. get_width - 1}

ClearRegs ==
  IF b = 0 /\ get_width = 1
  THEN IF col_has_value(col) THEN {lo} ELSE {}
  ELSE {hi(k) : k \in prev_width ..
                      get_width + (IF col_has_value(col) THEN 0 ELSE 1) - 1}

ClearRegisters ==
  /\ pc = "clear"
  /\ regs' = [r \in Regs |-> IF r \in ClearRegs THEN 0 ELSE regs[r]]
  /\ pc' = "load"
  /\ UNCHANGED <<n, opA, opB, i, col, a, b, max_a, max_b, prev_width,
                 cols_with_values, im_regs, assigned, available, stack, err>>

(***************************************************************************)
(* print_loads: ldr the column's stored value into hi(width), then every   *)
(* operand limb of the column that has no register yet (a before b).       *)
(***************************************************************************)
LoadKey(st, k) ==
  IF st.fail THEN st
  ELSE LET g == Get(st.al, k)
       IN [al |-> g.al, fail |-> g.fail,
           regs |-> IF g.new THEN [st.regs EXCEPT ![g.al.asg[k]] = Operand(k)]
                    ELSE st.regs]

LoadOperand(st, op) == LoadKey(LoadKey(st, key("a", op[1])), key("b", op[2]))

Loaded ==
  FoldLeft(LoadOperand,
           [al |-> Alloc, fail |-> FALSE,
            regs |-> IF col_has_value(col)
                     THEN [regs EXCEPT ![hi(get_width)] = stack[col]] ELSE regs],
           Operands)

Load ==
  /\ pc = "load"
  /\ assigned' = Loaded.al.asg
  /\ available' = Loaded.al.avail
  /\ regs' = Loaded.regs
  /\ IF Loaded.fail THEN pc' = "failed" /\ err' = "IndexError"
     ELSE pc' = "mult" /\ err' = err
  /\ UNCHANGED <<n, opA, opB, i, col, a, b, max_a, max_b, prev_width,
                 cols_with_values, im_regs, stack>>

(***************************************************************************)
(* print_multiplications: umull for the first product of a column, umaal  *)
(* lo, hi(k) otherwise; get_assigned asserts that every operand has its   *)
(* register.                                                               *)
(***************************************************************************)
OperandKeys == {key("a", Operands[k][1]) : k \in DOMAIN Operands}
                 \cup {key("b", Operands[k][2]) : k \in DOMAIN Operands}

UseUmull == b = 0 /\ get_width = 1 /\ ~col_has_value(col)

MultiplyStep(rg, k) ==
  LET r == MulAcc(rg[assigned[key("a", Operands[k][1])]],
                  rg[assigned[key("b", Operands[k][2])]],
                  IF UseUmull THEN 0 ELSE rg[lo],
                  IF UseUmull THEN 0 ELSE rg[hi(k)])
  IN [rg EXCEPT ![lo] = r.lo, ![hi(k)] = r.hi]

Multiplied == FoldLeft(MultiplyStep, regs, [k \in 1 .. get_width |-> k])

Multiply ==
  /\ pc = "mult"
  /\ IF \A k \in OperandKeys : assigned[k] # NOREG
     THEN regs' = Multiplied /\ pc' = "store" /\ err' = err
     ELSE UNCHANGED regs /\ pc' = "failed" /\ err' = "AssertionError"
  /\ UNCHANGED <<n, opA, opB, i, col, a, b, max_a, max_b, prev_width,
                 cols_with_values, im_regs, assigned, available, stack>>

\* str lo at sp[col]; the column has a value; im_regs <<< 1.
Store ==
  /\ pc = "store"
  /\ stack' = [stack EXCEPT ![col] = regs[lo]]
  /\ cols_with_values' = cols_with_values \cup {col}
  /\ im_regs' = rotate(im_regs)
  /\ prev_width' = get_width
  /\ pc' = "advance"
  /\ UNCHANGED <<n, opA, opB, i, col, a, b, max_a, max_b,
                 assigned, available, regs, err>>

(***************************************************************************)
(* The end of an iteration of print_row: the end of the row, or one of the *)
(* five moves to the next column, each taken only when those before it    *)
(* are not.                                                                *)
(***************************************************************************)
IsEndOfRow == a = max_a /\ b = max_b
IsWarmup == b = 0 /\ get_width < E /\ col < n - 1
IsCooldown == a = max_a /\ b + get_width = n
IsCooldownInitial == a = n - 1 /\ max_b < E /\ col >= n - 1
IsUpwards == (a + b - n + 1) \in 0 .. get_width - 1 /\ a < max_a

EndOfRow ==
  /\ pc = "advance" /\ IsEndOfRow
  /\ cols_with_values' = cols_with_values \cup {col + 1}
  /\ stack' = [stack EXCEPT ![col + 1] = regs[lo]]
  /\ i' = i + 1
  /\ pc' = "row"
  /\ UNCHANGED <<n, opA, opB, col, a, b, max_a, max_b, prev_width,
                 im_regs, assigned, available, regs, err>>

\* Move to column col + 1 with the given a, b and operand registers.
NextColumn(a2, b2, al) ==
  /\ a' = a2 /\ b' = b2
  /\ assigned' = al.asg /\ available' = al.avail
  /\ col' = col + 1
  /\ pc' = "loop"
  /\ UNCHANGED <<n, opA, opB, i, max_a, max_b, prev_width, cols_with_values,
                 im_regs, regs, stack, err>>

Warmup ==
  /\ pc = "advance" /\ ~IsEndOfRow /\ IsWarmup
  /\ NextColumn(a + 1, b, Alloc)

Cooldown ==
  /\ pc = "advance" /\ ~IsEndOfRow /\ ~IsWarmup /\ IsCooldown
  /\ NextColumn(a, b + 1, Alloc)

CooldownInitial ==
  /\ pc = "advance" /\ ~IsEndOfRow /\ ~IsWarmup /\ ~IsCooldown
  /\ IsCooldownInitial
  /\ NextColumn(a, b + 1, Alloc)

Upwards ==
  /\ pc = "advance" /\ ~IsEndOfRow /\ ~IsWarmup /\ ~IsCooldown
  /\ ~IsCooldownInitial /\ IsUpwards
  /\ NextColumn(a + 1, b, Release(Alloc, key("a", a - get_width + 1)))

Downwards ==
  /\ pc = "advance" /\ ~IsEndOfRow /\ ~IsWarmup /\ ~IsCooldown
  /\ ~IsCooldownInitial /\ ~IsUpwards
  /\ NextColumn(a, b + 1, Release(Alloc, key("b", b)))

Next ==
  \/ StartRow \/ Finish \/ LoopTop \/ ClearRegisters \/ Load \/ Multiply
  \/ Store \/ EndOfRow \/ Warmup \/ Cooldown \/ CooldownInitial \/ Upwards
  \/ Downwards

Spec == Init /\ [][Next]_vars

-----------------------------------------------------------------------------
(***************************************************************************)
(* The reference: schoolbook multiplication with carry propagation, limb   *)
(* c of A * B.                                                             *)
(***************************************************************************)
ColumnSum(c) ==
  MapThenSumSet(LAMBDA k : opA[k] * opB[c - k],
                {k \in 0 .. n - 1 : c - k \in 0 .. n - 1})

RECURSIVE CarryInto(_)
CarryInto(c) ==
  IF c <= 0 THEN 0 ELSE (ColumnSum(c - 1) + CarryInto(c - 1)) \div W

ProductLimb(c) == (ColumnSum(c) + CarryInto(c)) % W

TypeOK ==
  /\ n \in Ns \cup {0} /\ i \in 0 .. num_rows /\ col \in 0 .. 2 * n
  /\ pc \in {"usage", "row", "loop", "clear", "load", "mult", "store",
             "advance", "done", "failed"}
  /\ assigned \in [Keys -> Range(OP_REGS) \cup {NOREG}]
  /\ available \in Seq(Range(OP_REGS))
  /\ regs \in [Regs -> Words \cup {UNDEF}]
  /\ stack \in [Cols -> Words \cup {UNDEF}]
  /\ err \in {"none", "AssertionError", "IndexError"}

(***************************************************************************)
(* When __main__ has printed every row, the code it printed has left the   *)
(* 2n limbs of A * B at sp: every column was cleared, loaded, accumulated  *)
(* and stored in the right order, and the carries out of each row reach    *)
(* the next one through the stack and hi(width).                           *)
(***************************************************************************)
ProductCorrect ==
  pc = "done" => \A c \in 0 .. 2 * n - 1 : stack[c] = ProductLimb(c)

(***************************************************************************)
(* The generator never stops on an exception: neither the assertion of    *)
(* print_row and get_assigned nor an IndexError from popping an empty     *)
(* list of operand registers (2e registers are enough).                    *)
(***************************************************************************)
NoGeneratorError == pc # "failed"

(***************************************************************************)
(* The cache of operand limbs stays coherent across release and get: every *)
(* operand register is either available or assigned to exactly one limb,  *)
(* never both, and once the loads of a column have run, the register      *)
(* assigned to a limb holds that limb of A or B.                           *)
(***************************************************************************)
OperandRegistersCoherent ==
  LET asg == {k \in Keys : assigned[k] # NOREG}
  IN /\ IsInjective(available)
     /\ \A k1, k2 \in asg : k1 # k2 => assigned[k1] # assigned[k2]
     /\ Range(available) \cap {assigned[k] : k \in asg} = {}
     /\ Range(available) \cup {assigned[k] : k \in asg} = Range(OP_REGS)
     /\ pc \in {"mult", "store", "advance"} =>
          \A k \in asg : regs[assigned[k]] = Operand(k)
=============================================================================
