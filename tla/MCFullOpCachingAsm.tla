------------------------- MODULE MCFullOpCachingAsm -------------------------
(***************************************************************************)
(* The generator without -b and for n = 0 .. 9 and 12 limbs, with the      *)
(* registers and width of __main__ and words scaled to base 16.  Short    *)
(* operands run over every pair of limbs from {0, 1, W-1}; longer ones    *)
(* over all-ones, the largest operands (the longest carry chains) and two *)
(* patterns whose limbs differ, so that a misplaced limb changes the      *)
(* product.                                                                *)
(***************************************************************************)
EXTENDS FullOpCachingAsm

MCOpRegs == <<"r3", "r4", "r5", "r6", "r7", "r8">>
MCImRegs == <<"r9", "r10", "r11", "r12">>
MCW == 16
MCMaxN == 12
\* No -b, 16 bits (no limb), and 32 .. 288 and 384 bits (1 .. 9 and 12 limbs).
MCBits == {NOARG, 16} \cup {32 * k : k \in (1 .. 9) \cup {12}}

\* Ten limbs (320-bit operands): the first n > 9 that is not a multiple of 3.
MCLargeBits == {320}

Digits == {0, 1, MCW - 1}

Pattern(N, f(_)) == [k \in 0 .. N - 1 |-> f(k)]

MCInputs(N) ==
  IF N <= 2
  THEN [0 .. N - 1 -> Digits] \X [0 .. N - 1 -> Digits]
  ELSE { <<Pattern(N, LAMBDA k : 1), Pattern(N, LAMBDA k : 1)>>,
         <<Pattern(N, LAMBDA k : MCW - 1), Pattern(N, LAMBDA k : MCW - 1)>>,
         <<Pattern(N, LAMBDA k : (3 * k + 1) % MCW),
           Pattern(N, LAMBDA k : (5 * k + 7) % MCW)>>,
         <<Pattern(N, LAMBDA k : (7 * k + 2) % MCW),
           Pattern(N, LAMBDA k : MCW - 1 - k)>> }
=============================================================================
