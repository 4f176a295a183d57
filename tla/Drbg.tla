-------------------------------- MODULE Drbg --------------------------------
(***************************************************************************)
(* The DRBG an RNG is built over: the CTR_DRBG of ctr_drbg.py (used by    *)
(* cckprng) or the HMAC_DRBG of hmac_drbg.py (module HmacDrbg, used by    *)
(* ccrng_crypto), abstracted to the part of its state that decides which  *)
(* output it produces and whether it produces any: the reseed counter and *)
(* the key epoch.  The key/value pair (K, V) is a pseudorandom function of *)
(* the seed material, so it is kept as the number of reseeds since        *)
(* instantiation: two generate() calls return the same bytes only if they *)
(* run under the same epoch and reseed counter.  A block of output is     *)
(* named <<epoch, reseed_counter>>.                                        *)
(*                                                                         *)
(* The operators are pure functions of a DRBG record [epoch, rc] so that  *)
(* a caller can apply several of them within one of its own steps.        *)
(***************************************************************************)
EXTENDS Integers

CONSTANTS
  DRBG,            \* the class of self.drbg: "CTR_DRBG" or "HMAC_DRBG"
  FIPS,            \* the fips flag an HMAC_DRBG is built with
  RESEED_INTERVAL, \* 1 << 48 in the code; scaled down for TLC
  MaxReseeds,      \* bound on the number of reseeds (epochs)
  NONE             \* the None returned by generate() past the interval

ASSUME RESEED_INTERVAL \in Nat \ {0}
ASSUME MaxReseeds \in Nat
ASSUME DRBG \in {"CTR_DRBG", "HMAC_DRBG"} /\ FIPS \in BOOLEAN

H == INSTANCE HmacDrbg

DrbgStates == [epoch : 0 .. MaxReseeds, rc : 1 .. RESEED_INTERVAL + 1]

Blocks == (0 .. MaxReseeds) \X (1 .. RESEED_INTERVAL)

\* CTR_DRBG.__init__: seed the key and value from entropy, nonce and
\* personalization, reseed_counter = 1.
CtrDrbgInstantiate == [epoch |-> 0, rc |-> 1]

\* CTR_DRBG.reseed(entropy, ai): derive a new key and value,
\* reseed_counter = 1.
CtrDrbgReseed(d) == [epoch |-> d.epoch + 1, rc |-> 1]

\* CTR_DRBG.generate(n, ai): None once reseed_counter exceeds the interval
\* (state unchanged); otherwise the block for this epoch and counter, then
\* reseed_counter += 1.
CtrDrbgGenerate(d) ==
  IF d.rc <= RESEED_INTERVAL
  THEN [drbg |-> [d EXCEPT !.rc = d.rc + 1], blk |-> <<d.epoch, d.rc>>]
  ELSE [drbg |-> d, blk |-> NONE]

\* A DRBG just built: both classes start at epoch 0 with reseed_counter 1.
DrbgInstantiate == CtrDrbgInstantiate

\* The calls of self.drbg, dispatched on its class.

DrbgReseed(d) == IF DRBG = "HMAC_DRBG" THEN H!HmacDrbgReseed(d) ELSE CtrDrbgReseed(d)

DrbgGenerate(d) ==
  IF DRBG = "HMAC_DRBG" THEN H!HmacDrbgGenerate(d) ELSE CtrDrbgGenerate(d)
=============================================================================
