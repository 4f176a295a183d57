------------------------------ MODULE HmacDrbg ------------------------------
(***************************************************************************)
(* The HMAC_DRBG of ccrng/tools/hmac_drbg.py, abstracted like CTR_DRBG in *)
(* module Drbg: (K, V) is a pseudorandom function of the seed material, so *)
(* a DRBG is the record [epoch, rc] of its reseeds and its reseed counter, *)
(* and a block of output is named <<epoch, rc>>.  _update is part of each *)
(* operation that calls it.  Unlike CTR_DRBG, the reseed interval is only *)
(* enforced when the fips flag is set.                                     *)
(***************************************************************************)
EXTENDS Integers

CONSTANTS
  RESEED_INTERVAL, \* 1 << 48 in the code; scaled down for TLC
  FIPS,            \* the fips argument of __init__
  NONE             \* the None returned by generate() past the interval

\* __init__(ihash, entropy, nonce, ps, fips): raises unless the entropy is
\* longer than half the digest; K = 0.., V = 1.., _update, reseed_counter = 1.
HmacDrbgInstantiate(entropy_len, hash_len) ==
  IF entropy_len > hash_len \div 2 THEN [epoch |-> 0, rc |-> 1] ELSE NONE

\* reseed(entropy, ai): _update(entropy + ai), reseed_counter = 1.
HmacDrbgReseed(d) == [epoch |-> d.epoch + 1, rc |-> 1]

\* Mutant: the fips test of generate() is dropped.
HmacDrbgGenerateNoFips(d) ==
  [drbg |-> [d EXCEPT !.rc = d.rc + 1], blk |-> <<d.epoch, d.rc>>]

\* generate(n, ai): None if fips and reseed_counter > RESEED_INTERVAL;
\* otherwise V = HMAC(K, V) until n bytes, _update(ai), reseed_counter += 1.
HmacDrbgGenerate(d) ==
  IF d.rc <= RESEED_INTERVAL \/ ~FIPS
  THEN [drbg |-> [d EXCEPT !.rc = d.rc + 1], blk |-> <<d.epoch, d.rc>>]
  ELSE [drbg |-> d, blk |-> NONE]
=============================================================================
