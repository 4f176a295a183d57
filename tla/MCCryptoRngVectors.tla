------------------------- MODULE MCCryptoRngVectors -------------------------
(***************************************************************************)
(* The vector script with the sizes of MCCryptoRng (threshold 3, cache 4, *)
(* chunk 5 for 12, 256, 4096).  gen_amnt keeps its class: tv = 0 asks for *)
(* 1 byte, through the cache; tv = 1..9 ask for 26..230 bytes, above the  *)
(* threshold and below the cache size; tv = 10 and series 3 ask for 256,  *)
(* the cache size.  n = (tv + 1) * 10 becomes tv + 1 and series 3's 32    *)
(* becomes 3.  RESEED_INTERVAL is the most generate() calls one DRBG key  *)
(* serves (n + 2 at tv = 10) and MaxReseeds the most reseeds of one RNG   *)
(* (series 2), so that, as in the code with 2^48, neither bound is met.    *)
(***************************************************************************)
EXTENDS CryptoRngVectors

MCTvMax == 10

MCGenAmnt(t) ==
  IF t = 0 THEN 1 ELSE IF t = 10 THEN CACHE_SIZE ELSE FIPS_REQUEST_SIZE_THRESHOLD

MCNGens(t) == t + 1

MCReseedInterval == MCNGens(MCTvMax) + 2

MCMaxReseeds == MCNGens(MCTvMax) + 4
=============================================================================
