---------------------------- MODULE MCCryptoRng ----------------------------
(***************************************************************************)
(* Model-checking instance of CryptoRng.  The sizes keep the code's order *)
(* threshold (12) <= cache (256) <= chunk (4096), scaled to 3 <= 4 <= 5:  *)
(* requests of 1 and 2 bytes use the cache and need a refill when the     *)
(* cursor is near its end; 3 bytes bypasses it in one chunk and 6 bytes    *)
(* in two.  RESEED_INTERVAL 3 lets the DRBG run out between reseeds.       *)
(***************************************************************************)
EXTENDS CryptoRng

MCReqSizes == {0, 1, 2, 3, 6}
=============================================================================
