------------------------------ MODULE MCKprng ------------------------------
(***************************************************************************)
(* Model-checking instance of Kprng.  Two pools (drained every 1 and 2     *)
(* reseeds), the cache sizes of MCCryptoRng, requests of 1 byte (through   *)
(* the cache) and 3 bytes (bypassing it), and sample counts of 256 (half   *)
(* a bootstrap) and 1024 (a full bootstrap, a full seeding), 0 ("try       *)
(* later") and -1 (compromise).  The healthy source always reports 1024,   *)
(* and its consumers ask for 1 byte at a time (a reseed is performed by    *)
(* the first pass of generate's loop whatever the request size).           *)
(***************************************************************************)
EXTENDS Kprng

MCNSamples == {-1, 0, 256, 1024}
MCHealthyNSamples == {1024}
MCReqSizes == {0, 1, 3}
MCLiveReqSizes == {1}
MCMaxSchedule == 2^NPOOLS - 1
=============================================================================
