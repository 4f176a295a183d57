-------------------------------- MODULE Kprng --------------------------------
(***************************************************************************)
(* The kernel PRNG of ccrng/tools/cckprng.py (class CCKPRNG): one CryptoRng *)
(* over a CTR_DRBG, and one Fortuna accumulator, sharing one entropy       *)
(* source.  The accumulator's source is _fortuna_getentropy, which feeds   *)
(* a bootstrap digest and reports "no samples" until 512 samples have     *)
(* been digested; the CryptoRng's source (csprng_getentropy_func) returns *)
(* that digest once, and the accumulator's generate() afterwards.  The     *)
(* CryptoRng's needreseed() reads and clears the kernel's needreseed flag, *)
(* which refresh() sets when the accumulator reseeds.                      *)
(*                                                                         *)
(* Data abstraction: the bootstrap digest (a SHA-512 object) is kept as   *)
(* whether it has absorbed entropy and whether that includes entropy      *)
(* reported before the last compromise signal.                             *)
(***************************************************************************)
EXTENDS Integers, Sequences

CONSTANTS
  NPOOLS, NSamples, MaxSchedule,
  CACHE_SIZE, FIPS_REQUEST_SIZE_THRESHOLD, MAX_CHUNK, ReqSizes, ZERO,
  RESEED_INTERVAL, MaxReseeds, NONE

VARIABLES
  \* Fortuna
  pool_i, schedule, seeded, pool_data, pool_nsamples, pool_ndrains,
  schedreseed_nsamples_max, pool_nsamples_max, addentropy_nsamples_max,
  nreseeds, result, exc, pool_fresh, seed_evidence,
  \* CryptoRng over CTR_DRBG
  cache, cache_pos, drbg_epoch, reseed_counter, status,
  returned,                 \* the last call returned bytes
  \* CCKPRNG
  needreseed,               \* self.needreseed
  first_seed_done,          \* self.first_seed_done
  entropy_digest_nsamples,  \* self.entropy_digest_nsamples
  digest_absorbed,          \* self.entropy_digest has absorbed entropy
  digest_stale,             \* ... including entropy from before a compromise
  \* history
  reseed_pending,           \* a reseed was requested and not yet done
  fresh_nsamples,           \* samples reported since the last compromise
  last_reseed,              \* entropy behind the DRBG reseed of this step
  digest_due                \* bootstrap ended, no entropy reseed since

F == INSTANCE Fortuna WITH GenSizes <- {64}
\* The byte-level history of CryptoRng is checked in MCCryptoRng; here a
\* call is only recorded as having returned bytes or not.
C == INSTANCE CryptoRng WITH DRBG <- "CTR_DRBG", FIPS <- TRUE, AlwaysReseed <- FALSE,
                             served <- {}, out <- << >>, req <- 0

kvars == <<pool_i, schedule, seeded, pool_data, pool_nsamples, pool_ndrains,
           schedreseed_nsamples_max, pool_nsamples_max, addentropy_nsamples_max,
           nreseeds, result, exc, pool_fresh, seed_evidence,
           cache, cache_pos, drbg_epoch, reseed_counter, status, returned,
           needreseed, first_seed_done, entropy_digest_nsamples,
           digest_absorbed, digest_stale,
           reseed_pending, fresh_nsamples, last_reseed, digest_due>>

\* self.entropy_digest_nsamples_needed
ENTROPY_DIGEST_NSAMPLES_NEEDED == 512

\* RNG.ENTROPY_SIZE, the length asked of the entropy callback
ENTROPY_SIZE == 64

ReseedSources == {"none", "user", "digest", "fortuna"}

KInit ==
  /\ F!FortunaInit
  /\ C!CryptoInit
  /\ returned = FALSE
  /\ needreseed = FALSE
  /\ first_seed_done = FALSE
  /\ entropy_digest_nsamples = 0
  /\ digest_absorbed = FALSE
  /\ digest_stale = FALSE
  /\ reseed_pending = FALSE
  /\ fresh_nsamples = 0
  /\ last_reseed = "none"
  /\ digest_due = FALSE

\* Mutant of _fortuna_getentropy: the sample count is passed on during
\* bootstrap.
BootstrapNSamplesLeak(ns, bootstrap) == ns

\* _fortuna_getentropy: the count the accumulator sees; 0 during bootstrap.
BootstrapNSamples(ns, bootstrap) == IF bootstrap THEN 0 ELSE ns

\* Mutants of _fortuna_getentropy: a negative count is added to the digest
\* count, or leaves it alone, instead of clearing it.
DigestNSamplesAddNegative(ns, bootstrap) ==
  IF ns < 0 \/ bootstrap THEN entropy_digest_nsamples + ns
  ELSE entropy_digest_nsamples

DigestNSamplesNoReset(ns, bootstrap) ==
  IF bootstrap THEN entropy_digest_nsamples + ns ELSE entropy_digest_nsamples

\* _fortuna_getentropy: self.entropy_digest_nsamples after the call.
DigestNSamples(ns, bootstrap) ==
  IF ns < 0 THEN 0
  ELSE IF bootstrap THEN entropy_digest_nsamples + ns
  ELSE entropy_digest_nsamples

\* Mutant of refresh: the flag is overwritten instead of set.
RequestReseedOverwrite(request) == request

\* self.needreseed = True in _fortuna_getentropy and refresh, if requested.
RequestReseed(request) == needreseed \/ request

(***************************************************************************)
(* refresh(): fortuna.refresh() pulls (ns, entropy) from the source        *)
(* through _fortuna_getentropy.  A negative count clears the bootstrap     *)
(* sample count and first_seed_done and is passed on (the accumulator      *)
(* resets); after bootstrap the count is passed on; during bootstrap the   *)
(* entropy is digested, 0 is passed on, and reaching 512 samples ends      *)
(* bootstrap and requests a reseed.  If the accumulator reseeded, refresh  *)
(* requests a reseed too.                                                  *)
(***************************************************************************)
Refresh(ns) ==
  LET bootstrap == ns >= 0 /\ ~first_seed_done
      dsamples  == entropy_digest_nsamples + ns
      ready     == bootstrap /\ dsamples >= ENTROPY_DIGEST_NSAMPLES_NEEDED
  IN /\ F!Refresh(BootstrapNSamples(ns, bootstrap))
     /\ entropy_digest_nsamples' = DigestNSamples(ns, bootstrap)
     /\ first_seed_done' = IF ns < 0 THEN FALSE ELSE first_seed_done \/ ready
     /\ digest_absorbed' = (digest_absorbed \/ bootstrap)
     /\ digest_stale' = (digest_stale \/ (ns < 0 /\ digest_absorbed))
     /\ LET request == ready \/ result' = "reseeded"
        IN /\ needreseed' = RequestReseed(request)
           /\ reseed_pending' = (reseed_pending \/ request)
     /\ fresh_nsamples' = IF ns < 0 THEN 0
                          ELSE C!MinOf(fresh_nsamples + ns, ENTROPY_DIGEST_NSAMPLES_NEEDED)
     /\ returned' = FALSE
     /\ last_reseed' = "none"
     /\ digest_due' = IF ns < 0 THEN FALSE ELSE digest_due \/ ready
     /\ UNCHANGED <<cache, cache_pos, drbg_epoch, reseed_counter, status>>

(***************************************************************************)
(* reseed(seed): CryptoRng.reseed(seed, nonce) with a fresh random nonce.  *)
(***************************************************************************)
Reseed ==
  /\ C!Reseed
  /\ returned' = FALSE
  /\ reseed_pending' = FALSE
  /\ last_reseed' = "user"
  /\ UNCHANGED <<pool_i, schedule, seeded, pool_data, pool_nsamples, pool_ndrains,
                 schedreseed_nsamples_max, pool_nsamples_max, addentropy_nsamples_max,
                 nreseeds, result, exc, pool_fresh, seed_evidence,
                 needreseed, first_seed_done, entropy_digest_nsamples,
                 digest_absorbed, digest_stale, fresh_nsamples, digest_due>>

\* A CryptoRng generate() call ending in the locals s.
Finish(s) ==
  /\ C!CommitState(s)
  /\ status' = IF s.err THEN "error" ELSE "ok"
  /\ returned' = (~s.err /\ s.out # << >>)

KeepFortuna ==
  UNCHANGED <<pool_i, schedule, seeded, pool_data, pool_nsamples, pool_ndrains,
              schedreseed_nsamples_max, pool_nsamples_max, addentropy_nsamples_max,
              nreseeds, result, exc, pool_fresh, seed_evidence>>

KeepDigest ==
  UNCHANGED <<first_seed_done, digest_absorbed, digest_stale, fresh_nsamples>>

(***************************************************************************)
(* generate(n) = CryptoRng.generate(n).  For n = 0 the loop does not run.  *)
(* Otherwise its first pass calls needreseed(), which returns and clears   *)
(* the kernel's flag; later passes see it cleared.  If it was set,         *)
(* getentropy_and_reseed() asks csprng_getentropy_func for entropy: the    *)
(* bootstrap digest if 512 samples are digested (clearing the count), else *)
(* fortuna.generate(64), which is None while the accumulator is not        *)
(* seeded.  Nothing changes between its 100 tries, so all of them get      *)
(* None and generate raises before serving any byte.                       *)
(***************************************************************************)
\* Mutant of csprng_getentropy_func: the accumulator is preferred once it
\* is seeded.
UseDigestUnlessSeeded ==
  entropy_digest_nsamples >= ENTROPY_DIGEST_NSAMPLES_NEEDED /\ ~seeded

\* csprng_getentropy_func: the digest serves the reseed once 512 samples
\* are digested, the accumulator otherwise.
UseDigest == entropy_digest_nsamples >= ENTROPY_DIGEST_NSAMPLES_NEEDED

GenerateNoReseed(n) ==
  /\ n = 0 \/ ~needreseed
  /\ Finish(C!GenLoop(C!CallState(n), FALSE))
  /\ last_reseed' = "none"
  /\ UNCHANGED <<needreseed, entropy_digest_nsamples, reseed_pending, digest_due>>
  /\ KeepFortuna /\ KeepDigest

GenerateFromDigest(n) ==
  /\ n > 0 /\ needreseed
  /\ UseDigest
  /\ Finish(C!GenLoop(C!ReseedLocal(C!CallState(n)), FALSE))
  /\ needreseed' = FALSE
  /\ entropy_digest_nsamples' = 0
  /\ reseed_pending' = FALSE
  /\ last_reseed' = "digest"
  /\ digest_due' = FALSE
  /\ KeepFortuna /\ KeepDigest

GenerateFromFortuna(n) ==
  /\ n > 0 /\ needreseed
  /\ ~UseDigest
  /\ F!Generate(ENTROPY_SIZE)
  /\ IF seeded
     THEN /\ Finish(C!GenLoop(C!ReseedLocal(C!CallState(n)), FALSE))
          /\ reseed_pending' = FALSE
          /\ last_reseed' = "fortuna"
          /\ digest_due' = FALSE
     ELSE /\ returned' = FALSE
          /\ status' = "error"
          /\ last_reseed' = "none"
          /\ UNCHANGED <<cache, cache_pos, drbg_epoch, reseed_counter,
                         reseed_pending, digest_due>>
  /\ needreseed' = FALSE
  /\ UNCHANGED entropy_digest_nsamples
  /\ KeepDigest

Generate(n) == GenerateNoReseed(n) \/ GenerateFromDigest(n) \/ GenerateFromFortuna(n)

KNext ==
  /\ ~exc
  /\ \/ \E ns \in NSamples : Refresh(ns)
     \/ \E n \in ReqSizes : Generate(n)
     \/ Reseed

KSpec == KInit /\ [][KNext]_kvars

\* The kernel's own entropy path: refresh() from the entropy timer and
\* generate() from consumers, with no caller-supplied reseed(seed).  Both
\* keep being called.
KEntropyNext ==
  /\ ~exc
  /\ \/ \E ns \in NSamples : Refresh(ns)
     \/ \E n \in ReqSizes : Generate(n)

KEntropyFairSpec ==
  /\ KInit /\ [][KEntropyNext]_kvars
  /\ WF_kvars(~exc /\ \E ns \in NSamples : Refresh(ns))
  /\ WF_kvars(~exc /\ \E n \in ReqSizes \ {0} : Generate(n))

-----------------------------------------------------------------------------
KTypeOK ==
  /\ F!FortunaTypeOK
  /\ cache \in C!CacheBlocks
  /\ cache_pos \in 0 .. CACHE_SIZE
  /\ [epoch |-> drbg_epoch, rc |-> reseed_counter] \in C!DrbgStates
  /\ status \in {"ok", "error"}
  /\ returned \in BOOLEAN
  /\ needreseed \in BOOLEAN
  /\ first_seed_done \in BOOLEAN
  /\ entropy_digest_nsamples \in Nat
  /\ digest_absorbed \in BOOLEAN
  /\ digest_stale \in BOOLEAN
  /\ reseed_pending \in BOOLEAN
  /\ fresh_nsamples \in 0 .. ENTROPY_DIGEST_NSAMPLES_NEEDED
  /\ last_reseed \in ReseedSources
  /\ digest_due \in BOOLEAN

(***************************************************************************)
(* Bootstrap gate (_fortuna_getentropy with the accumulator's _reset):     *)
(* until bootstrap completes, also after a compromise restarts it, the    *)
(* accumulator has taken no entropy: no pool counts a sample, no reseed   *)
(* was scheduled, and it is not seeded.                                    *)
(***************************************************************************)
BootstrapGate ==
  ~first_seed_done =>
    /\ ~seeded
    /\ schedule = 0
    /\ pool_i = 0
    /\ \A i \in F!Pools : pool_nsamples[i] = 0

(***************************************************************************)
(* Fail safe on compromise (_fortuna_getentropy, _reset,                   *)
(* csprng_getentropy_func): every reseed of the DRBG from the entropy      *)
(* callback, bootstrap digest or accumulator output, happens only after   *)
(* the source has reported 512 samples since its last compromise signal.  *)
(***************************************************************************)
CompromiseRequiresFreshEntropy ==
  [][last_reseed' \in {"digest", "fortuna"} =>
       fresh_nsamples >= ENTROPY_DIGEST_NSAMPLES_NEEDED]_kvars

(***************************************************************************)
(* The first reseed after bootstrap is served by the digest (the order of *)
(* the two branches of csprng_getentropy_func): once bootstrap has ended,  *)
(* the DRBG takes no entropy from the accumulator before it has reseeded  *)
(* from the bootstrap digest, even if the accumulator got seeded in the   *)
(* meantime; a compromise signal restarts bootstrap.                       *)
(***************************************************************************)
FirstReseedFromDigest ==
  [][last_reseed' = "fortuna" => ~digest_due]_kvars

(***************************************************************************)
(* Lazy reseed (refresh sets needreseed, generate reseeds): once a reseed *)
(* has been requested, generate() returns no bytes until the DRBG has     *)
(* been reseeded; a failed reseed never degrades to output under the old  *)
(* key.                                                                    *)
(***************************************************************************)
NoOutputWhileReseedPending == returned => ~reseed_pending

(***************************************************************************)
(* Reset on compromise clears the digest (spec 4.5): a DRBG reseed from    *)
(* the bootstrap digest uses only entropy reported since the last         *)
(* compromise signal.                                                      *)
(***************************************************************************)
DigestFreshAfterCompromise ==
  [][last_reseed' = "digest" => ~digest_stale]_kvars

(***************************************************************************)
(* Lazy reseed completes (refresh sets needreseed, the next generate       *)
(* reseeds): with a source that keeps reporting full sample counts, every  *)
(* reseed requested by bootstrap or by an accumulator reseed is eventually *)
(* performed.                                                              *)
(***************************************************************************)
ReseedEventuallyPerformed == reseed_pending ~> ~reseed_pending
=============================================================================
