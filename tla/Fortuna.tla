------------------------------ MODULE Fortuna ------------------------------
(***************************************************************************)
(* The Fortuna-style entropy accumulator of ccrng/tools/ccrng_fortuna.py   *)
(* (class RNG).  Each refresh() takes one sample batch from the entropy    *)
(* source, adds it to the next pool in round-robin order, and on every     *)
(* NPOOLS-th refresh drains the pools 0 .. ffs(schedule)-1 into the key.   *)
(*                                                                         *)
(* Data abstraction: a pool's 32-byte hash value is kept only as whether   *)
(* it holds absorbed entropy (pool_data[i]) or is the zero block; the key  *)
(* and counter block of the keystream function F are not kept (no         *)
(* property reads them).  The diagnostics the code reads back or the test *)
(* generator records in its vectors are kept exactly; the user and        *)
(* scheduled reseed counters, which neither reads, are left out.           *)
(***************************************************************************)
EXTENDS Integers, Functions

CONSTANTS
  NPOOLS,       \* _NPOOLS (32 in the code; scaled down for TLC)
  NSamples,     \* sample counts the entropy source may report
  GenSizes,     \* outlen values passed to generate()
  MaxSchedule   \* bound on the reseed schedule counter

ASSUME NPOOLS \in Nat \ {0}
ASSUME NSamples \subseteq Int
ASSUME GenSizes \subseteq Nat
ASSUME MaxSchedule \in Nat

VARIABLES
  pool_i,           \* ctx.pool_i: next pool to receive entropy
  schedule,         \* ctx.schedule: number of scheduled reseeds
  seeded,           \* ctx.seeded
  pool_data,        \* pools[i].data # bytes(32)
  pool_nsamples,    \* diag.pools[i].nsamples
  pool_ndrains,     \* diag.pools[i].ndrains
  schedreseed_nsamples_max, \* diag.schedreseed_nsamples_max
  pool_nsamples_max, \* diag.pools[i].nsamples_max
  addentropy_nsamples_max, \* diag.addentropy_nsamples_max
  nreseeds,         \* diag.nreseeds
  result,           \* outcome of the last refresh()/generate() call
  exc,              \* an exception escaped from the last call
  \* history
  pool_fresh,       \* samples added to pool i since its last drain or reset
  seed_evidence     \* a reseed since the last reset drained >= 1024 of them

fvars == <<pool_i, schedule, seeded, pool_data, pool_nsamples, pool_ndrains,
           schedreseed_nsamples_max, pool_nsamples_max, addentropy_nsamples_max,
           nreseeds, result, exc, pool_fresh, seed_evidence>>

\* The diagnostics kept here: all of them _reset clears.
DiagnosticsVars == <<schedreseed_nsamples_max, pool_nsamples, pool_ndrains,
                     pool_nsamples_max, addentropy_nsamples_max, nreseeds>>

HistoryVars == <<pool_fresh, seed_evidence>>

Pools == 0 .. NPOOLS - 1

\* nsamples >= 1024 in _schedreseed; outlen > 256 in generate
SEED_NSAMPLES == 1024
MAX_OUTLEN == 256

\* Outcomes of the calls, as the caller sees them.
Results == {"none", "reseeded", "not_reseeded", "reqsize", "not_seeded", "ok"}

(***************************************************************************)
(* ffs(x): least significant set bit of x, indexed from one.               *)
(***************************************************************************)
\* Mutant: the bit position counted from zero.
RECURSIVE FfsZeroIndexed(_)
FfsZeroIndexed(x) == IF x % 2 = 1 THEN 0 ELSE 1 + FfsZeroIndexed(x \div 2)

RECURSIVE Ffs(_)
Ffs(x) == IF x % 2 = 1 THEN 1 ELSE 1 + Ffs(x \div 2)

\* Reference definition: the exponent of the largest power of 2 dividing x,
\* plus one.
FfsRef(x) == CHOOSE i \in 1 .. x : x % 2^(i - 1) = 0 /\ x % 2^i # 0

\* Diagnostics(): every counter and maximum 0, for each pool too.
NewDiagnostics ==
  /\ schedreseed_nsamples_max = 0 /\ addentropy_nsamples_max = 0 /\ nreseeds = 0
  /\ pool_nsamples = [i \in Pools |-> 0]
  /\ pool_ndrains = [i \in Pools |-> 0]
  /\ pool_nsamples_max = [i \in Pools |-> 0]

\* Mutant of _reset: the per-pool sample counts are not cleared.
ResetDiagnosticsKeepNSamples ==
  /\ schedreseed_nsamples_max' = 0 /\ addentropy_nsamples_max' = 0 /\ nreseeds' = 0
  /\ UNCHANGED pool_nsamples
  /\ pool_ndrains' = [i \in Pools |-> 0]
  /\ pool_nsamples_max' = [i \in Pools |-> 0]

\* The loop and assignments of _reset that clear the diagnostics.
ResetDiagnostics ==
  /\ schedreseed_nsamples_max' = 0 /\ addentropy_nsamples_max' = 0 /\ nreseeds' = 0
  /\ pool_nsamples' = [i \in Pools |-> 0]
  /\ pool_ndrains' = [i \in Pools |-> 0]
  /\ pool_nsamples_max' = [i \in Pools |-> 0]

FortunaInit ==
  /\ pool_i = 0
  /\ schedule = 0
  /\ seeded = FALSE
  /\ pool_data = [i \in Pools |-> FALSE]
  /\ NewDiagnostics
  /\ result = "none"
  /\ exc = FALSE
  /\ pool_fresh = [i \in Pools |-> 0]
  /\ seed_evidence = FALSE

\* Mutants of _schedule: the pool index not wrapped, or not advanced.
NextPoolNoWrap(i) == i + 1
NextPoolStuck(i) == i

\* _schedule: the pool after i in round-robin order.
NextPool(i) == (i + 1) % NPOOLS

\* Mutant of _schedreseed: the drain loop runs while i <= pool_out.
DrainedInclusive(pout) == {i \in Pools : i <= pout}

\* _schedreseed: the pools its loop drains (none for pool_out = -1).
Drained(pout) == {i \in Pools : i < pout}

(***************************************************************************)
(* refresh() when the source reports nsamples > 0: _schedule(), then       *)
(* _addentropy(pool_in), then _schedreseed(pool_out).  The drain loop      *)
(* indexes ctx.pools[i] for i < pool_out; when pool_out exceeds NPOOLS the *)
(* loop raises IndexError after draining every pool, before the key, the  *)
(* diagnostics and seeded are updated.                                     *)
(***************************************************************************)
RefreshAdd(ns) ==
  LET pin     == pool_i
      sched   == IF pin = 0 THEN schedule + 1 ELSE schedule
      pout    == IF pin = 0 THEN Ffs(sched) ELSE -1
      added   == [pool_nsamples EXCEPT ![pin] = @ + ns]
      drained == Drained(pout)
      total   == SumFunctionOnSet(added, drained)
      overrun == pout > NPOOLS
      fresh   == [pool_fresh EXCEPT ![pin] = @ + ns]
  IN /\ ns > 0
     /\ pin = 0 => schedule < MaxSchedule
     /\ pool_i' = NextPool(pin)
     /\ schedule' = sched
     /\ pool_data' = [i \in Pools |-> IF i \in drained THEN FALSE
                                      ELSE pool_data[i] \/ i = pin]
     /\ pool_nsamples' = [i \in Pools |-> IF i \in drained THEN 0 ELSE added[i]]
     /\ pool_ndrains' = [i \in Pools |-> IF i \in drained THEN pool_ndrains[i] + 1
                                         ELSE pool_ndrains[i]]
     /\ pool_nsamples_max' = [pool_nsamples_max EXCEPT
                                ![pin] = IF added[pin] > @ THEN added[pin] ELSE @]
     /\ addentropy_nsamples_max' = IF ns > addentropy_nsamples_max THEN ns
                                   ELSE addentropy_nsamples_max
     /\ nreseeds' = IF pout = -1 \/ overrun THEN nreseeds ELSE nreseeds + 1
     /\ schedreseed_nsamples_max' =
          IF pout = -1 \/ overrun THEN schedreseed_nsamples_max
          ELSE IF total > schedreseed_nsamples_max THEN total
          ELSE schedreseed_nsamples_max
     /\ seeded' = (seeded \/ (pout # -1 /\ ~overrun /\ total >= SEED_NSAMPLES))
     /\ result' = IF pout = -1 THEN "not_reseeded" ELSE "reseeded"
     /\ exc' = overrun
     /\ pool_fresh' = [i \in Pools |-> IF i \in drained THEN 0 ELSE fresh[i]]
     /\ seed_evidence' = (seed_evidence \/
          (pout # -1 /\ ~overrun /\ SumFunctionOnSet(fresh, drained) >= SEED_NSAMPLES))

(***************************************************************************)
(* refresh() when the source reports nsamples < 0: _reset().  It clears    *)
(* seeded, the diagnostics it names (all those kept here), schedule and  *)
(* pool_i, but not the pools' data.                                        *)
(***************************************************************************)
RefreshReset(ns) ==
  /\ ns < 0
  /\ seeded' = FALSE
  /\ ResetDiagnostics
  /\ schedule' = 0
  /\ pool_i' = 0
  /\ result' = "not_reseeded"
  /\ exc' = FALSE
  /\ pool_fresh' = [i \in Pools |-> 0]
  /\ seed_evidence' = FALSE
  /\ UNCHANGED pool_data

\* refresh() when the source reports nsamples = 0: no state change.
RefreshIdle(ns) ==
  /\ ns = 0
  /\ result' = "not_reseeded"
  /\ exc' = FALSE
  /\ UNCHANGED <<pool_i, schedule, seeded, pool_data, DiagnosticsVars,
                 HistoryVars>>

Refresh(ns) == RefreshAdd(ns) \/ RefreshReset(ns) \/ RefreshIdle(ns)

(***************************************************************************)
(* generate(outlen): RNGError for outlen > 256, None when not seeded,     *)
(* otherwise F(ctx, outlen), which rekeys before emitting (key not kept).  *)
(***************************************************************************)
Generate(outlen) ==
  /\ result' = IF outlen > MAX_OUTLEN THEN "reqsize"
               ELSE IF ~seeded THEN "not_seeded"
               ELSE "ok"
  /\ exc' = FALSE
  /\ UNCHANGED <<pool_i, schedule, seeded, pool_data, DiagnosticsVars,
                 HistoryVars>>

\* An escaped exception ends the driving program (the test generators do
\* not catch it).
FortunaNext ==
  /\ ~exc
  /\ \/ \E ns \in NSamples : Refresh(ns)
     \/ \E n \in GenSizes : Generate(n)

FortunaSpec == FortunaInit /\ [][FortunaNext]_fvars

\* The entropy timer keeps calling refresh(), and the source keeps having
\* samples to report.
FortunaFairSpec ==
  FortunaSpec /\ WF_fvars(\E ns \in NSamples : ns > 0 /\ ~exc /\ Refresh(ns))

-----------------------------------------------------------------------------
FortunaTypeOK ==
  /\ pool_i \in Pools
  /\ schedule \in 0 .. MaxSchedule
  /\ seeded \in BOOLEAN
  /\ pool_data \in [Pools -> BOOLEAN]
  /\ pool_nsamples \in [Pools -> Nat]
  /\ pool_ndrains \in [Pools -> Nat]
  /\ schedreseed_nsamples_max \in Nat
  /\ pool_nsamples_max \in [Pools -> Nat]
  /\ addentropy_nsamples_max \in Nat
  /\ nreseeds \in Nat
  /\ result \in Results
  /\ exc \in BOOLEAN
  /\ pool_fresh \in [Pools -> Nat]
  /\ seed_evidence \in BOOLEAN

(***************************************************************************)
(* ffs as computed by the code's shift loop agrees with its definition    *)
(* (the position of the least significant set bit) on every schedule     *)
(* value _schedule reaches.                                                *)
(***************************************************************************)
FfsMatchesReference == schedule > 0 => Ffs(schedule) = FfsRef(schedule)

(***************************************************************************)
(* Seeded gating on fresh entropy (_schedreseed 170-189, _reset; spec     *)
(* section 3: "seeded becomes true only after a scheduled reseed whose     *)
(* drained pools carried >= 1024 cumulative samples"): the sum the drain   *)
(* loop compares with 1024 is made of the per-pool diagnostic counts, and *)
(* those are cleared by the drain loop and by _reset.  Whenever the        *)
(* accumulator is seeded, some reseed since the last reset drained pools   *)
(* that had absorbed at least 1024 samples since their own last drain.     *)
(***************************************************************************)
SeededOnlyByFreshEntropy == seeded => seed_evidence

(***************************************************************************)
(* Fortuna's pool schedule (_schedule, ffs, _schedreseed): pool j has      *)
(* been drained once for every multiple of 2^j reached by schedule since  *)
(* the last reset, so pool j collects entropy over 2^j reseeds.            *)
(***************************************************************************)
DrainSchedule == \A j \in Pools : pool_ndrains[j] = schedule \div 2^j

(***************************************************************************)
(* Reset-on-compromise (_reset): a pool whose diagnostics count no samples *)
(* holds no absorbed entropy, so a reset discards what the pools held.    *)
(***************************************************************************)
PoolCountsMatchContents == \A i \in Pools : pool_nsamples[i] = 0 => ~pool_data[i]

(***************************************************************************)
(* The drain loop of _schedreseed never indexes past the last pool.        *)
(***************************************************************************)
NoPoolIndexError == ~exc

(***************************************************************************)
(* A compromise only delays seeding: once the source stops reporting       *)
(* nsamples < 0 (no more _reset), and refresh() keeps being called with    *)
(* samples, the accumulator becomes seeded and stays seeded.               *)
(***************************************************************************)
EventuallySeeded ==
  <>[][\A ns \in NSamples : ~RefreshReset(ns)]_fvars => <>[]seeded
=============================================================================
