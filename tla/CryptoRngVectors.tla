--------------------------- MODULE CryptoRngVectors ---------------------------
(***************************************************************************)
(* The __main__ of ccrng/tools/ccrng_crypto_compile_vectors.py: three     *)
(* series of known-answer vectors, each from a fresh HMAC_DRBG (fips) and *)
(* RNG per tv.  A vector records gen1, the output after ngens more         *)
(* generate() calls (genn), and the output after a reseed (gen_after).    *)
(*   series 1: the RNG as it is;                                           *)
(*   series 2: needreseed() patched to always return True;                 *)
(*   series 3: one vector of large requests, reseeded by                   *)
(*             getentropy_and_reseed() instead of                          *)
(*             force_reseed_with_getentropy(nonce).                        *)
(* The RNG is module CryptoRng, instantiated once per needreseed(); both  *)
(* instances share its variables.  Each series has its own Compiler,      *)
(* whose table of vectors is written to one .kat file.  The C text of a   *)
(* vector is left out: a blob is the list of bytes the call returned, and *)
(* the other fields are tcId and ngens.                                    *)
(***************************************************************************)
EXTENDS Integers, Sequences, Functions

CONSTANTS
  CACHE_SIZE, FIPS_REQUEST_SIZE_THRESHOLD, MAX_CHUNK, ReqSizes, ZERO,
  DRBG, FIPS, RESEED_INTERVAL, MaxReseeds, NONE

CONSTANTS
  TV_MAX,        \* the last tv of series 1 and 2 (range(0, 11))
  GenAmnt(_),    \* gen_amnt of tv: floor(tv * 25.5 + 1), scaled
  NGens(_),      \* n of tv: (tv + 1) * 10, scaled
  TimerGenAmnt,  \* gen_amnt of series 3 (256)
  TimerNGens,    \* n of series 3 (32)
  SeedLens,      \* init_seed_len: random.randint(32, 64)
  HASH_LEN       \* digest size of hashlib.sha256

VARIABLES cache, cache_pos, drbg_epoch, reseed_counter, served, out, status, req

VARIABLES
  series,   \* which of the three loops of __main__ runs
  tv,       \* the loop index tv
  k,        \* generate() calls of the inner loop still to make
  step,     \* the statement about to run
  gen1,     \* gen1 of the vector being built
  genn,     \* genn of the vector being built
  tcId,     \* tcId of the vector being built
  table,    \* compiler.test_vector_structs of the current series
  files     \* the tables finish_vectors has written, in order

rvars == <<cache, cache_pos, drbg_epoch, reseed_counter, served, out, status, req>>
vvars == <<rvars, series, tv, k, step, gen1, genn, tcId, table, files>>

R == INSTANCE CryptoRng WITH AlwaysReseed <- FALSE
A == INSTANCE CryptoRng WITH AlwaysReseed <- TRUE
H == INSTANCE HmacDrbg

\* Mutant: the tv loop of the first two series runs one tv too far.
LastTvPastEnd == IF series = 3 THEN 0 ELSE TV_MAX + 1

\* The tvs of a series: range(0, 11), or range(0, 1) for the third.
LastTv == IF series = 3 THEN 0 ELSE TV_MAX

Amount == IF series = 3 THEN TimerGenAmnt ELSE GenAmnt(tv)

Gens == IF series = 3 THEN TimerNGens ELSE NGens(tv)

\* rng.generate(gen_amnt), with needreseed() patched in series 2.
RngGenerate == IF series = 2 THEN A!Generate(Amount) ELSE R!Generate(Amount)

\* Where the script goes after a generate() call: an exception ends it.
After(next) == step' = IF status' = "error" THEN "raised" ELSE next

(***************************************************************************)
(* drbg = HMAC_DRBG(ihash, init_seed, init_nonce, init_ps, fips = True);  *)
(* rng = RNG(drbg, ...).  Series 3 uses a 64-byte seed.                    *)
(***************************************************************************)
NewRng ==
  /\ step = "new"
  /\ \E len \in IF series = 3 THEN {64} ELSE SeedLens :
       LET drbg == H!HmacDrbgInstantiate(len, HASH_LEN)
       IN IF drbg = NONE
          THEN step' = "raised" /\ UNCHANGED rvars
          ELSE /\ drbg_epoch' = drbg.epoch /\ reseed_counter' = drbg.rc
               /\ cache' = ZERO /\ cache_pos' = CACHE_SIZE
               /\ served' = {} /\ out' = << >> /\ status' = "ok" /\ req' = 0
               /\ step' = "gen1"
  /\ UNCHANGED <<series, tv, k, gen1, genn, tcId, table, files>>

\* gen1 = rng.generate(gen_amnt)
Gen1 ==
  /\ step = "gen1"
  /\ RngGenerate
  /\ gen1' = out'
  /\ k' = Gens
  /\ After("loop")
  /\ UNCHANGED <<series, tv, genn, tcId, table, files>>

\* for _ in range(0, n): _ = rng.generate(gen_amnt)
LoopGen ==
  /\ step = "loop" /\ k > 0
  /\ RngGenerate
  /\ k' = k - 1
  /\ After("loop")
  /\ UNCHANGED <<series, tv, gen1, genn, tcId, table, files>>

\* genn = rng.generate(gen_amnt)
GenN ==
  /\ step = "loop" /\ k = 0
  /\ RngGenerate
  /\ genn' = out'
  /\ After("reseed")
  /\ UNCHANGED <<series, tv, k, gen1, tcId, table, files>>

\* rng.force_reseed_with_getentropy(reseed_nonce), or in series 3
\* rng.getentropy_and_reseed(), whose entropy source never fails.
ReseedRng ==
  /\ step = "reseed"
  /\ R!Reseed
  /\ step' = "after"
  /\ UNCHANGED <<series, tv, k, gen1, genn, tcId, table, files>>

(***************************************************************************)
(* The Compiler: CSPRNGV() starts an empty table; process() turns the     *)
(* blobs into a struct with tcId and ngens and add_test_vector appends   *)
(* it; finish_vectors() emits the table, which __main__ writes to the    *)
(* series' file.                                                           *)
(***************************************************************************)
NewCompiler == << >>

Process(after) ==
  [series |-> series, tv |-> tv, tcId |-> tcId, ngens |-> Gens,
   gen1 |-> gen1, genn |-> genn, after |-> after]

AddTestVector(tbl, vec) == Append(tbl, vec)

FinishVectors(tbl) == tbl

\* tcId += 1 after process() in the first two series; 0 for a new compiler.
NextTcId == IF series = 3 THEN tcId ELSE tcId + 1

(***************************************************************************)
(* gen_after_reseed = rng.generate(gen_amnt); compiler.process(...) with  *)
(* tcId += 1; then the next tv, or, after the last, finish_vectors()     *)
(* written to the series' file and a new Compiler with tcId = 0.  If the  *)
(* generate() raises, nothing is processed.                                *)
(***************************************************************************)
GenAfter ==
  /\ step = "after"
  /\ RngGenerate
  /\ LET tbl == AddTestVector(table, Process(out'))
     IN IF status' = "error"
        THEN /\ step' = "raised"
             /\ UNCHANGED <<series, tv, tcId, table, files>>
        ELSE IF tv < LastTv
        THEN /\ tv' = tv + 1 /\ series' = series /\ step' = "new"
             /\ tcId' = NextTcId /\ table' = tbl /\ files' = files
        ELSE /\ tv' = 0 /\ series' = series + 1
             /\ step' = IF series = 3 THEN "done" ELSE "new"
             /\ tcId' = 0 /\ table' = NewCompiler
             /\ files' = Append(files, FinishVectors(tbl))
  /\ UNCHANGED <<k, gen1, genn>>

VInit ==
  /\ series = 1 /\ tv = 0 /\ k = 0 /\ step = "new"
  /\ gen1 = << >> /\ genn = << >> /\ tcId = 0
  /\ table = NewCompiler /\ files = << >>
  /\ R!CryptoInit

VNext == NewRng \/ Gen1 \/ LoopGen \/ GenN \/ ReseedRng \/ GenAfter

VSpec == VInit /\ [][VNext]_vvars

-----------------------------------------------------------------------------
VTypeOK ==
  /\ R!CryptoTypeOK
  /\ series \in 1 .. 4 /\ tv \in 0 .. TV_MAX /\ k \in Nat
  /\ step \in {"new", "gen1", "loop", "reseed", "after", "done", "raised"}
  /\ gen1 \in Seq(R!ServedByte) /\ genn \in Seq(R!ServedByte)
  /\ tcId \in 0 .. TV_MAX + 1
  /\ Len(table) <= TV_MAX + 1 /\ Len(files) <= 3

\* Every vector processed so far, written or not.
Vectors == UNION {Range(f) : f \in Range(files) \cup {table}}

(***************************************************************************)
(* The gen_after_reseed of every vector tests the reseed: each of its     *)
(* bytes comes from a DRBG key made after every byte of genn was served,  *)
(* whether the request went through the cache (tv = 0) or bypassed it,    *)
(* and whether needreseed() was patched or not.                            *)
(***************************************************************************)
AfterReseedIsFresh ==
  \A v \in Vectors :
    \A x \in Range(v.after), y \in Range(v.genn) :
      x.blk \in R!Blocks /\ x.blk[1] > y.at
=============================================================================
