# TLA+ models of the corecrypto RNG reference tools

These modules model the Python reference implementation of the corecrypto random
number generators in `src/AppleSources/corecrypto/ccrng/tools/`, and the
generator of operand-caching multiplication assembly in
`src/AppleSources/corecrypto/scripts/gen_full_op_caching_asm.py`. They are checked
with TLC. `PROJECT.json` lists the components, runs, mutants, source map,
findings and hazards. This file explains them.

## The system

| Part | Source | State | Operations |
|---|---|---|---|
| Entropy accumulator (Fortuna) | `ccrng_fortuna.py` | 32 pools (hash, sample counter, drain counter), `pool_i`, `schedule`, `seeded`, key and counter of F | `refresh()` (schedule, add entropy, scheduled reseed, or `_reset` on a negative count), `generate(outlen)` |
| CTR_DRBG | `ctr_drbg.py` | K, V, `reseed_counter` | `__init__`, `reseed`, `generate` (None past 2^48 generates) |
| HMAC_DRBG | `hmac_drbg.py` | K, V, `reseed_counter`, `fips` | same as CTR_DRBG; the interval check applies only when `fips` is set |
| CryptoRng | `ccrng_crypto.py` | one DRBG, a 256-byte cache and its cursor | `generate(n)` (a loop that asks `needreseed()` on every pass, serves n < 12 from the cache and larger n in chunks of at most 4096), `reseed`, `force_reseed_with_getentropy`, `getentropy_and_reseed` (100 tries) |
| Kernel PRNG | `cckprng.py` | one CryptoRng over CTR_DRBG, one Fortuna, `needreseed`, `first_seed_done`, the bootstrap digest and its sample count | `refresh`, `generate`, `reseed` |
| Test-vector drivers | `ccrng_fortuna_testgen.py`, `cckprng_testgen.py`, `ccrng_crypto_compile_vectors.py` | the object under test | random or fixed sequences of the operations above, then C emission |

**How the kernel PRNG works.** The kernel PRNG wires the parts together with three
callbacks:

- **Entropy for the accumulator.** The accumulator draws entropy through
  `_fortuna_getentropy`. Until 512 samples have been hashed into the bootstrap
  digest, this callback reports zero samples to the accumulator. When the digest
  reaches 512 samples, the callback ends bootstrap and sets `needreseed`. A
  negative count from the source restarts bootstrap.
- **When to reseed.** CryptoRng calls `needreseed()` to decide whether to
  reseed. The kernel version returns `needreseed` and clears it.
- **Entropy for the DRBG.** CryptoRng calls `getentropy()` for reseed material.
  The kernel version returns the digest once. After that it returns
  `fortuna.generate(64)`, which is None while the accumulator is unseeded.

`refresh` sets `needreseed` whenever the accumulator ran a scheduled reseed. The
reseed itself is lazy: it happens on the next `generate`.

All of this runs on a single thread with no concurrency. The hard behaviours are
long call sequences:

- compromise signals arriving mid-bootstrap;
- DRBG exhaustion;
- counters at their limits;
- a flag that is cleared before the step it guards has succeeded.

## Modules

- **`Fortuna.tla`** models `ccrng_fortuna.py`.
  - Variables:
    - `pool_i`, `schedule` and `seeded`;
    - `pool_data`: whether a pool's hash has absorbed entropy;
    - the diagnostics the code reads back: `pool_nsamples`, `pool_ndrains`,
      `schedreseed_nsamples_max`, `pool_nsamples_max`,
      `addentropy_nsamples_max` and `nreseeds`. `NewDiagnostics` is
      `Diagnostics.__init__`; `ResetDiagnostics` is the `self.diag =
      Diagnostics()` of `_reset`. `fortuna_testgen.py` records `nreseeds` in
      every vector;
    - `result`: what the last call returned;
    - `exc`: an exception escaped;
    - two history variables, which no code holds: `pool_fresh[i]`, the
      samples added to pool i since its last drain or reset, and
      `seed_evidence`, set when a reseed since the last reset drained at
      least 1024 of them.
  - `Refresh(ns)` is `RefreshAdd`, `RefreshReset` or `RefreshIdle`, one for each
    branch of `refresh()`.
    - `RefreshAdd` is `_schedule`, `_addentropy` and `_schedreseed` in one step.
    - Its helpers are `NextPool` and `Drained`.
    - `_schedreseed` raises IndexError part-way through draining the pools.
      `RefreshAdd` models this as `exc`.
  - `Generate(outlen)` is `generate`.
  - `Ffs` is the code's shift loop, written as a RECURSIVE operator. It is
    checked against `FfsRef`, the position of the lowest set bit.
  - F's key and counter are not kept, because no property reads them.
  - `FortunaNext` is the random loop of `ccrng_fortuna_testgen.py`.
- **`Drbg.tla`** models `ctr_drbg.py` as pure operators on a record
  `[epoch, rc]`. `HmacDrbg.tla` models `hmac_drbg.py` the same way.
  - K and V are pseudorandom functions of the seed, so they are kept only as the
    number of reseeds (`epoch`).
  - A generated block is named `<<epoch, rc>>`. Two outputs coincide only if
    their names do.
  - `CtrDrbgGenerate` returns `NONE` past `RESEED_INTERVAL`.
    `HmacDrbgGenerate` does so only when `FIPS` is set.
  - `HmacDrbgInstantiate` returns `NONE` when `__init__` raises for short
    entropy.
  - `DrbgReseed` and `DrbgGenerate` are the calls `RNG` makes on `self.drbg`.
    They dispatch on the constant `DRBG`: `RNG` over `HMAC_DRBG` for
    `ccrng_crypto.py`, and over `CTR_DRBG` for `cckprng.py`.
- **`CryptoRng.tla`** models `ccrng_crypto.py`.
  - One `generate(n)` call is one step:
    - `CallState` holds the call's locals;
    - `GenLoop` (RECURSIVE) runs the whole while loop, with `Serve`,
      `CacheServe` / `DirectServe` and `ReseedLocal`;
    - `Commit` writes the locals back. On an exception, the state changes made
      before it stay, as in Python.
  - A byte is named by its block and offset.
  - The history variables are:
    - `served`: every byte ever returned;
    - `out`: the bytes of the last call, each with the epoch it was served in.
  - `Reseed` covers `reseed` and `force_reseed_with_getentropy`.
  - `AlwaysReseed` selects the always-true `needreseed` of the vector compiler.
  - `req` is a history variable: the n of the last `generate(n)`.
- **`RandomStream.tla`** is the abstract specification of what a random-byte
  generator with a reseed promises its callers. Its state is a key `epoch`,
  the set `served` of byte ids returned so far, the bytes `out` of the last
  call (each an id and the epoch it was produced in), `status` and `req`.
  `RSGenerate(n)` either returns n fresh, pairwise distinct bytes whose
  epochs lie between the call's start and end epochs and never decrease, or
  fails and returns nothing. `RSReseed` starts a new epoch.
  `CryptoRng` implements it: `RS == INSTANCE RandomStream WITH epoch <-
  drbg_epoch, out <- ...` maps each byte `<<block, offset>>` to its id and to
  the epoch of its block's key (the initial zero cache belongs to no epoch,
  `-1`). `ImplementsRandomStream == RS!RSSpec` is checked as a property.
- **`Kprng.tla`** models `cckprng.py`. It composes the other modules:
  - `F == INSTANCE Fortuna`;
  - `C == INSTANCE CryptoRng`, with the byte history replaced by constants,
    because CryptoRng's own runs check the byte history.

  Its actions:
  - `Refresh(ns)` is `_fortuna_getentropy` around `F!Refresh` plus `refresh`.
    Its helpers are `BootstrapNSamples`, `DigestNSamples` and `RequestReseed`.
  - `Generate(n)` is one of three cases:
    - `GenerateNoReseed`: no reseed requested, or n = 0;
    - `GenerateFromDigest`: the digest branch of `csprng_getentropy_func`,
      taken when `UseDigest` (512 samples digested) holds;
    - `GenerateFromFortuna`: the accumulator branch. It either reseeds and
      serves, or it fails all 100 tries and raises.
  - `Reseed` is `reseed(seed)`.

  The history variables are:
  - `reseed_pending`: a reseed was requested and has not been performed;
  - `fresh_nsamples`: samples reported since the last compromise, saturating
    at 512;
  - `last_reseed`: what the reseed of this step used;
  - `digest_due`: bootstrap has ended and no entropy reseed has happened since;
  - `digest_stale`: the digest holds input from before a compromise.

  `KNext` is the loop of `cckprng_testgen.py`. `KEntropyNext` is the kernel's
  own path, with no `reseed(seed)` calls from callers.
- **`CryptoRngVectors.tla`** models the `__main__` of
  `ccrng_crypto_compile_vectors.py`. It composes two instances of
  `CryptoRng`, both over the same variables:
  - `R`, the RNG as it is;
  - `A`, with `needreseed()` patched to return True.

  Each tv builds a fresh HMAC_DRBG and RNG (`NewRng`). Then `Gen1` runs, then
  `LoopGen` for the n generate calls, then `GenN`. `ReseedRng` is
  `force_reseed_with_getentropy`, or `getentropy_and_reseed` in series 3.
  `GenAfter` appends the vector. An exception in any call ends the script in
  `step = "raised"`. The `Compiler` is kept as the table of vectors it holds:
  `NewCompiler` starts a file, `Process` is `CSPRNGV.process` (the generate
  calls, then `add_test_vector`), `NextTcId` is the `tcId += 1` of
  `__main__`, and `FinishVectors` closes a file into `files`. The C text it
  formats is left out.
- **`FullOpCachingAsm.tla`** models `gen_full_op_caching_asm.py`, which prints
  ARM code for the 2n-limb product of two n-limb numbers. The state is the
  script's: `RowGeneratorState` (`a`, `b`, `max_a`, `max_b`, `prev_width`,
  `cols_with_values`), the operand register cache `OperandRegisters`
  (`assigned`, `available`), the rotation of `IntermediateRegisters`
  (`im_regs`), and the loop indices `i` and `col`. Each printed instruction is
  also executed, as it is printed, on a small machine: `regs` and `stack` hold
  words in base `W`, and a word never written holds `UNDEF`. The actions follow
  one iteration of `print_row`: `LoopTop` (the assertion), `ClearRegisters`
  (`mov #0`), `Load` (`ldr` from the stack and `OperandRegisters.get`, which
  can raise IndexError), `Multiply` (`umull` or `umaal`, and `get_assigned`'s
  assertion), `Store` (`str`, rotate), then `EndOfRow` or one of the five moves
  `Warmup`, `Cooldown`, `CooldownInitial`, `Upwards`, `Downwards`. Each move is
  guarded by the negations of the ones before it, as in the `elif` chain.
  `ParseArgs` and `NumLimbs` are the `-b` argument and `N = B // 32` (no `-b`
  prints nothing and exits).
  `StartRow` is `state.init(i)` with `release_non_overlapping_op_regs`.
  `NewRowGeneratorState` and `NewIntermediateRegisters` are the constructors
  `__main__` calls, `key` is `OperandRegisters.key`, and `RegistersSufficient`
  is `__main__`'s two register-count asserts, an `ASSUME` of the module.
  `ProductLimb` is the reference: schoolbook multiplication with carries,
  through the recursive `CarryInto`.
- **`MC*.tla`** modules give the constants their model values.

### Scaling

- **Fortuna.** 32 pools become 2 or 3. `MaxSchedule = 2^NPOOLS - 1` is the last
  schedule value the pools can serve. The overrun run uses `2^NPOOLS` to reach
  the wrap.
- **Sample counts.** They are kept at the code's values (256, 512, 1024) so that
  the 512 and 1024 thresholds are unchanged.
- **Kernel PRNG liveness.** Requests are of 1 byte only: the reseed is done by
  the first pass of `generate`'s loop whatever n is, and larger sizes only
  multiply the states the liveness check must walk.
- **CryptoRng.** The cache of 256 bytes becomes 4. The threshold 12 becomes 3.
  The chunk of 4096 becomes 5. The request sizes are 0, 1, 2, 3 and 6. Together
  these reach every branch:
  - a cache hit;
  - a request that spans a refill;
  - a bypass;
  - a bypass of two chunks.
- **DRBG.** `RESEED_INTERVAL = 2^48` becomes 3. Exhaustion then takes only a few
  generates.
- **Reseeds.** `MaxReseeds` bounds the number of epochs.
- **Vector script.** It uses the CryptoRng sizes. `gen_amnt` keeps its class:
  - tv 0 asks for 1 byte, which goes through the cache;
  - tv 1..9 ask for more than the threshold and less than the cache;
  - tv 10 and series 3 ask for exactly the cache size.

  The loop count n = (tv+1)*10 becomes tv+1. `RESEED_INTERVAL` and
  `MaxReseeds` are set just above what one DRBG needs, so that, as with 2^48
  in the code, neither is reached.
- **Multiplication generator.** E = 3, six operand registers and four
  intermediate registers, as in `__main__`. Words are base 16, not 2^32. The
  control flow of the generator does not depend on word values, so the base
  only affects the carries. For n <= 2, every operand pair with limbs in
  {0, 1, 15} is run. For larger n, four operand pairs are run:
  - all ones;
  - all 15s, for the longest carry chains;
  - two patterns whose limbs differ, so that a product from the wrong limb
    changes the result.

  The sizes n = 1..9 cover every shape of row: a full first row, a partial
  first row of one limb and of two limbs, and one to three rows. n = 12 is
  P-384's size.

## Runs

| Run | Expect | Shows |
|---|---|---|
| `fortuna_safety` (`Fortuna.cfg`) | pass, ~12k states | Sources report -1, 0, 256 or 1024 samples (256 makes a seed need samples from several refreshes and pools). `FfsMatchesReference`: ffs is correct. `DrainSchedule`: pool j is drained once per 2^j scheduled reseeds. `SeededOnlyByFreshEntropy`: the accumulator is seeded only after a reseed, since the last reset, that drained pools that had absorbed at least 1024 samples since their own last drain (spec §3). The code decides on a sum of diagnostic counts, so this checks that the drain loop and `_reset` clear those counts. `EventuallySeeded`: once compromise signals stop, the accumulator is eventually seeded for good. |
| `fortuna_reset_pools` | violation | `PoolCountsMatchContents`: after entropy is added and a compromise arrives, a pool counts 0 samples but still holds hashed entropy. |
| `fortuna_overrun` | violation | `NoPoolIndexError`: at `schedule = 2^NPOOLS` the drain loop indexes past the last pool. |
| `crypto_rng_safety` (`CryptoRng.cfg`) | pass, ~889k states | `ImplementsRandomStream`: `CryptoRng` refines `RandomStream`, so every `generate(n)` returns exactly n bytes never returned before, none from the initial zero cache and none from a key older than the call's start, in non-decreasing epoch order, or raises and returns nothing. `CacheCursorMatchesServed`: the cursor equals the served prefix of the cached block. `RefillOnlyWhenDrained`: no cached byte is skipped at a refill. The DRBG is an HMAC_DRBG with fips set, as in `ccrng_crypto.py`, and its exhaustion is included. |
| `crypto_rng_vectors` (`CryptoRngVectors.cfg`) | pass, 251 states | `AfterReseedIsFresh`: every `gen_after_reseed` comes from a key made after `genn` was served, through the cache or past it, with `needreseed` patched or not. |
| `crypto_rng_exhaustion` | violation | `ReseedRecovers`: after an exhausted refill stores None in the cache, a small request still fails after a reseed. |
| `kprng_safety` (`Kprng.cfg`) | pass, ~205k states | `BootstrapGate`: the accumulator takes no samples before bootstrap ends. `CompromiseRequiresFreshEntropy`: every reseed from the digest or from the accumulator follows 512 samples reported since the last compromise. `FirstReseedFromDigest`: the first entropy reseed after bootstrap is served by the bootstrap digest, even when the accumulator was seeded in the meantime (history variable `digest_due`). |
| `kprng_stale_output` | violation | `NoOutputWhileReseedPending`. The trace: bootstrap with 1024 samples; a compromise; a `generate` that raises; then a `generate` that returns bytes from the DRBG that was never reseeded. |
| `kprng_digest_compromise` | violation | `DigestFreshAfterCompromise`: the digest reseed after a compromise hashes pre-compromise input. |
| `kprng_liveness` (`KprngLiveness.cfg`) | pass, ~750 states | With the healthy source of `cckprng_testgen.py` (always 1024 samples) and consumers asking for 1 byte at a time: `ReseedEventuallyPerformed`: every requested reseed happens. |
| `asm_mul_correct` (`FullOpCachingAsm.cfg`) | pass, ~6k states | For no `-b` and n = 0..9 and 12: `ProductCorrect`: the printed code leaves A*B at sp. `NoGeneratorError`: no assertion fails and six operand registers are enough. `OperandRegistersCoherent`: each operand register is free or caches exactly one limb, and it holds that limb whenever a multiplication reads it. |
| `asm_mul_ten_limbs` | violation | `ProductCorrect` for n = 10: the printed product is wrong. |

Each property of a passing run has a mutant in `PROJECT.json`. A mutant is a
plausible bug in the mapped code, and the run's configuration catches it. The
mutants are:

- the pool index not wrapped, or never advanced;
- ffs counted from zero;
- `_reset` not clearing the per-pool sample counts;
- the drain loop including one more pool;
- no reseed-interval check;
- reseed not resetting the cursor;
- the cursor not advanced;
- every bypass chunk a whole `MAX_CHUNK`, whatever n still is;
- a refill that skips the remaining cached bytes;
- a negative count added to the digest count, or not clearing it;
- the sample count leaking during bootstrap;
- `needreseed` overwritten instead of set;
- the accumulator preferred over the digest once it is seeded;
- HMAC_DRBG's fips check dropped;
- the tv loop running one tv too far;
- `OperandRegisters.release` returning a register for a limb that has none;
- one intermediate register too few cleared;
- `release_non_overlapping_op_regs` releasing one limb too few;
- `available.pop(0)` reading the head without popping it;

## Findings

1. **Compromise keeps pool contents.** `_reset` (`ccrng_fortuna.py:191`) leaves
   the pool hashes. The spec says compromise discards the accumulator pools.
2. **Schedule overrun.** `schedule` is never wrapped. After 2^32 scheduled
   reseeds, `_schedreseed` raises IndexError after it has emptied every pool.
3. **Poisoned cache.** A refill that meets an exhausted DRBG stores None in
   `self.cache` (`ccrng_crypto.py:54`). Small requests then fail even after a
   reseed.
4. **Stale output after a failed reseed.** `needreseed` is cleared before the
   reseed is tried (`cckprng.py:71`). After a failed reseed, the next `generate`
   silently serves output from the old key.
5. **Digest survives compromise.** The bootstrap digest is never cleared
   (`cckprng.py:42`). The spec says the compromise reset clears it.
6. **Wrong multiplication for n = 10.** With 10 limbs, rows start at A9, A0,
   A3 and A6. The row that starts at A3 gets `max_a = min(n-1, a+2e-1) = 8`
   (`gen_full_op_caching_asm.py:92`), so it runs on past A5 into the next
   row's limbs. As a result, A6..A8 * B4..B9 are added twice, and
   A4..A5 * B7..B9 are never added. Executing the script's real output with
   32-bit words gives the same result. It also gives a wrong product for every
   n > 9 that is not a multiple of 3 (10, 11, 13, 14, 16, 17, 19). The sizes
   up to 9, and 12, are correct.

## Fairness

- Fortuna liveness assumes weak fairness of `refresh` with a positive sample
  count. The kernel's entropy timer calls `refresh` periodically, and a
  working source eventually has samples. Compromise signals are not
  constrained by fairness. Instead, `EventuallySeeded` holds only for
  behaviours in which they eventually stop.
- Kprng liveness assumes weak fairness of `refresh` and of `generate` with
  n > 0, meaning consumers keep asking for bytes.
- The Kprng liveness run also uses `KEntropyNext`, which has no caller
  `reseed(seed)`. The reason is the model's bound on reseeds: callers' reseeds
  could use up `MaxReseeds`. With that action removed, `MaxReseeds = 4` covers
  the digest reseed plus one reseed per scheduled reseed.
- Safety runs assume no fairness.

## Not modelled

- **Byte-level cryptography.** AES, SHA and HMAC, `_df` and `_update` are
  abstracted by key epochs.
- **Output formatting.** `codegen.py` and the C emission of the drivers are not
  modelled. Of the scripts outside `ccrng/tools`, only the multiplication
  generator is modelled. The rest are pure I/O. In the multiplication
  generator, the printed text is left out.
- **Hex conversion of vector blobs.** `convert_hex_uint8t_list`
  (`ccrng_crypto_compile_vectors.py:37`) treats a blob as hex text when
  `unhexlify` accepts it. A random blob of even length made only of the bytes
  `0-9a-fA-F` (a 2-byte `init_ps` at tv = 2, about 0.7% of runs) is written as
  different bytes. The model keeps where a blob came from, not its bytes, so no
  state tells such a blob apart; it is listed as a hazard with no property.

- **The 64-bit counters.** F's counter (`ccrng_fortuna.py:50`) and the low half
  of CTR_DRBG's `V` (`ctr_drbg.py:86`) are packed with `struct.pack('>Q', ...)`,
  which raises past 2^64 - 1 where the C code wraps. Past that point F rotates
  its key and then raises on every call, and CTR_DRBG raises even in `reseed`,
  because `_update` increments `V` first. Reaching either needs 2^64 calls or
  a chosen seed, and the models keep keys and `V` only as epochs and block
  indices, so these are hazards without a property.

- **A source reporting fewer than 1024 samples per call, under the kernel
  PRNG's liveness.** `kprng_liveness` uses the 1024-sample source of
  `cckprng_testgen.py`, with which every scheduled reseed seeds the
  accumulator. With 512 samples per call, the first scheduled reseed drains
  512, `refresh` still sets `needreseed` (`cckprng.py:93`), and the next
  `generate` gets None from `fortuna.generate` (`cckprng.py:81`) 100 times
  and raises. That is the fatal exhaustion path the spec prescribes, so no
  property is stated against it; the reseed liveness does not hold for such
  a source.
- **The sequence of test vectors of `ccrng_fortuna_testgen.py`.** Each
  `gentest` starts a fresh RNG, and the `errkinds` list is shared by all of
  them: only the first request-size error of the whole file ends its vector
  with an abort op, later ones are rolled back to a deep copy and retried.
  `generate` raises before it changes any state, so the rollback restores an
  identical RNG, which is what `FortunaNext`'s unchanged `Generate` step
  does; the end of a vector is a restart from `FortunaInit`. Neither adds a
  state that a property of the accumulator tells apart.
- **Build and conversion scripts.** The spec places them outside the RNG
  subsystem (§1, external collaborators). `updateprojects.py` rewrites Visual
  Studio project files from the CMake source list and
  `convert_h2c_testvectors.py` turns JSON into C text: both are text
  processing with no retained state. `install-modulemap.py` partitions the
  installed headers into a base module and the submodules whose headers are
  all installed, in one pass over a fixed table, then runs `install`; it is a
  pure function of the header set, with no interleaving or persistent state
  for a model checker to add to an exhaustive unit test.
