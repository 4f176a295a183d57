------------------------------ MODULE CryptoRng ------------------------------
(***************************************************************************)
(* The caching front end of ccrng/tools/ccrng_crypto.py (class RNG) over  *)
(* one DRBG (module Drbg; an HMAC_DRBG in ccrng_crypto.py).  Requests of  *)
(* fewer than FIPS_REQUEST_SIZE_THRESHOLD bytes are served from a cache of *)
(* CACHE_SIZE bytes consumed by a cursor; larger requests bypass the      *)
(* cache and are served by the DRBG in chunks of at most MAX_CHUNK bytes. *)
(*                                                                         *)
(* Data abstraction: a byte of DRBG output is named by the block it came  *)
(* from and its offset; the cache holds the name of its block, the zero   *)
(* block ZERO it is created with, or NONE once a failed refill stored the *)
(* DRBG's None in it.  served and out are history: every byte ever        *)
(* returned, and the bytes the last generate() returned, each tagged with *)
(* the DRBG epoch at the moment it was served; req is the n of the last  *)
(* generate(n).                                                            *)
(***************************************************************************)
EXTENDS Integers, Sequences, Functions

CONSTANTS
  CACHE_SIZE,                   \* self.cache_size (256)
  FIPS_REQUEST_SIZE_THRESHOLD,  \* 12
  MAX_CHUNK,                    \* min(n, 4096) in generate()
  ReqSizes,                     \* request sizes n passed to generate()
  AlwaysReseed,                 \* needreseed() patched to return True
  ZERO                          \* the initial bytes(cache_size)

CONSTANTS DRBG, FIPS, RESEED_INTERVAL, MaxReseeds, NONE

INSTANCE Drbg

ASSUME 0 < FIPS_REQUEST_SIZE_THRESHOLD /\ FIPS_REQUEST_SIZE_THRESHOLD <= CACHE_SIZE
ASSUME CACHE_SIZE <= MAX_CHUNK
ASSUME ReqSizes \subseteq Nat
ASSUME AlwaysReseed \in BOOLEAN

VARIABLES
  cache,          \* self.cache
  cache_pos,      \* self.cache_pos
  drbg_epoch,     \* self.drbg: epoch of its key
  reseed_counter, \* self.drbg.reseed_counter
  served,         \* history: ids of all bytes returned so far
  out,            \* history: bytes returned by the last call
  status,         \* "ok" or "error": how the last call ended
  req             \* history: the n of the last generate(n)

cvars == <<cache, cache_pos, drbg_epoch, reseed_counter, served, out, status, req>>

MinOf(a, b) == IF a < b THEN a ELSE b

\* The bytes at offsets from .. from+cnt-1 of block b, served in epoch at.
BlockBytes(b, from, cnt, at) ==
  [i \in 1 .. cnt |-> [blk |-> b, off |-> from + i - 1, at |-> at]]

ByteId(x) == <<x.blk, x.off>>

\* self.drbg as a Drbg record.
CurrentDrbg == [epoch |-> drbg_epoch, rc |-> reseed_counter]

(***************************************************************************)
(* The locals of one generate() call: the bytes still to produce n, the   *)
(* bypass_cache decision, the DRBG, the cache and cursor, the bytes       *)
(* gathered in `random`, and whether an exception was raised.             *)
(***************************************************************************)
CallState(n) ==
  [n |-> n, bypass |-> n >= FIPS_REQUEST_SIZE_THRESHOLD,
   drbg |-> CurrentDrbg,
   cache |-> cache, pos |-> cache_pos, out |-> << >>, err |-> FALSE]

\* reseed(seed, nonce): reseed the DRBG and empty the cache.
ReseedLocal(s) == [s EXCEPT !.drbg = DrbgReseed(s.drbg), !.pos = CACHE_SIZE]

\* Mutant: a request the cache cannot cover takes none of its remaining bytes.
CacheTakeAllOrNothing(s) == IF s.n <= CACHE_SIZE - s.pos THEN s.n ELSE 0

\* take_n = min(n, len(self.cache[self.cache_pos:]))
CacheTake(s) == MinOf(s.n, CACHE_SIZE - s.pos)

\* Mutant: the cursor is not advanced past the bytes taken from the cache.
CacheServeNoAdvance(s) ==
  IF s.cache = NONE THEN [s EXCEPT !.err = TRUE]
  ELSE
    LET take == CacheTake(s)
        s1   == [s EXCEPT !.out = @ \o BlockBytes(s.cache, s.pos, take, s.drbg.epoch),
                          !.n = @ - take]
        g    == DrbgGenerate(s1.drbg)
    IN IF s1.n = 0 THEN s1
       ELSE IF g.blk = NONE THEN [s1 EXCEPT !.cache = NONE, !.err = TRUE]
       ELSE [s1 EXCEPT !.drbg = g.drbg, !.cache = g.blk,
                       !.out = @ \o BlockBytes(g.blk, 0, s1.n, g.drbg.epoch),
                       !.pos = s1.n, !.n = 0]

(***************************************************************************)
(* The cache branch of the loop: take what the cache still holds; if that *)
(* is not enough, refill it with drbg.generate(cache_size) and take the   *)
(* rest from its start.  Slicing a cache that holds None raises TypeError; *)
(* a refill that gets None stores it in self.cache and then raises.       *)
(***************************************************************************)
CacheServe(s) ==
  IF s.cache = NONE THEN [s EXCEPT !.err = TRUE]
  ELSE
    LET take == CacheTake(s)
        s1   == [s EXCEPT !.out = @ \o BlockBytes(s.cache, s.pos, take, s.drbg.epoch),
                          !.pos = @ + take, !.n = @ - take]
        g    == DrbgGenerate(s1.drbg)
    IN IF s1.n = 0 THEN s1
       ELSE IF g.blk = NONE THEN [s1 EXCEPT !.cache = NONE, !.err = TRUE]
       ELSE [s1 EXCEPT !.drbg = g.drbg, !.cache = g.blk,
                       !.out = @ \o BlockBytes(g.blk, 0, s1.n, g.drbg.epoch),
                       !.pos = s1.n, !.n = 0]

\* Mutant: every chunk is a whole MAX_CHUNK, whatever n still is.
DirectServeWholeChunk(s) ==
  LET g == DrbgGenerate(s.drbg)
  IN IF g.blk = NONE THEN [s EXCEPT !.err = TRUE]
     ELSE [s EXCEPT !.drbg = g.drbg, !.n = @ - MAX_CHUNK,
                    !.out = @ \o BlockBytes(g.blk, 0, MAX_CHUNK, g.drbg.epoch)]

\* The bypass branch: one drbg.generate(min(n, 4096)); None raises TypeError.
DirectServe(s) ==
  LET req_size == MinOf(s.n, MAX_CHUNK)
      g        == DrbgGenerate(s.drbg)
  IN IF g.blk = NONE THEN [s EXCEPT !.err = TRUE]
     ELSE [s EXCEPT !.drbg = g.drbg, !.n = @ - req_size,
                    !.out = @ \o BlockBytes(g.blk, 0, req_size, g.drbg.epoch)]

\* The serving half of one pass of the while loop.
Serve(s) ==
  IF ~s.bypass /\ s.n <= CACHE_SIZE THEN CacheServe(s) ELSE DirectServe(s)

(***************************************************************************)
(* The while loop of generate(n).  needreseed() is asked at the top of    *)
(* every pass; the default entropy source always returns bytes, so        *)
(* getentropy_and_reseed() succeeds on its first try.                     *)
(***************************************************************************)
RECURSIVE GenLoop(_, _)
GenLoop(s, needreseed) ==
  IF s.n <= 0 \/ s.err THEN s
  ELSE GenLoop(Serve(IF needreseed THEN ReseedLocal(s) ELSE s), needreseed)

\* Store the locals of a finished call back into the variables.  On an
\* exception nothing is returned but the state changes made so far stay.
CommitState(s) ==
  /\ s.drbg.epoch <= MaxReseeds
  /\ cache' = s.cache
  /\ cache_pos' = s.pos
  /\ drbg_epoch' = s.drbg.epoch
  /\ reseed_counter' = s.drbg.rc

\* The history of what the call returned.
CommitHistory(s) ==
  /\ out' = IF s.err THEN << >> ELSE s.out
  /\ served' = IF s.err THEN served ELSE served \cup {ByteId(x) : x \in Range(s.out)}
  /\ status' = IF s.err THEN "error" ELSE "ok"

Commit(s) == CommitState(s) /\ CommitHistory(s)

CryptoInit ==
  /\ drbg_epoch = DrbgInstantiate.epoch
  /\ reseed_counter = DrbgInstantiate.rc
  /\ cache = ZERO
  /\ cache_pos = CACHE_SIZE
  /\ served = {}
  /\ out = << >>
  /\ status = "ok"
  /\ req = 0

\* needreseed(): self.predictionbreak, which __init__ sets to False; the
\* vector script patches the method to return True.
NeedReseed == AlwaysReseed

\* generate(n)
Generate(n) == Commit(GenLoop(CallState(n), NeedReseed)) /\ req' = n

\* Mutant: reseed() leaves the cache cursor where it was.
ReseedKeepCursor ==
  /\ drbg_epoch < MaxReseeds
  /\ drbg_epoch' = DrbgReseed(CurrentDrbg).epoch
  /\ reseed_counter' = DrbgReseed(CurrentDrbg).rc
  /\ out' = << >>
  /\ status' = "ok"
  /\ UNCHANGED <<cache, cache_pos, served, req>>

\* reseed(seed, nonce), force_reseed_with_getentropy(nonce) and
\* getentropy_and_reseed() with the default entropy source: all reseed the
\* DRBG with fresh material and empty the cache.
Reseed ==
  /\ drbg_epoch < MaxReseeds
  /\ drbg_epoch' = DrbgReseed(CurrentDrbg).epoch
  /\ reseed_counter' = DrbgReseed(CurrentDrbg).rc
  /\ cache_pos' = CACHE_SIZE
  /\ out' = << >>
  /\ status' = "ok"
  /\ UNCHANGED <<cache, served, req>>

CryptoNext ==
  \/ \E n \in ReqSizes : Generate(n)
  \/ Reseed

CryptoSpec == CryptoInit /\ [][CryptoNext]_cvars

-----------------------------------------------------------------------------
CacheBlocks == Blocks \cup {ZERO, NONE}

ServedByte == [blk : CacheBlocks, off : 0 .. MAX_CHUNK - 1, at : 0 .. MaxReseeds]

CryptoTypeOK ==
  /\ cache \in CacheBlocks
  /\ cache_pos \in 0 .. CACHE_SIZE
  /\ [epoch |-> drbg_epoch, rc |-> reseed_counter] \in DrbgStates
  /\ served \subseteq CacheBlocks \X (0 .. MAX_CHUNK - 1)
  /\ out \in Seq(ServedByte)
  /\ status \in {"ok", "error"}
  /\ req \in Nat

\* The refinement mapping: a byte is named by its block and offset, and
\* was produced in the epoch of its block's key; the initial zero block
\* belongs to no epoch.
ByteEpoch(x) == IF x.blk \in Blocks THEN x.blk[1] ELSE -1

RS == INSTANCE RandomStream
        WITH epoch <- drbg_epoch,
             out <- [i \in DOMAIN out |-> [id |-> ByteId(out[i]), ep |-> ByteEpoch(out[i])]]

(***************************************************************************)
(* The front end implements RandomStream (generate loop, cache cursor,    *)
(* reseed): every generate(n) that returns, returns exactly n bytes, each *)
(* DRBG output (never the zero bytes the cache starts with), none returned *)
(* before and none from a key older than the last reseed.                 *)
(***************************************************************************)
ImplementsRandomStream == RS!RSSpec

(***************************************************************************)
(* Sequential consumption (cache_pos bookkeeping): while the cache holds a *)
(* block of the current epoch, the bytes of it returned so far are exactly *)
(* those before the cursor.                                                *)
(***************************************************************************)
CacheCursorMatchesServed ==
  (cache \in Blocks /\ cache[1] = drbg_epoch) =>
    {k \in 0 .. CACHE_SIZE - 1 : <<cache, k>> \in served} = 0 .. cache_pos - 1

(***************************************************************************)
(* No skipped bytes at a refill: when a generate() call replaces a cache   *)
(* block of the current epoch by a new one, every byte of the old block    *)
(* has been returned.                                                      *)
(***************************************************************************)
RefillOnlyWhenDrained ==
  [][(cache \in Blocks /\ cache[1] = drbg_epoch /\ cache' # cache /\ status' = "ok") =>
       \A k \in 0 .. CACHE_SIZE - 1 : <<cache, k>> \in served']_cvars

(***************************************************************************)
(* Recovery after a reseed (RangeError is fatal to one call only): a small *)
(* request made right after a reseed succeeds.                             *)
(***************************************************************************)
ReseedRecovers ==
  [][(reseed_counter = 1 /\ cache_pos = CACHE_SIZE) => status' = "ok"]_cvars
=============================================================================
