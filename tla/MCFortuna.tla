----------------------------- MODULE MCFortuna -----------------------------
(***************************************************************************)
(* Model-checking instance of Fortuna.  NPOOLS is scaled from 32 to 3:     *)
(* the schedule logic depends on NPOOLS only through 2^NPOOLS, and 3 pools *)
(* already give pools drained every 1, 2 and 4 reseeds.                    *)
(***************************************************************************)
EXTENDS Fortuna

\* Sample counts of the test generators (ccrng_fortuna_testgen.py: -1, 512,
\* 1024) and the "try later" answer 0.
MCNSamples == {-1, 0, 512, 1024}
MCPositiveNSamples == {512, 1024}

\* With a quarter of a seed as well, a seed needs samples of several
\* refreshes and several pools, so a count that survives a drain or a
\* reset can make the difference.
MCSeedingNSamples == {-1, 0, 256, 1024}

\* A request that fits and one past the 256-byte limit.
MCGenSizes == {32, 257}

\* All schedule values whose ffs names an existing pool.
MCMaxSchedule == 2^NPOOLS - 1
MCOverrunSchedule == 2^NPOOLS
=============================================================================
