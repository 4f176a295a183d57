---------------------------- MODULE RandomStream ----------------------------
(***************************************************************************)
(* What a random-byte generator with a reseed operation promises its      *)
(* callers, whatever its cache and DRBG: generate(n) either returns        *)
(* exactly n bytes, none of which any earlier call returned and none of    *)
(* which was produced under a key older than the last reseed(), or it      *)
(* raises and returns nothing.  reseed() returns nothing and starts a new  *)
(* key epoch.  generate() may itself reseed, so a call can end in a later  *)
(* epoch than it started in; the bytes of one call never go back to an     *)
(* older epoch.                                                            *)
(*                                                                         *)
(* A byte is a record [id, ep]: an identity, and the key epoch it was      *)
(* produced in.  served holds the ids returned so far, out the bytes of    *)
(* the last call, req the n of the last generate(n).                       *)
(***************************************************************************)
EXTENDS Integers, Sequences, Functions

CONSTANT ReqSizes   \* the n that callers pass to generate(n)

VARIABLES epoch, served, out, status, req

avars == <<epoch, served, out, status, req>>

RSInit ==
  /\ epoch = 0
  /\ served = {}
  /\ out = << >>
  /\ status = "ok"
  /\ req = 0

\* The ids of the bytes of one call.
Ids(seq) == {seq[i].id : i \in DOMAIN seq}

\* generate(n) returns: n fresh bytes, pairwise distinct, produced in
\* epochs from the one the call started in to the one it ended in, in
\* that order.
Returns(n) ==
  /\ status' = "ok"
  /\ Len(out') = n
  /\ IsInjective([i \in DOMAIN out' |-> out'[i].id])
  /\ Ids(out') \cap served = {}
  /\ \A i \in DOMAIN out' : out'[i].ep \in epoch .. epoch'
  /\ \A i, j \in DOMAIN out' : i < j => out'[i].ep <= out'[j].ep
  /\ served' = served \cup Ids(out')

\* generate(n) raises: nothing is returned.
Fails ==
  /\ status' = "error"
  /\ out' = << >>
  /\ served' = served

RSGenerate(n) ==
  /\ req' = n
  /\ epoch' >= epoch
  /\ Returns(n) \/ Fails

RSReseed ==
  /\ epoch' = epoch + 1
  /\ out' = << >>
  /\ status' = "ok"
  /\ UNCHANGED <<served, req>>

RSNext == (\E n \in ReqSizes : RSGenerate(n)) \/ RSReseed

RSSpec == RSInit /\ [][RSNext]_avars
=============================================================================
