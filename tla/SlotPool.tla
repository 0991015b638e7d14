-------------------------------- MODULE SlotPool --------------------------------
(***************************************************************************)
(* What run admission promises: a pool of upstream request slots.  A run   *)
(* takes all the slots it asks for in one step, or none, and only while    *)
(* both its owner's share and the whole pool have room for them; it gives  *)
(* all of them back in one step.  RunAdmission is the program's way of     *)
(* doing it.                                                               *)
(***************************************************************************)
EXTENDS Integers, FiniteSets

CONSTANTS User,        \* the owners of runs
          RunId,       \* the runs that may hold slots
          UserMax,     \* RUN_MAX_USER_SLOTS
          GlobalMax,   \* RUN_MAX_GLOBAL_SLOTS
          Free         \* what pool holds for a run that holds no slots

VARIABLE pool          \* the slots each run holds, with their owner

Lease == [owner: User, slots: 1..GlobalMax]

PoolTypeOK == pool \in [RunId -> Lease \cup {Free}]

Holders == {r \in RunId : pool[r] # Free}

HoldersOf(u) == {r \in Holders : pool[r].owner = u}

\* The slots of the runs in R, one pair for each, so that their number is a
\* cardinality and not a sum.
Taken(R) == {s \in R \X (1..GlobalMax) : s[2] <= pool[s[1]].slots}

Acquire(r, lease) ==
  /\ pool[r] = Free
  /\ lease.slots + Cardinality(Taken(HoldersOf(lease.owner))) <= UserMax
  /\ lease.slots + Cardinality(Taken(Holders)) <= GlobalMax
  /\ pool' = [pool EXCEPT ![r] = lease]

Release(r) ==
  /\ pool[r] # Free
  /\ pool' = [pool EXCEPT ![r] = Free]

PoolInit == pool = [r \in RunId |-> Free]

PoolNext == \E r \in RunId : Release(r) \/ \E lease \in Lease : Acquire(r, lease)

PoolSpec == PoolInit /\ [][PoolNext]_pool
=================================================================================
