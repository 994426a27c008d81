----------------------------- MODULE SectorDisk -----------------------------
(***************************************************************************)
(* What a disk driver promises the filesystem: one request at a time; a     *)
(* read that succeeds gives what the sector holds; a write that succeeds    *)
(* has changed that sector and no other; one that fails may or may not have *)
(* changed it, and a read that fails may give anything.                     *)
(***************************************************************************)
CONSTANTS Sectors,    \* the sectors the disk has
          Addresses,  \* those one may ask for
          Values

VARIABLES store,    \* what each sector holds
          pending,  \* the request being made, [op, sector, value], or NoRequest
          got       \* the answer to the last one, [ok, value]

NoRequest == [op |-> "none"]

Ask(op, s, v) ==
  /\ pending = NoRequest
  /\ pending' = [op |-> op, sector |-> s, value |-> v]
  /\ UNCHANGED <<store, got>>

\* At some time before its answer a write reaches the sector.
Land ==
  /\ pending.op = "write" /\ pending.sector \in Sectors
  /\ store' = [store EXCEPT ![pending.sector] = pending.value]
  /\ UNCHANGED <<pending, got>>

Succeed ==
  /\ pending # NoRequest /\ pending.sector \in Sectors
  /\ pending.op = "write" => store[pending.sector] = pending.value
  /\ got' = [ok |-> TRUE, value |-> store[pending.sector]]
  /\ pending' = NoRequest
  /\ UNCHANGED store

Fail ==
  /\ pending # NoRequest
  /\ \E v \in Values : got' = [ok |-> FALSE, value |-> v]
  /\ pending' = NoRequest
  /\ UNCHANGED store

Step ==
  \/ Land \/ Succeed \/ Fail
  \/ \E op \in {"read", "write"}, s \in Addresses, v \in Values : Ask(op, s, v)

DiskSpec == pending = NoRequest /\ [][Step]_<<store, pending, got>>
=============================================================================
