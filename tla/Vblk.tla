-------------------------------- MODULE Vblk --------------------------------
(***************************************************************************)
(* The virtio disk driver (vblk.cpp): vblk_init, and vblk_request against   *)
(* the device, with which it shares a virtqueue in memory.                  *)
(*                                                                          *)
(* A request is three descriptors, always numbers 0 to 2, so every entry of *)
(* the available ring is 0 and the ring is not told apart from its index.   *)
(* Nothing else runs on the processor during a request (handlers run with   *)
(* interrupts off, and at boot they still are), so what interleaves with    *)
(* the driver's accesses is the device.  Indices are 16 bits wide: they     *)
(* wrap, here at IndexMod.                                                  *)
(***************************************************************************)
EXTENDS Naturals

CONSTANTS
  Sectors,    \* the sectors of the disk
  Addresses,  \* those a request may name
  Values,     \* what a sector, or a caller's buffer, can hold
  QueueMax,   \* 256, what g_queue has room for
  QueueSizes, \* the sizes a device may have
  IndexMod    \* 2^16

ASSUME VblkAssumption ==
  /\ Sectors \subseteq Addresses /\ Addresses # {} /\ Values # {}
  /\ QueueMax \in Nat \ {0} /\ QueueSizes \subseteq Nat
  /\ IndexMod \in Nat \ {0, 1}

VARIABLES
  at,       \* where the processor is in vblk.cpp
  qsize,    \* g_qsize
  live,     \* the device has been given the queue's address
  hdr,      \* g_hdr: [op, sector]
  data,     \* g_data, the bounce buffer
  status,   \* g_status
  buf,      \* the caller's buffer
  avail,    \* the index of the available ring, with its shadow g_avail_idx
  used,     \* the index of the used ring
  before,   \* used, as vblk_request sampled it
  got,      \* what the last request gave: [ok, value]
  kicked,   \* a notification the device has not seen
  eager,    \* the device looks at the queue without being notified, too
  taken,    \* what of avail the device has taken
  stage,    \* the device: "idle", "serving" or "served"
  store     \* the sectors

driver == <<at, hdr, buf, avail, before, got>>
device == <<eager, taken, stage, store>>
queue  == <<qsize, live>>
vblkVars == <<driver, device, queue, data, status, used, kicked>>

-----------------------------------------------------------------------------
(* The driver.                                                              *)

\* Mutant: an index kept in a wider variable.
NextWide(i) == i + 1

Next16(i) == (i + 1) % IndexMod

\* vblk_init, whose answer kmain ignores.  It may find no device, or a queue
\* of a size it does not take: g_qsize keeps that size, g_desc and the rings
\* stay null, and the device never learns where the queue is.
VblkInit ==
  /\ at = "boot"
  /\ at' = "idle"
  /\ \/ qsize' = 0 /\ live' = FALSE
     \/ \E n \in QueueSizes : qsize' = n /\ live' = (n \in 1 .. QueueMax)
  /\ UNCHANGED <<hdr, buf, avail, before, got, device, data, status, used, kicked>>

\* The request's header, data and status, before the ring is touched.
Prepare(op, s, v) ==
  /\ at = "idle"
  /\ hdr' = [op |-> op, sector |-> s]
  /\ status' = "unset"
  /\ buf' = IF op = "write" THEN v ELSE buf
  /\ data' = IF op = "write" THEN v ELSE data
  /\ UNCHANGED <<before, got, device, queue, kicked>>

\* Mutant: the index is reduced to the ring's size, not only the slot.
PublishReduced(op, s, v) ==
  /\ qsize # 0
  /\ Prepare(op, s, v)
  /\ avail' = (avail + 1) % qsize
  /\ used' = IF live THEN used ELSE avail'
  /\ at' = "sample"

\* avail_ring[g_avail_idx % g_qsize], then the index.  With null rings the
\* two indices are one word, at address 2.
Publish(op, s, v) ==
  /\ qsize # 0
  /\ Prepare(op, s, v)
  /\ avail' = Next16(avail)
  /\ used' = IF live THEN used ELSE avail'
  /\ at' = "sample"

\* With no queue the remainder is a #DE, and isr_handler stops the machine.
DivideByZero(op, s, v) ==
  /\ qsize = 0
  /\ Prepare(op, s, v)
  /\ at' = "halted"
  /\ UNCHANGED <<avail, used>>

Sample ==
  /\ at = "sample"
  /\ before' = used
  /\ at' = "notify"
  /\ UNCHANGED <<hdr, buf, avail, got, device, queue, data, status, used, kicked>>

\* Mutant: the device is notified of the first request only.
NotifyOnce ==
  /\ at = "notify"
  /\ kicked' = (live /\ before = 0)
  /\ at' = "poll"
  /\ UNCHANGED <<hdr, buf, avail, before, got, device, queue, data, status, used>>

Notify ==
  /\ at = "notify"
  /\ kicked' = live
  /\ at' = "poll"
  /\ UNCHANGED <<hdr, buf, avail, before, got, device, queue, data, status, used>>

\* Mutant: the driver polls the index of its own ring.
AnsweredInAvail == avail # before

Answered == used # before

\* The loop ends; a read copies the bounce buffer whatever the status is.
Poll ==
  /\ at = "poll" /\ Answered
  /\ buf' = IF hdr.op = "read" THEN data ELSE buf
  /\ got' = [ok |-> status = "ok", value |-> buf']
  /\ at' = "idle"
  /\ UNCHANGED <<hdr, avail, before, device, queue, data, status, used, kicked>>

Driver == Sample \/ Notify \/ Poll

-----------------------------------------------------------------------------
(* The device.                                                              *)

Take ==
  /\ live /\ stage = "idle" /\ taken # avail
  /\ kicked \/ eager
  /\ taken' = Next16(taken)
  /\ stage' = "serving"
  /\ kicked' = FALSE
  /\ UNCHANGED <<driver, eager, store, queue, data, status, used>>

\* A request that fails may have got part of the way.
ServeRead(ok) ==
  /\ hdr.op = "read"
  /\ IF ok THEN data' = store[hdr.sector] ELSE data' \in Values
  /\ UNCHANGED store

ServeWrite(ok) ==
  /\ hdr.op = "write"
  /\ \E lands \in {ok, hdr.sector \in Sectors} :
       store' = IF lands THEN [store EXCEPT ![hdr.sector] = data] ELSE store
  /\ UNCHANGED data

Serve(ok) ==
  /\ stage = "serving"
  /\ ok => hdr.sector \in Sectors
  /\ ServeRead(ok) \/ ServeWrite(ok)
  /\ status' = IF ok THEN "ok" ELSE "error"
  /\ stage' = "served"
  /\ UNCHANGED <<driver, eager, taken, queue, used, kicked>>

Finish ==
  /\ stage = "served"
  /\ used' = Next16(used)
  /\ stage' = "idle"
  /\ UNCHANGED <<driver, eager, taken, store, queue, data, status, kicked>>

Device == Take \/ Finish \/ \E ok \in BOOLEAN : Serve(ok)

-----------------------------------------------------------------------------
DriverInit ==
  /\ at = "boot" /\ qsize = 0 /\ live = FALSE
  /\ avail = 0 /\ used = 0 /\ before = 0 /\ taken = 0
  /\ kicked = FALSE /\ stage = "idle" /\ status = "ok"
  /\ hdr = [op |-> "read", sector |-> CHOOSE s \in Addresses : TRUE]
  /\ data = CHOOSE v \in Values : TRUE
  /\ buf = data
  /\ got = [ok |-> FALSE, value |-> buf]
  /\ eager \in BOOLEAN
  /\ store \in [Sectors -> Values]

Request ==
  \E op \in {"read", "write"}, s \in Addresses, v \in Values :
    Publish(op, s, v) \/ DivideByZero(op, s, v)

DriverNext == VblkInit \/ Request \/ Driver \/ Device

DriverSpec == DriverInit /\ [][DriverNext]_vblkVars

\* The processor runs on, and the device answers what it has taken note of.
FairDriverSpec == DriverSpec /\ WF_vblkVars(Driver) /\ WF_vblkVars(Device)

-----------------------------------------------------------------------------
(* Properties.                                                              *)

\* The driver's and the device's variables keep their types.
DriverTypeOK ==
  /\ at \in {"boot", "idle", "sample", "notify", "poll", "halted"}
  /\ qsize \in QueueSizes \cup {0}
  /\ {live, kicked, eager} \subseteq BOOLEAN
  /\ hdr \in [op : {"read", "write"}, sector : Addresses]
  /\ {data, buf} \subseteq Values
  /\ got \in [ok : BOOLEAN, value : Values]
  /\ {avail, used, before, taken} \subseteq 0 .. IndexMod - 1
  /\ status \in {"unset", "ok", "error"} /\ stage \in {"idle", "serving", "served"}
  /\ store \in [Sectors -> Values]

\* The device has nothing to do.
AtRest == stage = "idle" /\ ~(live /\ taken # avail /\ (kicked \/ eager))

\* The processor has stopped, or polls for what nobody will do.
Stuck == at = "halted" \/ (at = "poll" /\ ~Answered /\ AtRest)

\* The machine stops in a disk request only if there is no queue the device
\* knows of, or if the device answered before the driver had sampled the used
\* index: then the answer is counted in before already.
StopsOnlyIf ==
  Stuck => \/ ~live
           \/ (eager /\ used = avail /\ before = avail)

\* With a device that waits for its notification every request returns,
\* however often the indices have wrapped.
RequestReturns == (live /\ ~eager /\ at = "sample") ~> (at = "idle")

Making == at \in {"sample", "notify", "poll"}

\* The request being made, as SectorDisk sees it.
request ==
  IF Making THEN [op |-> hdr.op, sector |-> hdr.sector, value |-> buf] ELSE [op |-> "none"]

SD == INSTANCE SectorDisk WITH pending <- request

\* Reads and writes are those of a disk: whichever device, however eager, a
\* request that returns has been answered, and the answer is its own.
ImplementsSectorDisk == SD!DiskSpec
=============================================================================
