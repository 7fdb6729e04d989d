------------------------------- MODULE BdpArp -------------------------------
(***************************************************************************)
(* The BDP address table of svsd (src/src/svsBdp.c) and the bus scan that  *)
(* fills it (svsBdpScanForce in src/src/svsApi.c).                         *)
(*                                                                         *)
(* The table gives each physical address a device number. Two threads      *)
(* write it, without a lock: the BDP-RX thread adds the address of every   *)
(* device that answers a scan (svsBdpArpTableUpdate), and the SVS socket   *)
(* thread empties the table when a client starts a scan (svsArpTableFlush).*)
(* Both read and write bdp_max, the number of entries, and the RX thread's *)
(* increment of it is a load and a store.                                  *)
(*                                                                         *)
(* An entry is read and written as a whole.                                *)
(***************************************************************************)
EXTENDS Integers, FiniteSets

CONSTANTS
    Devices,      \* the physical addresses of the devices
    BusOf,        \* the bus each device is on
    Zero,         \* the address {0,0,0,0,0,0}: an empty entry
    Broadcast,    \* addr_broadcast
    BDP_MAX,      \* entries of the table: 256
    BDP_NUM_ALL,  \* the device number of a broadcast: 0xFF
    ScanRetries,  \* rounds of a scan: 10
    MaxScans      \* bound: scans in a behaviour

Bus == {0, 1}

ASSUME ArpConstants ==
    /\ BDP_MAX \in Nat \ {0}
    /\ BDP_NUM_ALL \in Nat
    /\ ScanRetries \in Nat \ {0}
    /\ MaxScans \in Nat
    /\ BusOf \in [Devices -> Bus]
    /\ Zero \notin Devices
    /\ Broadcast \notin Devices

VARIABLES
    bdp_addr,  \* bdp_state[].bdp_addr; the last slot is behind the table
    bdp_bus,   \* bdp_state[].bdp_bus
    bdp_max,   \* bdp_dev_info.bdp_max
    bus_max,   \* bdp_bus_dev_info[].bdp_max
    rx,        \* svsBdpArpTableUpdate: program counter, addr, i, loaded bdp_max
    flush,     \* svsArpTableFlush: program counter, i
    scan,      \* svsBdpScanForce: program counter, retry, bdp_max, scans so far
    answers,   \* addresses on their way from the bus to the RX thread
    raced      \* an update and a flush were under way at the same time

vars == <<bdp_addr, bdp_bus, bdp_max, bus_max, rx, flush, scan, answers, raced>>

Slot == 0..BDP_MAX

Init ==
    /\ bdp_addr = [i \in Slot |-> Zero]
    /\ bdp_bus = [i \in Slot |-> 0]
    /\ bdp_max = 0
    /\ bus_max = [b \in Bus |-> 0]
    /\ rx = [pc |-> "idle", a |-> Zero, i |-> 0, tmp |-> 0]
    /\ flush = [pc |-> "idle", i |-> 0]
    /\ scan = [pc |-> "idle", retry |-> 0, cur |-> 0, cnt |-> 0]
    /\ answers = {}
    /\ raced = FALSE

-----------------------------------------------------------------------------
(* svsBdpArpTableUpdate in the RX thread, one action per shared access.    *)

(* An address arrives; the zero and the broadcast address are refused.     *)
svsBdpArpTableUpdate(a) ==
    /\ rx.pc = "idle"
    /\ answers' = answers \ {a}
    /\ IF a \in {Zero, Broadcast}
       THEN UNCHANGED rx
       ELSE rx' = [pc |-> "search", a |-> a, i |-> 0, tmp |-> 0]
    /\ UNCHANGED <<bdp_addr, bdp_bus, bdp_max, bus_max, flush, scan>>

(* Mutant: the comparison never succeeds.                                  *)
FoundNever == FALSE

Found == bdp_addr[rx.i] = rx.a

(* One iteration of the search; bdp_max is read again in each.             *)
ArpSearch ==
    /\ rx.pc = "search"
    /\ rx' = IF rx.i >= bdp_max THEN [rx EXCEPT !.pc = "limit"]
             ELSE IF Found THEN [rx EXCEPT !.pc = "idle"]
             ELSE [rx EXCEPT !.i = @ + 1]
    /\ UNCHANGED <<bdp_addr, bdp_bus, bdp_max, bus_max, flush, scan, answers>>

Full == bdp_max >= BDP_MAX

ArpLimit ==
    /\ rx.pc = "limit"
    /\ rx' = [rx EXCEPT !.pc = IF Full THEN "idle" ELSE "write"]
    /\ UNCHANGED <<bdp_addr, bdp_bus, bdp_max, bus_max, flush, scan, answers>>

(* Mutant: the first entry is overwritten.                                 *)
ArpWriteFirst ==
    /\ rx.pc = "write"
    /\ bdp_addr' = [bdp_addr EXCEPT ![0] = rx.a]
    /\ bdp_bus' = [bdp_bus EXCEPT ![0] = BusOf[rx.a]]
    /\ rx' = [rx EXCEPT !.pc = "bus"]
    /\ UNCHANGED <<bdp_max, bus_max, flush, scan, answers>>

(* The new entry goes where the search ended.                              *)
ArpWrite ==
    /\ rx.pc = "write"
    /\ bdp_addr' = [bdp_addr EXCEPT ![rx.i] = rx.a]
    /\ rx' = [rx EXCEPT !.pc = "bus"]
    /\ UNCHANGED <<bdp_bus, bdp_max, bus_max, flush, scan, answers>>

(* Mutant: the bus number is not recorded.                                 *)
ArpBusForgotten ==
    /\ rx.pc = "bus"
    /\ rx' = [rx EXCEPT !.pc = "load"]
    /\ UNCHANGED <<bdp_addr, bdp_bus, bdp_max, bus_max, flush, scan, answers>>

ArpBus ==
    /\ rx.pc = "bus"
    /\ bdp_bus' = [bdp_bus EXCEPT ![rx.i] = BusOf[rx.a]]
    /\ rx' = [rx EXCEPT !.pc = "load"]
    /\ UNCHANGED <<bdp_addr, bdp_max, bus_max, flush, scan, answers>>

(* bdp_max++ as a load and a store, and the count of the device's bus.     *)
ArpLoad ==
    /\ rx.pc = "load"
    /\ rx' = [rx EXCEPT !.pc = "store", !.tmp = bdp_max]
    /\ UNCHANGED <<bdp_addr, bdp_bus, bdp_max, bus_max, flush, scan, answers>>

ArpStore ==
    /\ rx.pc = "store"
    /\ bdp_max' = rx.tmp + 1
    /\ bus_max' = [bus_max EXCEPT ![BusOf[rx.a]] = @ + 1]
    /\ rx' = [rx EXCEPT !.pc = "idle"]
    /\ UNCHANGED <<bdp_addr, bdp_bus, flush, scan, answers>>

(* An answer lost on the bus or by its checks.                             *)
AnswerLost(a) ==
    /\ answers' = answers \ {a}
    /\ UNCHANGED <<bdp_addr, bdp_bus, bdp_max, bus_max, rx, flush, scan>>

Rx == \/ \E a \in answers : svsBdpArpTableUpdate(a) \/ AnswerLost(a)
      \/ ArpSearch \/ ArpLimit \/ ArpWrite \/ ArpBus \/ ArpLoad \/ ArpStore

-----------------------------------------------------------------------------
(* svsArpTableFlush in the SVS thread.                                     *)

FlushClear ==
    /\ flush.pc = "clear"
    /\ IF flush.i < bdp_max
       THEN /\ bdp_addr' = [bdp_addr EXCEPT ![flush.i] = Zero]
            /\ flush' = [flush EXCEPT !.i = @ + 1]
       ELSE /\ flush' = [flush EXCEPT !.pc = "reset"]
            /\ UNCHANGED bdp_addr
    /\ UNCHANGED <<bdp_bus, bdp_max, bus_max, rx, scan, answers>>

(* Mutant: bdp_max is not reset.                                           *)
FlushNoReset ==
    /\ flush.pc = "reset"
    /\ flush' = [pc |-> "idle", i |-> 0]
    /\ UNCHANGED <<bdp_addr, bdp_bus, bdp_max, bus_max, rx, scan, answers>>

FlushReset ==
    /\ flush.pc = "reset"
    /\ bdp_max' = 0
    /\ flush' = [pc |-> "idle", i |-> 0]
    /\ UNCHANGED <<bdp_addr, bdp_bus, bus_max, rx, scan, answers>>

Flush == FlushClear \/ FlushReset

-----------------------------------------------------------------------------
(* svsBdpScanForce in a client.                                            *)

(* svsBdpMsnFlush: its request reaches the SVS thread when that is free.   *)
ScanStart ==
    /\ scan.pc = "idle"
    /\ scan.cnt < MaxScans
    /\ flush.pc = "idle"
    /\ flush' = [pc |-> "clear", i |-> 0]
    /\ scan' = [pc |-> "flush", retry |-> 0, cur |-> 0, cnt |-> scan.cnt + 1]
    /\ UNCHANGED <<bdp_addr, bdp_bus, bdp_max, bus_max, rx, answers>>

(* The flush was acknowledged, or the wait for it timed out: its result is *)
(* ignored.                                                                *)
ScanFlushed ==
    /\ scan.pc = "flush"
    /\ scan' = [scan EXCEPT !.pc = "arp"]
    /\ UNCHANGED <<bdp_addr, bdp_bus, bdp_max, bus_max, rx, flush, answers>>

(* The broadcast: some devices answer, and the bus may echo the request.   *)
ScanArp ==
    /\ scan.pc = "arp"
    /\ \E S \in SUBSET (Devices \cup {Broadcast}) : answers' = answers \cup S
    /\ scan' = [scan EXCEPT !.pc = "poll"]
    /\ UNCHANGED <<bdp_addr, bdp_bus, bdp_max, bus_max, rx, flush>>

(* Mutant: the round ends only when a device was found.                    *)
RoundOverOnChange(n) == n # scan.cur

(* A poll may end the round only if the count did not change; if it stays  *)
(* the same for a second, one does.                                        *)
RoundOver(n) == n = scan.cur

NextRound == [scan EXCEPT !.retry = @ + 1,
                          !.pc = IF scan.retry + 1 < ScanRetries THEN "arp"
                                                                 ELSE "idle"]

ScanPoll ==
    /\ scan.pc = "poll"
    /\ scan' = [scan EXCEPT !.cur = bdp_max]
    /\ UNCHANGED <<bdp_addr, bdp_bus, bdp_max, bus_max, rx, flush, answers>>

ScanRoundOver ==
    /\ scan.pc = "poll"
    /\ RoundOver(bdp_max)
    /\ scan' = NextRound
    /\ UNCHANGED <<bdp_addr, bdp_bus, bdp_max, bus_max, rx, flush, answers>>

(* svsBdpMsnForceGet or svsBdpAvailableGet fails: the scan is abandoned.   *)
ScanFail ==
    /\ scan.pc \in {"arp", "poll"}
    /\ scan' = [scan EXCEPT !.pc = "idle"]
    /\ UNCHANGED <<bdp_addr, bdp_bus, bdp_max, bus_max, rx, flush, answers>>

Scan == ScanStart \/ ScanFlushed \/ ScanArp \/ ScanPoll \/ ScanRoundOver
        \/ ScanFail

-----------------------------------------------------------------------------
(* A step of one of the threads, with a note of the overlaps.              *)
Noted(A) == A /\ raced' = (raced \/ (rx.pc # "idle" /\ flush.pc # "idle")')

Next == Noted(Rx) \/ Noted(Flush) \/ Noted(Scan)

Spec == Init /\ [][Next]_vars

(* The scanning client runs, and a second of unchanged polls ends a round. *)
(* The devices, the bus and the threads of svsd promise nothing.           *)
FairSpec ==
    /\ Spec
    /\ WF_vars(Noted(ScanFlushed))
    /\ WF_vars(Noted(ScanArp))
    /\ WF_vars(Noted(ScanPoll))
    /\ WF_vars(Noted(ScanRoundOver))

-----------------------------------------------------------------------------
(* Properties.                                                             *)

(* svsBdpPhysicalToVirtual: the first entry of the whole table that holds  *)
(* the address.                                                            *)
svsBdpPhysicalToVirtual(a, i) ==
    /\ i \in 0..BDP_MAX-1
    /\ bdp_addr[i] = a
    /\ \A j \in 0..i-1 : bdp_addr[j] # a

(* svsBdpVirtualToPhysical, for a number below bdp_max.                    *)
svsBdpVirtualToPhysical(i) ==
    IF i = BDP_NUM_ALL THEN Broadcast ELSE bdp_addr[i]

Address == Devices \cup {Zero}

(* The state has its type; bdp_max never exceeds the table, although a     *)
(* flush may come between its load and its store.                          *)
TypeOK ==
    /\ bdp_addr \in [Slot -> Address]
    /\ bdp_bus \in [Slot -> Bus]
    /\ bdp_max \in 0..BDP_MAX
    /\ bus_max \in [Bus -> Nat]
    /\ rx \in [pc : {"idle", "search", "limit", "write", "bus", "load", "store"},
               a : Address, i : Slot, tmp : Slot]
    /\ flush \in [pc : {"idle", "clear", "reset"}, i : Slot]
    /\ scan \in [pc : {"idle", "flush", "arp", "poll"}, retry : 0..ScanRetries,
                 cur : 0..BDP_MAX, cnt : 0..MaxScans]
    /\ answers \subseteq Devices \cup {Broadcast}
    /\ raced \in BOOLEAN

(* A response is attributed to the device whose number the client used: for*)
(* every number in use that has an address (and is not the broadcast's),   *)
(* the lookups in the two directions are inverse, whatever the interleaving*)
(* of update and flush.                                                    *)
RoundTrip ==
    \A i \in 0..bdp_max-1 :
        LET a == svsBdpVirtualToPhysical(i)
        IN  a \notin {Zero, Broadcast} => svsBdpPhysicalToVirtual(a, i)

(* A request to a number in use is sent on the bus its device is on: the   *)
(* bus is recorded before the number is published, also under races.       *)
RouteKnown ==
    \A i \in 0..bdp_max-1 :
        bdp_addr[i] # Zero => bdp_bus[i] = BusOf[bdp_addr[i]]

(* Without a flush, the numbers clients hold keep naming the same devices. *)
NumbersStable ==
    [][flush.pc = "idle" /\ flush'.pc = "idle" =>
         \A i \in 0..bdp_max-1 : bdp_addr'[i] = bdp_addr[i]]_vars

(* Every scan ends, whatever the devices answer and when.                  *)
ScanEnds == scan.pc # "idle" ~> scan.pc = "idle"

(* Every number below bdp_max belongs to a device, and nothing is written  *)
(* behind the table, unless an update and a flush overlapped: the missing  *)
(* lock is the only cause of holes.                                        *)
NoHoles == ~raced /\ flush.pc = "idle" =>
              /\ \A i \in 0..bdp_max-1 : bdp_addr[i] # Zero
              /\ bdp_addr[BDP_MAX] = Zero

-----------------------------------------------------------------------------
(* What a comment in the source says and the code does not guarantee.      *)

(* "maximum number of BDPs allowed in the system": no entry is written     *)
(* behind the BDP_MAX ones of the table.                                   *)
InTable == bdp_addr[BDP_MAX] = Zero

=============================================================================
