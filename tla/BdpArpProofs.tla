---------------------------- MODULE BdpArpProofs ----------------------------
(***************************************************************************)
(* Theorems about BdpArp and, beside it, KrServer, for every value of their*)
(* constants: any number of devices, scans and entries of the tables, of   *)
(* clients and of requests.                                                *)
(***************************************************************************)
EXTENDS DeviceTables, SequenceLemmas, TLAPS

-----------------------------------------------------------------------------
(* Type correctness.                                                       *)

(* There was room for an entry when the RX thread looked, and a flush only *)
(* makes more; the device it works on is one; a scan in a round has one.   *)
Room ==
    /\ rx.pc \in {"write", "bus", "load"} => bdp_max < BDP_MAX
    /\ rx.pc = "store" => rx.tmp < BDP_MAX
    /\ rx.pc # "idle" => rx.a \in Devices
    /\ scan.pc # "idle" => scan.retry < ScanRetries

TypeInv == TypeOK /\ Room

RxType ==
    [pc : {"idle", "search", "limit", "write", "bus", "load", "store"},
     a : Address, i : Slot, tmp : Slot]

ScanType ==
    [pc : {"idle", "flush", "arp", "poll"}, retry : 0..ScanRetries,
     cur : 0..BDP_MAX, cnt : 0..MaxScans]

LEMMA TypeInit == Init => TypeInv
<1> SUFFICES ASSUME Init PROVE TypeInv
  OBVIOUS
<1>c. /\ BDP_MAX \in Nat \ {0} /\ ScanRetries \in Nat \ {0} /\ MaxScans \in Nat
      /\ 0 \in Slot /\ 0 \in Bus /\ Zero \in Address
  BY ArpConstants DEF Slot, Bus, Address
<1>1. bdp_addr \in [Slot -> Address] /\ bdp_bus \in [Slot -> Bus] /\ bus_max \in [Bus -> Nat]
  BY <1>c DEF Init
<1>2. rx \in RxType /\ flush \in [pc : {"idle", "clear", "reset"}, i : Slot]
  BY <1>c DEF Init, RxType
<1>3. scan \in ScanType
  BY <1>c DEF Init, ScanType
<1>4. bdp_max \in 0..BDP_MAX
  BY <1>c DEF Init
<1>6. answers = {} /\ raced \in BOOLEAN
  BY DEF Init
<1>5. Room
  BY DEF Init, Room
<1> QED BY <1>1, <1>2, <1>3, <1>4, <1>5, <1>6 DEF TypeInv, TypeOK, RxType, ScanType

(* One of the RX thread's steps leaves the flush and the scan alone.       *)
LEMMA RxTypes == ASSUME TypeInv, Rx PROVE TypeInv' \/ raced' \notin BOOLEAN
<1> SUFFICES ASSUME raced' \in BOOLEAN PROVE TypeInv'
  OBVIOUS
<1>c. /\ BDP_MAX \in Nat \ {0} /\ BusOf \in [Devices -> Bus]
      /\ Zero \notin Devices /\ Broadcast \notin Devices
  BY ArpConstants
<1>t. /\ rx \in RxType /\ bdp_max \in 0..BDP_MAX
      /\ answers \subseteq Devices \cup {Broadcast}
  BY DEF TypeInv, TypeOK, RxType
<1>1. ASSUME NEW a \in answers, svsBdpArpTableUpdate(a) PROVE TypeInv'
  <2>1. rx' \in RxType /\ (rx'.pc # "idle" => rx'.a \in Devices)
    BY <1>1, <1>c, <1>t DEF svsBdpArpTableUpdate, RxType, Slot, Address, TypeInv, Room
  <2>2. rx'.pc \in {"idle", "search"}
    BY <1>1, <1>t DEF svsBdpArpTableUpdate, RxType
  <2> QED BY <1>1, <1>t, <2>1, <2>2
          DEF svsBdpArpTableUpdate, TypeInv, TypeOK, Room, RxType
<1>2. ASSUME NEW a \in answers, AnswerLost(a) PROVE TypeInv'
  BY <1>2 DEF AnswerLost, TypeInv, TypeOK, Room
<1>3. CASE ArpSearch
  <2>1. rx' \in RxType /\ rx'.pc \in {"idle", "search", "limit"} /\ rx'.a = rx.a
    BY <1>3, <1>c, <1>t DEF ArpSearch, RxType, Slot
  <2> QED BY <1>3, <2>1 DEF ArpSearch, TypeInv, TypeOK, Room, RxType
<1>4. CASE ArpLimit
  <2>1. /\ rx' \in RxType /\ rx'.pc \in {"idle", "write"} /\ rx'.a = rx.a
        /\ rx'.pc = "write" => bdp_max < BDP_MAX
    BY <1>4, <1>c, <1>t DEF ArpLimit, Full, RxType
  <2> QED BY <1>4, <2>1 DEF ArpLimit, TypeInv, TypeOK, Room, RxType
<1>5. CASE ArpWrite
  <2>1. rx' \in RxType /\ rx'.pc = "bus" /\ rx'.a = rx.a
    BY <1>5, <1>t DEF ArpWrite, RxType
  <2>2. bdp_addr' \in [Slot -> Address]
    BY <1>5, <1>t DEF ArpWrite, TypeInv, TypeOK, RxType
  <2> QED BY <1>5, <2>1, <2>2 DEF ArpWrite, TypeInv, TypeOK, Room, RxType
<1>6. CASE ArpBus
  <2>1. rx' \in RxType /\ rx'.pc = "load" /\ rx'.a = rx.a
    BY <1>6, <1>t DEF ArpBus, RxType
  <2>2. BusOf[rx.a] \in Bus
    BY <1>6, <1>c DEF ArpBus, TypeInv, Room
  <2>3. bdp_bus' \in [Slot -> Bus]
    BY <1>6, <1>t, <2>2 DEF ArpBus, TypeInv, TypeOK, RxType
  <2> QED BY <1>6, <2>1, <2>3 DEF ArpBus, TypeInv, TypeOK, Room, RxType
<1>7. CASE ArpLoad
  <2>1. rx' \in RxType /\ rx'.pc = "store" /\ rx'.a = rx.a /\ rx'.tmp < BDP_MAX
    BY <1>7, <1>c, <1>t DEF ArpLoad, RxType, Slot, TypeInv, Room
  <2> QED BY <1>7, <2>1 DEF ArpLoad, TypeInv, TypeOK, Room, RxType
<1>8. CASE ArpStore
  <2>1. rx' \in RxType /\ rx'.pc = "idle"
    BY <1>8, <1>t DEF ArpStore, RxType
  <2>2. bdp_max' \in 0..BDP_MAX
    BY <1>8, <1>c, <1>t DEF ArpStore, TypeInv, Room, RxType, Slot
  <2>3. BusOf[rx.a] \in Bus
    BY <1>8, <1>c DEF ArpStore, TypeInv, Room
  <2>4. bus_max' \in [Bus -> Nat]
    BY <1>8, <2>3 DEF ArpStore, TypeInv, TypeOK
  <2> QED BY <1>8, <2>1, <2>2, <2>4 DEF ArpStore, TypeInv, TypeOK, Room, RxType
<1> QED BY <1>1, <1>2, <1>3, <1>4, <1>5, <1>6, <1>7, <1>8 DEF Rx

(* The steps of the flush and of the scan without what Noted adds to them, *)
(* which gives raced its value.                                            *)
LEMMA FlushTypes == ASSUME TypeInv, Flush PROVE TypeInv' \/ raced' \notin BOOLEAN
<1> SUFFICES ASSUME raced' \in BOOLEAN PROVE TypeInv'
  OBVIOUS
<1>c. BDP_MAX \in Nat \ {0}
  BY ArpConstants
<1>1. CASE FlushClear
  <2>t. /\ flush \in [pc : {"idle", "clear", "reset"}, i : Slot]
        /\ bdp_addr \in [Slot -> Address] /\ bdp_max \in 0..BDP_MAX
    BY DEF TypeInv, TypeOK
  <2>1. CASE flush.i < bdp_max
    <3>1. flush.i + 1 \in Slot
      BY <1>c, <2>t, <2>1 DEF Slot
    <3>2. flush' \in [pc : {"idle", "clear", "reset"}, i : Slot]
      BY <1>1, <2>t, <2>1, <3>1 DEF FlushClear
    <3>3. bdp_addr' \in [Slot -> Address]
      BY <1>1, <2>t, <2>1 DEF FlushClear, Address
    <3> QED BY <1>1, <3>2, <3>3 DEF FlushClear, TypeInv, TypeOK, Room
  <2>2. CASE ~(flush.i < bdp_max)
    <3>1. flush' \in [pc : {"idle", "clear", "reset"}, i : Slot] /\ bdp_addr' = bdp_addr
      BY <1>1, <2>t, <2>2 DEF FlushClear
    <3> QED BY <1>1, <3>1 DEF FlushClear, TypeInv, TypeOK, Room
  <2> QED BY <2>1, <2>2
<1>2. CASE FlushReset
  <2>1. flush' \in [pc : {"idle", "clear", "reset"}, i : Slot] /\ bdp_max' \in 0..BDP_MAX
    BY <1>2, <1>c DEF FlushReset, Slot
  <2>2. Room'
    BY <1>2, <1>c DEF FlushReset, TypeInv, TypeOK, Room
  <2> QED BY <1>2, <2>1, <2>2 DEF FlushReset, TypeInv, TypeOK
<1> QED BY <1>1, <1>2 DEF Flush

LEMMA ScanTypes == ASSUME TypeInv, Scan PROVE TypeInv' \/ raced' \notin BOOLEAN
<1> SUFFICES ASSUME raced' \in BOOLEAN PROVE TypeInv'
  OBVIOUS
<1>c. BDP_MAX \in Nat \ {0} /\ ScanRetries \in Nat \ {0} /\ MaxScans \in Nat
  BY ArpConstants
<1>t. scan \in ScanType /\ bdp_max \in 0..BDP_MAX
  BY DEF TypeInv, TypeOK, ScanType
<1>1. CASE ScanStart
  <2>1. /\ flush' \in [pc : {"idle", "clear", "reset"}, i : Slot]
        /\ scan' \in ScanType /\ scan'.retry < ScanRetries
    BY <1>1, <1>c, <1>t DEF ScanStart, ScanType, Slot
  <2> QED BY <1>1, <2>1 DEF ScanStart, TypeInv, TypeOK, Room, ScanType
<1>2. CASE ScanFlushed
  <2>1. scan' \in ScanType /\ scan'.retry < ScanRetries
    BY <1>2, <1>t DEF ScanFlushed, ScanType, TypeInv, Room
  <2> QED BY <1>2, <2>1 DEF ScanFlushed, TypeInv, TypeOK, Room, ScanType
<1>3. CASE ScanArp
  <2>1. scan' \in ScanType /\ scan'.retry < ScanRetries
    BY <1>3, <1>t DEF ScanArp, ScanType, TypeInv, Room
  <2>2. answers' \subseteq Devices \cup {Broadcast}
    BY <1>3 DEF ScanArp, TypeInv, TypeOK
  <2> QED BY <1>3, <2>1, <2>2 DEF ScanArp, TypeInv, TypeOK, Room, ScanType
<1>4. CASE ScanPoll
  <2>1. scan' \in ScanType /\ scan'.retry < ScanRetries
    BY <1>4, <1>t DEF ScanPoll, ScanType, TypeInv, Room
  <2> QED BY <1>4, <2>1 DEF ScanPoll, TypeInv, TypeOK, Room, ScanType
<1>5. CASE ScanRoundOver
  <2>1. scan' \in ScanType /\ (scan'.pc # "idle" => scan'.retry < ScanRetries)
    <3>1. scan.retry \in Nat /\ scan.retry < ScanRetries
      BY <1>5, <1>c, <1>t DEF ScanRoundOver, ScanType, TypeInv, Room
    <3>2. scan.retry + 1 \in 0..ScanRetries
      BY <1>c, <3>1
    <3>3. /\ scan' \in ScanType /\ scan'.retry = scan.retry + 1
          /\ scan'.pc = IF scan.retry + 1 < ScanRetries THEN "arp" ELSE "idle"
      BY <1>5, <1>t, <3>2 DEF ScanRoundOver, NextRound, ScanType
    <3> QED BY <1>c, <3>1, <3>3
  <2> QED BY <1>5, <2>1 DEF ScanRoundOver, TypeInv, TypeOK, Room, ScanType
<1>6. CASE ScanFail
  <2>1. scan' \in ScanType /\ scan'.pc = "idle"
    BY <1>6, <1>t DEF ScanFail, ScanType
  <2> QED BY <1>6, <2>1 DEF ScanFail, TypeInv, TypeOK, Room, ScanType
<1> QED BY <1>1, <1>2, <1>3, <1>4, <1>5, <1>6 DEF Scan

LEMMA TypeStep == TypeInv /\ [Next]_vars => TypeInv'
<1> SUFFICES ASSUME TypeInv, [Next]_vars PROVE TypeInv'
  OBVIOUS
<1>1. CASE Noted(Rx) \/ Noted(Flush) \/ Noted(Scan)
  <2>1. raced' \in BOOLEAN /\ (Rx \/ Flush \/ Scan)
    BY <1>1 DEF Noted, TypeInv, TypeOK
  <2> QED BY <2>1, RxTypes, FlushTypes, ScanTypes
<1>2. CASE UNCHANGED vars
  BY <1>2 DEF vars, TypeInv, TypeOK, Room
<1> QED BY <1>1, <1>2 DEF Next

(* The table and the threads keep their state in its types, and the number *)
(* of entries never exceeds the table, whatever update and flush do.       *)
THEOREM TypeCorrect == Spec => []TypeOK
<1>1. Init => TypeInv
  BY TypeInit
<1>2. TypeInv /\ [Next]_vars => TypeInv'
  BY TypeStep
<1>3. TypeInv => TypeOK
  BY DEF TypeInv
<1> QED BY <1>1, <1>2, <1>3, PTL DEF Spec

-----------------------------------------------------------------------------
(* The table.                                                              *)

Searching == rx.pc # "idle"
Adding == rx.pc \in {"limit", "write", "bus", "load", "store"}

(* Entries that count, or will count when the loaded bdp_max is stored.    *)
Counted(i) == i < bdp_max \/ (rx.pc = "store" /\ i < rx.tmp)

(* The search looked at every entry there was, or a flush has removed them *)
(* all; the entry that is added is the device's, or was cleared again.     *)
Window ==
    /\ Searching => \A j \in Slot : j < rx.i => bdp_addr[j] # rx.a
    /\ rx.pc = "search" => rx.i <= bdp_max \/ bdp_max = 0
    /\ rx.pc \in {"limit", "write", "bus", "load"} => bdp_max \in {rx.i, 0}
    /\ rx.pc = "store" => rx.tmp \in {rx.i, 0} /\ bdp_max \in {rx.tmp, 0}
    /\ rx.pc \in {"bus", "load", "store"} => bdp_addr[rx.i] \in {rx.a, Zero}

(* No address is in the table twice, below the numbers that count.         *)
Distinct ==
    \A i, j \in Slot :
        Counted(i) /\ j < i /\ bdp_addr[i] # Zero => bdp_addr[j] # bdp_addr[i]

(* The bus of every entry is right, but for the one that is being added.   *)
Routed ==
    \A i \in Slot :
        bdp_addr[i] = Zero \/ (rx.pc = "bus" /\ i = rx.i) \/ bdp_bus[i] = BusOf[bdp_addr[i]]

TableInv == Window /\ Distinct /\ Routed

LEMMA TableInit == Init => TableInv
BY DEF Init, TableInv, Window, Searching, Distinct, Counted, Routed

(* What the table's variables say when the RX thread does not move them.   *)
LEMMA TableOthers ==
    ASSUME TypeInv, TableInv, UNCHANGED <<bdp_addr, bdp_bus, bdp_max, rx>>
    PROVE  TableInv'
BY DEF TableInv, Window, Searching, Distinct, Counted, Routed

LEMMA TableRx == ASSUME TypeInv, TypeInv', TableInv, Rx PROVE TableInv'
<1>c. BDP_MAX \in Nat \ {0} /\ Zero \notin Devices
  BY ArpConstants
<1>t. /\ rx \in RxType /\ bdp_max \in 0..BDP_MAX /\ bdp_addr \in [Slot -> Address]
      /\ bdp_bus \in [Slot -> Bus] /\ (rx.pc # "idle" => rx.a \in Devices /\ rx.a # Zero)
      /\ Slot \subseteq Nat
  <2>1. /\ rx \in RxType /\ bdp_max \in 0..BDP_MAX /\ bdp_addr \in [Slot -> Address]
        /\ bdp_bus \in [Slot -> Bus]
    BY DEF TypeInv, TypeOK, RxType
  <2>2. rx.pc \in {"idle", "search", "limit", "write", "bus", "load", "store"}
    BY <2>1 DEF RxType
  <2>3. rx.pc # "idle" => rx.a \in Devices
    BY DEF TypeInv, Room
  <2>4. Slot \subseteq Nat
    BY <1>c DEF Slot
  <2>5. rx.pc # "idle" => rx.a \in Devices /\ rx.a # Zero
    BY <1>c, <2>3
  <2> QED BY <2>1, <2>4, <2>5
<1>n. rx.i \in Nat /\ rx.i \in Slot /\ bdp_max \in Nat
  <2>1. rx.i \in Slot
    BY <1>t DEF RxType
  <2>2. bdp_max \in Nat
    BY <1>c, <1>t
  <2> QED BY <1>t, <2>1, <2>2
<1>1. ASSUME NEW a \in answers, svsBdpArpTableUpdate(a) PROVE TableInv'
  <2>1. CASE a \in {Zero, Broadcast}
    BY <1>1, <2>1, TableOthers DEF svsBdpArpTableUpdate
  <2>2. CASE a \notin {Zero, Broadcast}
    <3>1. /\ rx'.pc = "search" /\ rx'.i = 0 /\ rx.pc = "idle"
          /\ UNCHANGED <<bdp_addr, bdp_bus, bdp_max>>
      BY <1>1, <2>2 DEF svsBdpArpTableUpdate
    <3> QED BY <1>t, <3>1 DEF TableInv, Window, Searching, Distinct, Counted, Routed
  <2> QED BY <2>1, <2>2
<1>2. ASSUME NEW a \in answers, AnswerLost(a) PROVE TableInv'
  BY <1>2, TableOthers DEF AnswerLost
<1>3. CASE ArpSearch
  <2>0. rx.pc = "search" /\ UNCHANGED <<bdp_addr, bdp_bus, bdp_max>>
    BY <1>3 DEF ArpSearch
  <2>1. CASE rx.i >= bdp_max
    <3>1. rx' = [rx EXCEPT !.pc = "limit"]
      BY <1>3, <2>1 DEF ArpSearch
    <3>2. rx'.pc = "limit" /\ rx'.i = rx.i /\ rx'.a = rx.a
      BY <1>t, <3>1 DEF RxType
    <3>4. rx.i <= bdp_max \/ bdp_max = 0
      BY <2>0 DEF TableInv, Window
    <3>3. rx.i \in Nat /\ bdp_max \in {rx.i, 0}
      BY <1>n, <2>1, <3>4
    <3> QED BY <2>0, <3>2, <3>3 DEF TableInv, Window, Searching, Distinct, Counted, Routed
  <2>2. CASE ~(rx.i >= bdp_max) /\ Found
    <3>1. rx'.pc = "idle"
      BY <1>3, <1>t, <2>2 DEF ArpSearch, RxType
    <3> QED BY <2>0, <3>1 DEF TableInv, Window, Searching, Distinct, Counted, Routed
  <2>3. CASE ~(rx.i >= bdp_max) /\ ~Found
    <3>1. rx' = [rx EXCEPT !.i = @ + 1]
      BY <1>3, <2>3 DEF ArpSearch
    <3>2. rx'.pc = "search" /\ rx'.i = rx.i + 1 /\ rx'.a = rx.a
      BY <1>t, <2>0, <3>1 DEF RxType
    <3>3. rx.i \in Nat /\ rx'.i <= bdp_max
      BY <1>n, <2>3, <3>2
    <3>4. \A j \in Slot : j < rx'.i => bdp_addr[j] # rx.a
      BY <1>t, <2>0, <2>3, <3>2, <3>3 DEF Found, TableInv, Window, Searching
    <3> QED BY <2>0, <3>2, <3>3, <3>4 DEF TableInv, Window, Searching, Distinct, Counted, Routed
  <2> QED BY <2>1, <2>2, <2>3
<1>4. CASE ArpLimit
  <2>1. /\ rx.pc = "limit" /\ rx'.pc \in {"idle", "write"} /\ rx'.i = rx.i /\ rx'.a = rx.a
        /\ UNCHANGED <<bdp_addr, bdp_bus, bdp_max>>
    BY <1>4, <1>t DEF ArpLimit, RxType
  <2> QED BY <2>1 DEF TableInv, Window, Searching, Distinct, Counted, Routed
<1>5. CASE ArpWrite
  <2>1. /\ rx.pc = "write" /\ rx'.pc = "bus" /\ rx'.i = rx.i /\ rx'.a = rx.a
        /\ UNCHANGED <<bdp_bus, bdp_max>>
    BY <1>5, <1>t DEF ArpWrite, RxType
  <2>2. /\ bdp_addr' = [bdp_addr EXCEPT ![rx.i] = rx.a]
        /\ rx.i \in Slot /\ bdp_max \in {rx.i, 0}
    BY <1>5, <1>t, <2>1 DEF ArpWrite, RxType, TableInv, Window
  <2>3. /\ bdp_addr'[rx.i] = rx.a
        /\ \A j \in Slot : j # rx.i => bdp_addr'[j] = bdp_addr[j]
    BY <1>t, <2>2
  <2>4. Window'
    BY <1>t, <2>1, <2>2, <2>3 DEF TableInv, Window, Searching
  <2>5. Distinct'
    <3> SUFFICES ASSUME NEW i \in Slot, NEW j \in Slot, Counted(i)', j < i,
                        bdp_addr'[i] # Zero
                 PROVE  bdp_addr'[j] # bdp_addr'[i]
      BY DEF Distinct
    <3>1. i < bdp_max /\ i \in Nat /\ j \in Nat
      BY <1>t, <2>1 DEF Counted
    <3>2. i < rx.i /\ j < rx.i
      BY <1>n, <2>2, <3>1
    <3>3. bdp_addr'[i] = bdp_addr[i] /\ bdp_addr'[j] = bdp_addr[j]
      BY <1>n, <2>3, <3>1, <3>2
    <3> QED BY <3>1, <3>3 DEF TableInv, Distinct, Counted
  <2>6. Routed'
    BY <2>1, <2>3 DEF TableInv, Routed
  <2> QED BY <2>4, <2>5, <2>6 DEF TableInv
<1>6. CASE ArpBus
  <2>1. /\ rx.pc = "bus" /\ rx'.pc = "load" /\ rx'.i = rx.i /\ rx'.a = rx.a
        /\ UNCHANGED <<bdp_addr, bdp_max>> /\ rx.i \in Slot
        /\ bdp_bus' = [bdp_bus EXCEPT ![rx.i] = BusOf[rx.a]]
    BY <1>6, <1>t DEF ArpBus, RxType
  <2>2. Window' /\ Distinct'
    BY <2>1 DEF TableInv, Window, Searching, Distinct, Counted
  <2>3. Routed'
    BY <1>t, <2>1 DEF TableInv, Window, Routed
  <2> QED BY <2>2, <2>3 DEF TableInv
<1>7. CASE ArpLoad
  <2>1. /\ rx.pc = "load" /\ rx'.pc = "store" /\ rx'.i = rx.i /\ rx'.a = rx.a
        /\ rx'.tmp = bdp_max /\ UNCHANGED <<bdp_addr, bdp_bus, bdp_max>>
    BY <1>7, <1>t DEF ArpLoad, RxType
  <2> QED BY <2>1 DEF TableInv, Window, Searching, Distinct, Counted, Routed
<1>8. CASE ArpStore
  <2>1. /\ rx.pc = "store" /\ rx'.pc = "idle" /\ bdp_max' = rx.tmp + 1
        /\ UNCHANGED <<bdp_addr, bdp_bus>> /\ rx.tmp \in Nat /\ rx.i \in Slot
    BY <1>8, <1>t DEF ArpStore, RxType
  <2>2. Window' /\ Routed'
    BY <2>1 DEF TableInv, Window, Searching, Routed
  <2>3. ASSUME NEW i \in Slot, NEW j \in Slot, Counted(i)', j < i, bdp_addr[i] # Zero
        PROVE  bdp_addr[j] # bdp_addr[i]
    <3>1. i < rx.tmp \/ i = rx.tmp
      BY <1>t, <2>1, <2>3 DEF Counted
    <3>2. CASE i < rx.tmp
      BY <2>1, <2>3, <3>2 DEF TableInv, Distinct, Counted
    <3>3. CASE i = rx.tmp
      <4>1. i = rx.i
        BY <1>t, <2>1, <2>3, <3>3 DEF TableInv, Window
      <4> QED BY <2>1, <2>3, <4>1 DEF TableInv, Window, Searching
    <3> QED BY <3>1, <3>2, <3>3
  <2> QED BY <2>1, <2>2, <2>3 DEF TableInv, Distinct
<1> QED BY <1>1, <1>2, <1>3, <1>4, <1>5, <1>6, <1>7, <1>8 DEF Rx

(* A flush only clears entries and counts fewer of them.                   *)
LEMMA TableFlush == ASSUME TypeInv, TableInv, Flush PROVE TableInv'
<1>c. BDP_MAX \in Nat \ {0} /\ Zero \notin Devices
  BY ArpConstants
<1>t. /\ rx \in RxType /\ bdp_max \in 0..BDP_MAX /\ bdp_addr \in [Slot -> Address]
      /\ (rx.pc # "idle" => rx.a # Zero)
  BY <1>c DEF TypeInv, TypeOK, RxType, Room
<1>1. CASE FlushClear
  <2>1. UNCHANGED <<bdp_bus, bdp_max, rx>>
    BY <1>1 DEF FlushClear
  <2>2. \A j \in Slot : bdp_addr'[j] \in {bdp_addr[j], Zero}
    BY <1>1, <1>t DEF FlushClear
  <2>3. Window'
    BY <1>t, <2>1, <2>2 DEF TableInv, Window, Searching, RxType
  <2>4. Distinct'
    BY <2>1, <2>2 DEF TableInv, Distinct, Counted
  <2>5. Routed'
    BY <2>1, <2>2 DEF TableInv, Routed
  <2> QED BY <2>3, <2>4, <2>5 DEF TableInv
<1>2. CASE FlushReset
  <2>1. UNCHANGED <<bdp_addr, bdp_bus, rx>> /\ bdp_max' = 0
    BY <1>2 DEF FlushReset
  <2>2. Slot \subseteq Nat
    BY <1>c DEF Slot
  <2> QED BY <1>t, <2>1, <2>2 DEF TableInv, Window, Searching, Distinct, Counted, Routed
<1> QED BY <1>1, <1>2 DEF Flush

LEMMA TableStep == TypeInv /\ TypeInv' /\ TableInv /\ [Next]_vars => TableInv'
<1> SUFFICES ASSUME TypeInv, TypeInv', TableInv, [Next]_vars PROVE TableInv'
  OBVIOUS
<1>1. CASE Rx
  BY <1>1, TableRx
<1>2. CASE Flush
  BY <1>2, TableFlush
<1>3. CASE Scan
  BY <1>3, TableOthers
     DEF Scan, ScanStart, ScanFlushed, ScanArp, ScanPoll, ScanRoundOver, ScanFail
<1>4. CASE UNCHANGED vars
  BY <1>4, TableOthers DEF vars
<1> QED BY <1>1, <1>2, <1>3, <1>4 DEF Next, Noted

(* Whatever update and flush do to each other, no address has two numbers  *)
(* that count and the bus is recorded before the number is published.      *)
THEOREM TableCorrect == Spec => [](TypeInv /\ TableInv)
<1>1. Init => TypeInv /\ TableInv
  BY TypeInit, TableInit
<1>2. TypeInv /\ TableInv /\ [Next]_vars => (TypeInv /\ TableInv)'
  BY TypeStep, TableStep
<1> QED BY <1>1, <1>2, PTL DEF Spec

(* A response is attributed to the device whose number the client used: the*)
(* lookups in the two directions are inverse (svsBdpVirtualToPhysical and  *)
(* svsBdpPhysicalToVirtual), with the table written by two threads.        *)
THEOREM RoundTripCorrect == Spec => []RoundTrip
<1>1. TypeInv /\ TableInv => RoundTrip
  <2> SUFFICES ASSUME TypeInv, TableInv, NEW i \in 0..bdp_max-1,
                      svsBdpVirtualToPhysical(i) \notin {Zero, Broadcast}
               PROVE  svsBdpPhysicalToVirtual(svsBdpVirtualToPhysical(i), i)
    BY DEF RoundTrip
  <2>1. svsBdpVirtualToPhysical(i) = bdp_addr[i]
    BY DEF svsBdpVirtualToPhysical
  <2>2. i \in 0..BDP_MAX-1 /\ i \in Slot /\ i < bdp_max /\ 0..i-1 \subseteq Slot
    BY ArpConstants DEF TypeInv, TypeOK, Slot
  <2>3. \A j \in 0..i-1 : bdp_addr[j] # bdp_addr[i]
    BY <2>1, <2>2 DEF TableInv, Distinct, Counted
  <2> QED BY <2>1, <2>2, <2>3 DEF svsBdpPhysicalToVirtual
<1> QED BY <1>1, TableCorrect, PTL

(* A request to a number in use goes out on the bus its device is on.      *)
THEOREM RouteKnownCorrect == Spec => []RouteKnown
<1>1. TypeInv /\ TableInv => RouteKnown
  <2> SUFFICES ASSUME TypeInv, TableInv, NEW i \in 0..bdp_max-1, bdp_addr[i] # Zero
               PROVE  bdp_bus[i] = BusOf[bdp_addr[i]]
    BY DEF RouteKnown
  <2>1. i \in Slot /\ i < bdp_max /\ rx \in RxType
    BY ArpConstants DEF TypeInv, TypeOK, Slot, RxType
  <2>2. ~(rx.pc = "bus" /\ i = rx.i)
    BY <2>1 DEF TableInv, Window, RxType
  <2> QED BY <2>1, <2>2 DEF TableInv, Routed
<1> QED BY <1>1, TableCorrect, PTL

-----------------------------------------------------------------------------
(* Holes.                                                                  *)

(* As long as no update overlapped a flush, the search ends at bdp_max, the*)
(* new entry is the next one, and only a flush leaves an empty entry below *)
(* bdp_max.                                                                *)
HolesInv ==
    ~raced =>
      /\ rx.pc = "idle" \/ flush.pc = "idle"
      /\ bdp_addr[BDP_MAX] = Zero
      /\ flush.pc = "idle" => \A i \in 0..bdp_max-1 : bdp_addr[i] # Zero
      /\ rx.pc = "search" => rx.i <= bdp_max
      /\ rx.pc \in {"limit", "write", "bus", "load"} => rx.i = bdp_max
      /\ rx.pc = "store" => rx.tmp = bdp_max /\ rx.i = bdp_max
      /\ rx.pc \in {"bus", "load", "store"} => bdp_addr[rx.i] # Zero

(* The update does not overlap a flush: each of its places knows what      *)
(* comes next.                                                             *)
LEMMA HolesRx ==
    ASSUME TypeInv, HolesInv, ~raced, rx.pc = "idle" \/ flush.pc = "idle", Rx,
           rx'.pc = "idle" \/ flush'.pc = "idle"
    PROVE  HolesInv'
<1>c. BDP_MAX \in Nat \ {0} /\ Zero \notin Devices
  BY ArpConstants
<1>t. /\ rx \in RxType /\ bdp_max \in 0..BDP_MAX /\ bdp_addr \in [Slot -> Address]
      /\ (rx.pc # "idle" => rx.a \in Devices /\ rx.a # Zero)
  <2>1. rx \in RxType /\ bdp_max \in 0..BDP_MAX /\ bdp_addr \in [Slot -> Address]
    BY DEF TypeInv, TypeOK, RxType
  <2>2. rx.pc # "idle" => rx.a \in Devices
    BY DEF TypeInv, Room
  <2> QED BY <1>c, <2>1, <2>2
<1>n. rx.i \in Nat /\ rx.i \in Slot /\ bdp_max \in Nat /\ bdp_max <= BDP_MAX /\ rx.tmp \in Nat
  BY <1>c, <1>t DEF RxType, Slot
<1>f. flush' = flush
  BY DEF Rx, svsBdpArpTableUpdate, AnswerLost, ArpSearch, ArpLimit, ArpWrite, ArpBus, ArpLoad, ArpStore
<1>i. /\ bdp_addr[BDP_MAX] = Zero
      /\ flush.pc = "idle" => \A i \in 0..bdp_max-1 : bdp_addr[i] # Zero
      /\ rx.pc = "search" => rx.i <= bdp_max
      /\ rx.pc \in {"limit", "write", "bus", "load"} => rx.i = bdp_max
      /\ rx.pc = "store" => rx.tmp = bdp_max /\ rx.i = bdp_max
      /\ rx.pc \in {"bus", "load", "store"} => bdp_addr[rx.i] # Zero
  BY DEF HolesInv
<1>1. ASSUME NEW a \in answers, svsBdpArpTableUpdate(a) PROVE HolesInv'
  <2>1. UNCHANGED <<bdp_addr, bdp_max>> /\ rx.pc = "idle"
    BY <1>1 DEF svsBdpArpTableUpdate
  <2>2. rx' = rx \/ (rx'.pc = "search" /\ rx'.i = 0)
    BY <1>1 DEF svsBdpArpTableUpdate
  <2> QED BY <1>f, <1>i, <1>n, <2>1, <2>2 DEF HolesInv
<1>2. ASSUME NEW a \in answers, AnswerLost(a) PROVE HolesInv'
  <2>1. UNCHANGED <<bdp_addr, bdp_max, rx>>
    BY <1>2 DEF AnswerLost
  <2> QED BY <1>f, <1>i, <2>1 DEF HolesInv
<1>3. CASE ArpSearch
  <2>0. rx.pc = "search" /\ UNCHANGED <<bdp_addr, bdp_max>>
    BY <1>3 DEF ArpSearch
  <2>1. CASE rx.i >= bdp_max
    <3>1. rx'.pc = "limit" /\ rx'.i = rx.i
      BY <1>3, <1>t, <2>1 DEF ArpSearch, RxType
    <3>2. rx.i = bdp_max
      BY <1>i, <1>n, <2>0, <2>1
    <3> QED BY <1>f, <1>i, <2>0, <3>1, <3>2 DEF HolesInv
  <2>2. CASE ~(rx.i >= bdp_max) /\ Found
    <3>1. rx'.pc = "idle"
      BY <1>3, <1>t, <2>2 DEF ArpSearch, RxType
    <3> QED BY <1>f, <1>i, <2>0, <3>1 DEF HolesInv
  <2>3. CASE ~(rx.i >= bdp_max) /\ ~Found
    <3>0. rx' = [rx EXCEPT !.i = @ + 1]
      BY <1>3, <2>3 DEF ArpSearch
    <3>1. rx'.pc = "search" /\ rx'.i = rx.i + 1
      BY <1>t, <2>0, <3>0 DEF RxType
    <3>2. rx.i + 1 <= bdp_max
      BY <1>n, <2>3
    <3> QED BY <1>f, <1>i, <2>0, <3>1, <3>2 DEF HolesInv
  <2> QED BY <2>1, <2>2, <2>3
<1>4. CASE ArpLimit
  <2>1. /\ rx.pc = "limit" /\ rx'.pc \in {"idle", "write"} /\ rx'.i = rx.i
        /\ UNCHANGED <<bdp_addr, bdp_max>>
    BY <1>4, <1>t DEF ArpLimit, RxType
  <2> QED BY <1>f, <1>i, <2>1 DEF HolesInv
<1>5. CASE ArpWrite
  <2>1. /\ rx.pc = "write" /\ rx'.pc = "bus" /\ rx'.i = rx.i /\ UNCHANGED bdp_max
        /\ bdp_addr' = [bdp_addr EXCEPT ![rx.i] = rx.a]
    BY <1>5, <1>t DEF ArpWrite, RxType
  <2>2. rx.i = bdp_max /\ bdp_max < BDP_MAX
    BY <1>i, <2>1 DEF TypeInv, Room
  <2>3. bdp_addr'[rx.i] = rx.a /\ \A j \in Slot : j # rx.i => bdp_addr'[j] = bdp_addr[j]
    BY <1>n, <1>t, <2>1
  <2>4. BDP_MAX \in Slot /\ BDP_MAX # rx.i /\ \A j \in 0..bdp_max-1 : j \in Slot /\ j # rx.i
    BY <1>c, <1>n, <2>2 DEF Slot
  <2>5. bdp_addr'[BDP_MAX] = Zero /\ (flush.pc = "idle" => \A j \in 0..bdp_max-1 : bdp_addr'[j] # Zero)
    BY <1>i, <2>3, <2>4
  <2>6. bdp_addr'[rx'.i] # Zero
    <3>1. rx.a # Zero
      <4>1. rx.pc # "idle"
        BY <2>1
      <4> QED BY <1>t, <4>1
    <3>2. bdp_addr'[rx'.i] = rx.a
      BY <2>1, <2>3
    <3> QED BY <3>1, <3>2
  <2> QED BY <1>f, <2>1, <2>2, <2>5, <2>6 DEF HolesInv
<1>6. CASE ArpBus
  <2>1. /\ rx.pc = "bus" /\ rx'.pc = "load" /\ rx'.i = rx.i
        /\ UNCHANGED <<bdp_addr, bdp_max>>
    BY <1>6, <1>t DEF ArpBus, RxType
  <2> QED BY <1>f, <1>i, <2>1 DEF HolesInv
<1>7. CASE ArpLoad
  <2>1. /\ rx.pc = "load" /\ rx'.pc = "store" /\ rx'.i = rx.i /\ rx'.tmp = bdp_max
        /\ UNCHANGED <<bdp_addr, bdp_max>>
    BY <1>7, <1>t DEF ArpLoad, RxType
  <2> QED BY <1>f, <1>i, <2>1 DEF HolesInv
<1>8. CASE ArpStore
  <2>1. /\ rx.pc = "store" /\ rx'.pc = "idle" /\ bdp_max' = bdp_max + 1 /\ UNCHANGED bdp_addr
    BY <1>8, <1>i, <1>t DEF ArpStore, RxType
  <2>2. flush.pc = "idle"
    BY <2>1
  <2>3. \A i \in 0..bdp_max : bdp_addr[i] # Zero
    <3> SUFFICES ASSUME NEW i \in 0..bdp_max PROVE bdp_addr[i] # Zero
      OBVIOUS
    <3>1. i = bdp_max \/ i \in 0..bdp_max-1
      BY <1>n
    <3> QED BY <1>i, <2>1, <2>2, <3>1
  <2>4. \A i \in 0..bdp_max'-1 : bdp_addr'[i] # Zero
    <3>1. bdp_max' - 1 = bdp_max
      BY <1>n, <2>1
    <3> QED BY <2>1, <2>3, <3>1
  <2> QED BY <1>f, <1>i, <2>1, <2>4 DEF HolesInv
<1> QED BY <1>1, <1>2, <1>3, <1>4, <1>5, <1>6, <1>7, <1>8 DEF Rx

(* A flush empties the table behind a count it resets at its end.          *)
LEMMA HolesFlush ==
    ASSUME TypeInv, HolesInv, ~raced, Flush
    PROVE  HolesInv'
<1>c. BDP_MAX \in Nat \ {0}
  BY ArpConstants
<1>t. /\ flush \in [pc : {"idle", "clear", "reset"}, i : Slot]
      /\ bdp_addr \in [Slot -> Address] /\ bdp_max \in 0..BDP_MAX
  BY DEF TypeInv, TypeOK
<1>i. bdp_addr[BDP_MAX] = Zero /\ (rx.pc = "idle" \/ flush.pc = "idle")
  BY DEF HolesInv
<1>1. CASE FlushClear
  <2>1. flush.pc = "clear" /\ UNCHANGED <<bdp_max, rx>>
    BY <1>1 DEF FlushClear
  <2>2. flush'.pc \in {"clear", "reset"}
    BY <1>1, <1>t, <2>1 DEF FlushClear
  <2>3. BDP_MAX \in Slot
    BY <1>c DEF Slot
  <2>4. bdp_addr'[BDP_MAX] = Zero
    BY <1>1, <1>i, <1>t, <2>3 DEF FlushClear
  <2> QED BY <1>i, <2>1, <2>2, <2>4 DEF HolesInv
<1>2. CASE FlushReset
  <2>1. /\ flush.pc = "reset" /\ flush'.pc = "idle" /\ UNCHANGED <<bdp_addr, rx>>
        /\ bdp_max' = 0
    BY <1>2 DEF FlushReset
  <2> QED BY <1>i, <2>1 DEF HolesInv
<1> QED BY <1>1, <1>2 DEF Flush

LEMMA HolesStep == TypeInv /\ HolesInv /\ [Next]_vars => HolesInv'
<1> SUFFICES ASSUME TypeInv, HolesInv, [Next]_vars PROVE HolesInv'
  OBVIOUS
<1>1. CASE UNCHANGED vars
  BY <1>1 DEF vars, HolesInv
<1>2. CASE raced'
  BY <1>2 DEF HolesInv
<1>3. CASE Next /\ ~raced'
  <2>1. ~raced /\ (rx'.pc = "idle" \/ flush'.pc = "idle") /\ (Rx \/ Flush \/ Scan)
    BY <1>3 DEF Next, Noted
  <2>2. rx.pc = "idle" \/ flush.pc = "idle"
    BY <2>1 DEF HolesInv
  <2>3. CASE Rx
    BY <2>1, <2>2, <2>3, HolesRx
  <2>4. CASE Flush
    BY <2>1, <2>4, HolesFlush
  <2>5. CASE Scan
    <3>1. UNCHANGED <<bdp_addr, bdp_max, rx>>
      BY <2>5 DEF Scan, ScanStart, ScanFlushed, ScanArp, ScanPoll, ScanRoundOver, ScanFail
    <3>2. flush' = flush \/ (flush.pc = "idle" /\ flush'.pc = "clear")
      BY <2>5 DEF Scan, ScanStart, ScanFlushed, ScanArp, ScanPoll, ScanRoundOver, ScanFail
    <3> QED BY <2>1, <3>1, <3>2 DEF HolesInv
  <2> QED BY <2>1, <2>3, <2>4, <2>5
<1> QED BY <1>1, <1>2, <1>3

(* The missing lock is the only cause of holes: as long as no update of the*)
(* table overlapped a flush, every number below bdp_max belongs to a device*)
(* once the flush is over, and no entry is written behind the table.       *)
THEOREM NoHolesCorrect == Spec => []NoHoles
<1>1. Init => HolesInv
  <2> SUFFICES ASSUME Init PROVE HolesInv
    OBVIOUS
  <2>1. BDP_MAX \in Slot
    BY ArpConstants DEF Slot
  <2> QED BY <2>1 DEF Init, HolesInv
<1>2. HolesInv => NoHoles
  BY DEF HolesInv, NoHoles
<1> QED BY <1>1, <1>2, TypeInit, TypeStep, HolesStep, PTL DEF Spec

(* Without a flush, the number of a device stays its number: what is added *)
(* goes behind the numbers clients hold.                                   *)
THEOREM NumbersStableCorrect == Spec => NumbersStable
<1>1. ASSUME TypeInv, TableInv, [Next]_vars
      PROVE  [flush.pc = "idle" /\ flush'.pc = "idle" =>
                \A i \in 0..bdp_max-1 : bdp_addr'[i] = bdp_addr[i]]_vars
  <2>1. SUFFICES ASSUME flush.pc = "idle", flush'.pc = "idle", Next,
                        NEW i \in 0..bdp_max-1
                 PROVE  bdp_addr'[i] = bdp_addr[i]
    BY <1>1
  <2>2. CASE ArpWrite
    <3>1. /\ rx \in RxType /\ bdp_max \in 0..BDP_MAX /\ BDP_MAX \in Nat \ {0}
          /\ bdp_addr \in [Slot -> Address]
      BY <1>1, ArpConstants DEF TypeInv, TypeOK, RxType
    <3>2. bdp_max \in {rx.i, 0} /\ bdp_addr' = [bdp_addr EXCEPT ![rx.i] = rx.a]
      BY <1>1, <2>2 DEF ArpWrite, TableInv, Window
    <3>3. i \in Slot /\ i # rx.i
      BY <3>1, <3>2 DEF Slot, RxType
    <3> QED BY <3>1, <3>2, <3>3
  <2>3. ~ArpWrite => bdp_addr' = bdp_addr
    <3>1. CASE Rx
      BY <3>1 DEF Rx, svsBdpArpTableUpdate, AnswerLost, ArpSearch, ArpLimit, ArpBus, ArpLoad, ArpStore
    <3>2. CASE Flush
      BY <2>1, <3>2 DEF Flush, FlushClear, FlushReset
    <3>3. CASE Scan
      BY <3>3 DEF Scan, ScanStart, ScanFlushed, ScanArp, ScanPoll, ScanRoundOver, ScanFail
    <3> QED BY <2>1, <3>1, <3>2, <3>3 DEF Next, Noted
  <2> QED BY <2>2, <2>3
<1>2. Spec => [](TypeInv /\ TableInv)
  BY TableCorrect
<1> QED BY <1>1, <1>2, PTL DEF Spec, NumbersStable

-----------------------------------------------------------------------------
(* The key readers' table and answers.                                     *)

KrScanType ==
    [pc : {"idle", "count", "ask", "sleep"}, old : 0..KR_MAX,
     max : 0..KR_MAX, cnt : 0..MaxKrScans]

(* What a client's descriptor may carry: while no older connection of it   *)
(* left a request behind, everything on its way to it was asked for there, *)
(* and nothing is on its way to one without a client.                      *)
Carried(f) ==
    /\ conn[f] = None => asked[f] = {}
    /\ \A k \in 1..Len(inq[f]) : inq[f][k].msg \in asked[f]
    /\ \A k \in 1..Len(line) : line[k].fd = f => line[k].msg \in asked[f]
    /\ \A k \in 1..Len(up) : up[k].fd = f => up[k].msg \in asked[f]
    /\ got[f] \subseteq asked[f]

AnswerInv == \A f \in Fds \ stale : Carried(f)

KrInv == Kr!TypeOK /\ AnswerInv

(* The assumptions on the constants.                                       *)
LEMMA KrBounds ==
    /\ KR_MAX \in Nat \ {0}
    /\ KR_NUM_ALL \in Nat
    /\ \A f \in Fds : f \in Nat /\ f # 0 /\ f # -1
    /\ None \notin Owners
    /\ ADDR_GET \in Msgs
    /\ MaxRequests \in Nat
    /\ MaxKrScans \in Nat
    /\ Broadcast \in Kr!Address /\ Loop \in Kr!Address /\ Readers \subseteq Kr!Address
<1>1. Kr!KrConstants
  BY ArpBounds
<1> QED BY <1>1 DEF Kr!KrConstants, Kr!Address

LEMMA KrInit == Kr!Init => KrInv
<1> SUFFICES ASSUME Kr!Init PROVE KrInv
  OBVIOUS
<1>1. Kr!TypeOK
  <2>1. table \in Seq(Kr!Address) /\ Len(table) <= KR_MAX
    BY KrBounds DEF Kr!Init, Kr!svsKrServerInit
  <2>2. /\ conn \in [Fds -> Owners \cup {None}] /\ asked \in [Fds -> SUBSET Msgs]
        /\ got \in [Fds -> SUBSET Msgs]
    BY DEF Kr!Init
  <2>3. inq \in [Fds -> Seq(Kr!Request)] /\ line \in Seq(Kr!Frame) /\ up \in Seq(Kr!Frame)
    BY DEF Kr!Init
  <2>4. krScan \in KrScanType /\ requests \in 0..MaxRequests
    BY KrBounds DEF Kr!Init, KrScanType
  <2> QED BY <2>1, <2>2, <2>3, <2>4 DEF Kr!Init, Kr!svsKrServerInit, Kr!TypeOK, KrScanType
<1>2. AnswerInv
  BY DEF Kr!Init, AnswerInv, Carried
<1> QED BY <1>1, <1>2 DEF KrInv

(* The head of a sequence and the rest of it.                              *)
LEMMA HeadTail ==
    ASSUME NEW S, NEW s \in Seq(S), s # <<>>
    PROVE  /\ Tail(s) \in Seq(S) /\ Len(s) \in Nat /\ 1 \in 1..Len(s)
           /\ Head(s) \in S /\ Head(s) = s[1]
           /\ \A k \in 1..Len(Tail(s)) : k + 1 \in 1..Len(s) /\ Tail(s)[k] = s[k + 1]
<1>1. /\ Head(s) \in S /\ Tail(s) \in Seq(S)
      /\ Len(Tail(s)) = Len(s) - 1
      /\ \A k \in 1 .. Len(Tail(s)) : Tail(s)[k] = s[k + 1]
  BY HeadTailProperties
<1>2. Len(s) \in Nat \ {0}
  BY EmptySeq
<1>3. Head(s) = s[1]
  OBVIOUS
<1> QED BY <1>1, <1>2, <1>3

(* What every element of a sequence and an appended one have, all have.    *)
LEMMA AppendedAll ==
    ASSUME NEW S, NEW s \in Seq(S), NEW e \in S
    PROVE  /\ Append(s, e) \in Seq(S)
           /\ \A k \in 1..Len(Append(s, e)) :
                 Append(s, e)[k] = e \/ (k \in 1..Len(s) /\ Append(s, e)[k] = s[k])
<1>1. /\ Append(s, e) \in Seq(S)
      /\ Len(Append(s, e)) = Len(s) + 1
      /\ \A i \in 1.. Len(s) : Append(s, e)[i] = s[i]
      /\ Append(s, e)[Len(s) + 1] = e
      /\ Len(s) \in Nat
  BY AppendProperties, LenProperties
<1>2. \A k \in 1..Len(s) + 1 : k = Len(s) + 1 \/ k \in 1..Len(s)
  BY <1>1
<1> QED BY <1>1, <1>2

(* One lemma per group of actions of KrServer.                             *)
LEMMA KrClients == ASSUME KrInv, Kr!Clients PROVE KrInv'
<1>t. /\ conn \in [Fds -> Owners \cup {None}] /\ asked \in [Fds -> SUBSET Msgs]
      /\ inq \in [Fds -> Seq(Kr!Request)] /\ got \in [Fds -> SUBSET Msgs] /\ stale \subseteq Fds
      /\ requests \in 0..MaxRequests
  BY DEF KrInv, Kr!TypeOK
<1>c. /\ None \notin Owners /\ KR_MAX \in Nat /\ KR_NUM_ALL \in Nat /\ MaxRequests \in Nat
  BY KrBounds
<1>1. ASSUME NEW o \in Owners, Kr!Connect(o) PROVE KrInv'
  <2>1. PICK f \in Fds :
          /\ conn[f] = None
          /\ conn' = [conn EXCEPT ![f] = o]
          /\ asked' = [asked EXCEPT ![f] = {}]
          /\ got' = [got EXCEPT ![f] = {}]
    BY <1>1 DEF Kr!Connect
  <2>2. UNCHANGED <<table, devFd, loopback, inq, line, up, called, stale, krScan, requests>>
    BY <1>1 DEF Kr!Connect
  <2>3. /\ conn' \in [Fds -> Owners \cup {None}] /\ asked' \in [Fds -> SUBSET Msgs]
        /\ got' \in [Fds -> SUBSET Msgs]
    BY <1>t, <2>1
  <2>4. Kr!TypeOK'
    BY <2>2, <2>3 DEF KrInv, Kr!TypeOK
  <2>5. ASSUME NEW g \in Fds \ stale' PROVE Carried(g)'
    <3>1. Carried(g)
      BY <2>2, <2>5 DEF KrInv, AnswerInv
    <3>2. CASE g = f
      <4>1. asked[g] = {} /\ asked'[g] = {} /\ got'[g] = {} /\ conn'[g] # None
        BY <1>c, <1>t, <2>1, <3>1, <3>2 DEF Carried
      <4> QED BY <2>2, <3>1, <4>1 DEF Carried
    <3>3. CASE g # f
      <4>1. asked'[g] = asked[g] /\ got'[g] = got[g] /\ conn'[g] = conn[g]
        BY <1>t, <2>1, <3>3
      <4> QED BY <2>2, <3>1, <4>1 DEF Carried
    <3> QED BY <3>2, <3>3
  <2> QED BY <2>4, <2>5 DEF KrInv, AnswerInv
<1>2. ASSUME NEW f \in Fds, Kr!Disconnect(f) PROVE KrInv'
  <2>1. /\ conn' = [conn EXCEPT ![f] = None]
        /\ inq' = [inq EXCEPT ![f] = <<>>]
        /\ stale' = IF asked[f] = {} THEN stale ELSE stale \cup {f}
        /\ UNCHANGED <<table, devFd, loopback, asked, line, up, got, called, krScan, requests>>
    BY <1>2 DEF Kr!Disconnect
  <2>2. /\ conn' \in [Fds -> Owners \cup {None}] /\ inq' \in [Fds -> Seq(Kr!Request)]
        /\ stale' \subseteq Fds
    BY <1>t, <2>1
  <2>3. Kr!TypeOK'
    BY <2>1, <2>2 DEF KrInv, Kr!TypeOK
  <2>4. ASSUME NEW g \in Fds \ stale' PROVE Carried(g)'
    <3>1. g \notin stale /\ Carried(g) /\ (g = f => asked[g] = {})
      BY <2>1, <2>4 DEF KrInv, AnswerInv
    <3>2. CASE g = f
      <4>1. asked'[g] = {} /\ inq'[g] = <<>>
        BY <1>t, <2>1, <3>1, <3>2
      <4> QED BY <2>1, <3>1, <4>1 DEF Carried
    <3>3. CASE g # f
      <4>1. inq'[g] = inq[g] /\ conn'[g] = conn[g]
        BY <1>t, <2>1, <3>3
      <4> QED BY <2>1, <3>1, <4>1 DEF Carried
    <3> QED BY <3>2, <3>3
  <2> QED BY <2>3, <2>4 DEF KrInv, AnswerInv
<1>3. ASSUME NEW f \in Fds, NEW m \in Msgs, NEW n \in 0..KR_MAX \cup {KR_NUM_ALL}, Kr!Ask(f, m, n)
      PROVE  KrInv'
  <2> DEFINE q == [msg |-> m, dev |-> n]
  <2>1. /\ conn[f] # None
        /\ asked' = [asked EXCEPT ![f] = @ \cup {m}]
        /\ inq' = [inq EXCEPT ![f] = Append(@, q)]
        /\ requests < MaxRequests /\ requests' = requests + 1
        /\ UNCHANGED <<table, devFd, loopback, conn, line, up, got, called, stale, krScan>>
    BY <1>3 DEF Kr!Ask
  <2>2. q \in Kr!Request /\ q.msg = m
    BY <1>c DEF Kr!Request
  <2> HIDE DEF q
  <2>3. asked'[f] = asked[f] \cup {m} /\ inq'[f] = Append(inq[f], q)
    BY <1>t, <2>1
  <2>4. /\ inq'[f] \in Seq(Kr!Request)
        /\ \A k \in 1..Len(inq'[f]) :
              inq'[f][k] = q \/ (k \in 1..Len(inq[f]) /\ inq'[f][k] = inq[f][k])
    <3>1. inq[f] \in Seq(Kr!Request)
      BY <1>t
    <3> DEFINE s == inq[f]
    <3>2. s \in Seq(Kr!Request)
      BY <3>1
    <3> HIDE DEF s
    <3>3. /\ Append(s, q) \in Seq(Kr!Request)
          /\ \A k \in 1..Len(Append(s, q)) :
                Append(s, q)[k] = q \/ (k \in 1..Len(s) /\ Append(s, q)[k] = s[k])
      BY <2>2, <3>2, AppendedAll
    <3> QED BY <2>3, <3>3 DEF s
  <2>5. asked' \in [Fds -> SUBSET Msgs]
    BY <1>t, <2>1
  <2>6. inq' \in [Fds -> Seq(Kr!Request)]
    <3>1. inq' = [inq EXCEPT ![f] = inq'[f]]
      BY <1>t, <2>1
    <3> QED BY <1>t, <2>4, <3>1
  <2>7. requests' \in 0..MaxRequests
    BY <1>c, <1>t, <2>1
  <2>8. Kr!TypeOK'
    BY <2>1, <2>5, <2>6, <2>7 DEF KrInv, Kr!TypeOK
  <2>9. ASSUME NEW g \in Fds \ stale' PROVE Carried(g)'
    <3>1. Carried(g)
      BY <2>1, <2>9 DEF KrInv, AnswerInv
    <3>2. CASE g = f
      <4>1. asked[g] \subseteq asked'[g] /\ m \in asked'[g] /\ conn'[g] # None
        BY <2>1, <2>3, <3>2
      <4>2. \A k \in 1..Len(inq'[g]) : inq'[g][k].msg \in asked'[g]
        BY <2>2, <2>4, <3>1, <3>2, <4>1 DEF Carried
      <4> QED BY <2>1, <3>1, <4>1, <4>2 DEF Carried
    <3>3. CASE g # f
      <4>1. inq'[g] = inq[g] /\ asked'[g] = asked[g]
        BY <1>t, <2>1, <3>3
      <4> QED BY <2>1, <3>1, <4>1 DEF Carried
    <3> QED BY <3>2, <3>3
  <2> QED BY <2>8, <2>9 DEF KrInv, AnswerInv
<1> QED BY <1>1, <1>2, <1>3 DEF Kr!Clients

LEMMA KrServerStep == ASSUME KrInv, Kr!Server PROVE KrInv'
<1>t. /\ conn \in [Fds -> Owners \cup {None}] /\ asked \in [Fds -> SUBSET Msgs]
      /\ inq \in [Fds -> Seq(Kr!Request)] /\ got \in [Fds -> SUBSET Msgs] /\ stale \subseteq Fds
      /\ line \in Seq(Kr!Frame) /\ up \in Seq(Kr!Frame) /\ called \in SUBSET Msgs
      /\ table \in Seq(Kr!Address) /\ Len(table) <= KR_MAX
  BY DEF KrInv, Kr!TypeOK
<1>1. ASSUME NEW f \in Fds, Kr!svsSocketClientKrHandler(f) PROVE KrInv'
  <2> DEFINE s == inq[f]
             r == Head(s)
             e == [addr |-> Kr!svsKrVirtualToPhysical(r.dev), fd |-> f,
                   msg |-> r.msg, fits |-> TRUE]
  <2>0. s \in Seq(Kr!Request) /\ s # <<>>
    BY <1>1, <1>t DEF Kr!svsSocketClientKrHandler
  <2>1. /\ inq' = [inq EXCEPT ![f] = Tail(@)]
        /\ UNCHANGED <<table, devFd, loopback, conn, asked, up, got, called, stale, krScan, requests>>
    BY <1>1 DEF Kr!svsSocketClientKrHandler
  <2>2. line' = line \/ (line' = Append(line, e) /\ ~(r.dev # KR_NUM_ALL /\ r.dev >= Len(table)))
    BY <1>1 DEF Kr!svsSocketClientKrHandler, Kr!svsKrTx, Kr!svsDevWrite, Kr!svsKrMaxGet
  <2> HIDE DEF s
  <2>3. /\ Tail(s) \in Seq(Kr!Request) /\ r \in Kr!Request /\ r = s[1] /\ 1 \in 1..Len(s)
        /\ \A k \in 1..Len(Tail(s)) : k + 1 \in 1..Len(s) /\ Tail(s)[k] = s[k + 1]
    BY <2>0, HeadTail
  <2>4. inq'[f] = Tail(s) /\ \A g \in Fds : g # f => inq'[g] = inq[g]
    BY <1>t, <2>1 DEF s
  <2>5. inq' \in [Fds -> Seq(Kr!Request)]
    <3>1. inq' = [inq EXCEPT ![f] = Tail(s)]
      BY <2>1 DEF s
    <3> QED BY <1>t, <2>3, <3>1
  <2>6. line' # line => e \in Kr!Frame
    <3> SUFFICES ASSUME line' # line PROVE e \in Kr!Frame
      OBVIOUS
    <3> DEFINE d == r.dev
    <3>1. d \in Nat /\ r.msg \in Msgs
      BY <2>3 DEF Kr!Request
    <3>2. ~(d # KR_NUM_ALL /\ d >= Len(table))
      BY <2>2
    <3> HIDE DEF d
    <3>3. Kr!svsKrVirtualToPhysical(d) \in Kr!Address
      <4>1. CASE d = KR_NUM_ALL
        BY <4>1, KrBounds DEF Kr!svsKrVirtualToPhysical
      <4>2. CASE d # KR_NUM_ALL
        <5>1. d + 1 \in 1..Len(table)
          BY <1>t, <3>1, <3>2, <4>2
        <5>2. table[d + 1] \in Kr!Address
          BY <1>t, <5>1, ElementOfSeq
        <5> QED BY <4>2, <5>2 DEF Kr!svsKrVirtualToPhysical
      <4> QED BY <4>1, <4>2
    <3>4. f \in Int
      BY KrBounds
    <3> DEFINE a == Kr!svsKrVirtualToPhysical(r.dev)
    <3>5. a \in Kr!Address
      BY <3>3 DEF d
    <3> HIDE DEF a
    <3>6. [addr |-> a, fd |-> f, msg |-> r.msg, fits |-> TRUE] \in Kr!Frame
      BY <3>1, <3>4, <3>5 DEF Kr!Frame
    <3> QED BY <3>6 DEF a
  <2>7. e.fd = f /\ e.msg = r.msg
    OBVIOUS
  <2> HIDE DEF e
  <2>8. /\ line' \in Seq(Kr!Frame)
        /\ \A k \in 1..Len(line') :
              (line' # line /\ line'[k] = e) \/ (k \in 1..Len(line) /\ line'[k] = line[k])
    <3>1. CASE line' = line
      BY <1>t, <3>1
    <3>2. CASE line' # line
      <4>1. line' = Append(line, e) /\ e \in Kr!Frame
        BY <2>2, <2>6, <3>2
      <4>2. /\ Append(line, e) \in Seq(Kr!Frame)
            /\ \A k \in 1..Len(Append(line, e)) :
                  Append(line, e)[k] = e \/ (k \in 1..Len(line) /\ Append(line, e)[k] = line[k])
        BY <1>t, <4>1, AppendedAll
      <4> QED BY <3>2, <4>1, <4>2
    <3> QED BY <3>1, <3>2
  <2>9. Kr!TypeOK'
    BY <2>1, <2>5, <2>8 DEF KrInv, Kr!TypeOK
  <2>10. ASSUME NEW g \in Fds \ stale' PROVE Carried(g)'
    <3>1. Carried(g)
      BY <2>1, <2>10 DEF KrInv, AnswerInv
    <3>2. \A k \in 1..Len(inq'[g]) : inq'[g][k].msg \in asked[g]
      <4>1. CASE g = f
        BY <2>3, <2>4, <3>1, <4>1 DEF Carried, s
      <4>2. CASE g # f
        BY <2>4, <3>1, <4>2 DEF Carried
      <4> QED BY <4>1, <4>2
    <3>3. g = f => r.msg \in asked[g]
      BY <2>3, <3>1 DEF Carried, s
    <3>4. \A k \in 1..Len(line') : line'[k].fd = g => line'[k].msg \in asked[g]
      BY <2>7, <2>8, <3>1, <3>3 DEF Carried
    <3> QED BY <2>1, <3>1, <3>2, <3>4 DEF Carried
  <2> QED BY <2>9, <2>10 DEF KrInv, AnswerInv
<1>2. CASE Kr!svsKrRx
  <2> DEFINE frame == Head(up)
             a == IF loopback /\ frame.addr = Broadcast THEN Loop ELSE frame.addr
  <2>1. /\ up # <<>> /\ up' = Tail(up)
        /\ UNCHANGED <<devFd, loopback, conn, asked, inq, line, stale, krScan, requests>>
        /\ table' = table \/ table' = Kr!svsKrArpTableUpdate(a)
        /\ (got' = got /\ called' = called) \/ Kr!Deliver(frame)
    BY <1>2 DEF Kr!svsKrRx
  <2>2. /\ up' \in Seq(Kr!Frame) /\ frame \in Kr!Frame /\ frame = up[1] /\ 1 \in 1..Len(up)
        /\ \A k \in 1..Len(up') : k + 1 \in 1..Len(up) /\ up'[k] = up[k + 1]
    BY <1>t, <2>1, HeadTail
  <2>3. a \in Kr!Address /\ frame.msg \in Msgs
    BY <2>2, KrBounds DEF Kr!Frame
  <2>4. table' \in Seq(Kr!Address) /\ Len(table') <= KR_MAX
    <3> HIDE DEF a
    <3>1. table' = table \/ (table' = Append(table, a) /\ Len(table) < KR_MAX)
      BY <2>1 DEF Kr!svsKrArpTableUpdate
    <3>2. CASE table' = table
      BY <1>t, <3>2
    <3>3. CASE table' = Append(table, a) /\ Len(table) < KR_MAX
      <4>1. Len(table') = Len(table) + 1 /\ Len(table) \in Nat /\ table' \in Seq(Kr!Address)
        BY <1>t, <2>3, <3>3, AppendProperties, LenProperties
      <4> QED BY <3>3, <4>1, KrBounds
    <3> QED BY <3>1, <3>2, <3>3
  <2> HIDE DEF frame, a
  <2>5. /\ called' \in SUBSET Msgs
        /\ got' \in [Fds -> SUBSET Msgs]
        /\ \A g \in Fds : got'[g] = got[g] \/ (g = frame.fd /\ got'[g] = got[g] \cup {frame.msg})
    <3>1. CASE got' = got /\ called' = called
      BY <1>t, <3>1
    <3>2. CASE Kr!Deliver(frame)
      <4>1. called' \in SUBSET Msgs
        BY <1>t, <2>3, <3>2 DEF Kr!Deliver
      <4>2. \/ got' = got
            \/ frame.fd \in Fds /\ got' = [got EXCEPT ![frame.fd] = @ \cup {frame.msg}]
        BY <3>2 DEF Kr!Deliver
      <4>3. CASE got' = got
        BY <1>t, <4>1, <4>3
      <4>4. CASE frame.fd \in Fds /\ got' = [got EXCEPT ![frame.fd] = @ \cup {frame.msg}]
        <5>1. got' \in [Fds -> SUBSET Msgs]
          BY <1>t, <2>3, <4>4
        <5>2. \A g \in Fds : got'[g] = got[g] \/ (g = frame.fd /\ got'[g] = got[g] \cup {frame.msg})
          BY <1>t, <4>4
        <5> QED BY <4>1, <5>1, <5>2
      <4> QED BY <4>2, <4>3, <4>4
    <3> QED BY <2>1, <3>1, <3>2
  <2>6. Kr!TypeOK'
    BY <2>1, <2>2, <2>4, <2>5 DEF KrInv, Kr!TypeOK
  <2>7. ASSUME NEW g \in Fds \ stale' PROVE Carried(g)'
    <3>1. Carried(g)
      BY <2>1, <2>7 DEF KrInv, AnswerInv
    <3>2. frame.fd = g => frame.msg \in asked[g]
      BY <2>2, <3>1 DEF Carried
    <3>3. got'[g] \subseteq asked[g]
      BY <2>5, <3>1, <3>2 DEF Carried
    <3>4. \A k \in 1..Len(up') : up'[k].fd = g => up'[k].msg \in asked[g]
      BY <2>2, <3>1 DEF Carried
    <3> QED BY <2>1, <3>1, <3>3, <3>4 DEF Carried
  <2> QED BY <2>6, <2>7 DEF KrInv, AnswerInv
<1> QED BY <1>1, <1>2 DEF Kr!Server

(* A frame that comes up is a client's request, or for no client.          *)
LEMMA KrUp ==
    ASSUME KrInv, NEW e \in Kr!Frame,
           e.fd \in Fds => \E k \in 1..Len(line) : e.fd = line[k].fd /\ e.msg = line[k].msg,
           up' = Append(up, e)
    PROVE  /\ up' \in Seq(Kr!Frame)
           /\ \A g \in Fds \ stale : \A k \in 1..Len(up') : up'[k].fd = g => up'[k].msg \in asked[g]
<1>1. up \in Seq(Kr!Frame)
  BY DEF KrInv, Kr!TypeOK
<1>2. /\ up' \in Seq(Kr!Frame)
      /\ \A k \in 1..Len(up') : up'[k] = e \/ (k \in 1..Len(up) /\ up'[k] = up[k])
  BY <1>1, AppendedAll
<1>3. ASSUME NEW g \in Fds \ stale, NEW k \in 1..Len(up'), up'[k].fd = g
      PROVE  up'[k].msg \in asked[g]
  <2>1. Carried(g)
    BY DEF KrInv, AnswerInv
  <2>2. CASE up'[k] = e
    <3>1. PICK l \in 1..Len(line) : e.fd = line[l].fd /\ e.msg = line[l].msg
      BY <1>3, <2>2
    <3> QED BY <1>3, <2>1, <2>2, <3>1 DEF Carried
  <2>3. CASE k \in 1..Len(up) /\ up'[k] = up[k]
    BY <1>3, <2>1, <2>3 DEF Carried
  <2> QED BY <1>2, <2>2, <2>3
<1> QED BY <1>2, <1>3

LEMMA KrLine == ASSUME KrInv, Kr!Line PROVE KrInv'
<1>t. /\ line \in Seq(Kr!Frame) /\ up \in Seq(Kr!Frame) /\ requests \in 0..MaxRequests
      /\ stale \subseteq Fds /\ MaxRequests \in Nat
  BY KrBounds DEF KrInv, Kr!TypeOK
<1>1. CASE Kr!ReaderAnswers
  <2> DEFINE r == Head(line)
  <2>1. /\ line # <<>> /\ line' = Tail(line)
        /\ UNCHANGED <<table, devFd, loopback, conn, asked, inq, got, called, stale, krScan, requests>>
    BY <1>1 DEF Kr!ReaderAnswers
  <2>2. \/ up' = up
        \/ up' = Append(up, r)
        \/ \E a \in Readers, ok \in BOOLEAN : up' = Append(up, [r EXCEPT !.addr = a, !.fits = ok])
    BY <1>1, Zenon DEF Kr!ReaderAnswers
  <2>3. /\ line' \in Seq(Kr!Frame) /\ r \in Kr!Frame /\ r = line[1] /\ 1 \in 1..Len(line)
        /\ \A k \in 1..Len(line') : k + 1 \in 1..Len(line) /\ line'[k] = line[k + 1]
    BY <1>t, <2>1, HeadTail
  <2> HIDE DEF r
  <2>4. /\ up' \in Seq(Kr!Frame)
        /\ \A g \in Fds \ stale : \A k \in 1..Len(up') : up'[k].fd = g => up'[k].msg \in asked[g]
    <3>1. CASE up' = up
      BY <1>t, <3>1 DEF KrInv, AnswerInv, Carried
    <3>2. CASE up' = Append(up, r)
      BY <2>3, <3>2, KrUp
    <3>3. ASSUME NEW a \in Readers, NEW ok \in BOOLEAN, up' = Append(up, [r EXCEPT !.addr = a, !.fits = ok])
          PROVE  /\ up' \in Seq(Kr!Frame)
                 /\ \A g \in Fds \ stale : \A k \in 1..Len(up') : up'[k].fd = g => up'[k].msg \in asked[g]
      <4> DEFINE e == [r EXCEPT !.addr = a, !.fits = ok]
      <4>1. e \in Kr!Frame /\ e.fd = r.fd /\ e.msg = r.msg
        BY <2>3, KrBounds DEF Kr!Frame
      <4>2. up' = Append(up, e)
        BY <3>3
      <4> HIDE DEF e
      <4> QED BY <2>3, <4>1, <4>2, KrUp
    <3> QED BY <2>2, <3>1, <3>2, <3>3
  <2>5. Kr!TypeOK'
    BY <2>1, <2>3, <2>4 DEF KrInv, Kr!TypeOK
  <2>6. ASSUME NEW g \in Fds \ stale' PROVE Carried(g)'
    <3>1. Carried(g) /\ g \in Fds \ stale
      BY <2>1, <2>6 DEF KrInv, AnswerInv
    <3>2. \A k \in 1..Len(line') : line'[k].fd = g => line'[k].msg \in asked[g]
      BY <2>3, <3>1 DEF Carried
    <3>3. \A k \in 1..Len(up') : up'[k].fd = g => up'[k].msg \in asked[g]
      BY <2>4, <3>1
    <3> QED BY <2>1, <3>1, <3>2, <3>3 DEF Carried
  <2> QED BY <2>5, <2>6 DEF KrInv, AnswerInv
<1>2. ASSUME NEW a \in Readers, NEW m \in Msgs, Kr!ReaderSpeaks(a, m) PROVE KrInv'
  <2> DEFINE e == [addr |-> a, fd |-> 0, msg |-> m, fits |-> TRUE]
  <2>1. /\ requests < MaxRequests /\ requests' = requests + 1
        /\ up' = Append(up, e)
        /\ UNCHANGED <<table, devFd, loopback, conn, asked, inq, line, got, called, stale, krScan>>
    BY <1>2 DEF Kr!ReaderSpeaks
  <2>2. e \in Kr!Frame /\ e.fd \notin Fds
    BY KrBounds DEF Kr!Frame
  <2> HIDE DEF e
  <2>3. /\ up' \in Seq(Kr!Frame)
        /\ \A g \in Fds \ stale : \A k \in 1..Len(up') : up'[k].fd = g => up'[k].msg \in asked[g]
    BY <2>1, <2>2, KrUp
  <2>4. requests' \in 0..MaxRequests
    BY <1>t, <2>1
  <2>5. Kr!TypeOK'
    BY <2>1, <2>3, <2>4 DEF KrInv, Kr!TypeOK
  <2>6. AnswerInv'
    BY <2>1, <2>3 DEF KrInv, AnswerInv, Carried
  <2> QED BY <2>5, <2>6 DEF KrInv
<1> QED BY <1>1, <1>2 DEF Kr!Line

LEMMA KrScanning == ASSUME KrInv, Kr!Scan PROVE KrInv'
<1>t. /\ krScan \in KrScanType /\ table \in Seq(Kr!Address) /\ Len(table) <= KR_MAX
      /\ requests \in 0..MaxRequests /\ MaxRequests \in Nat /\ MaxKrScans \in Nat /\ KR_MAX \in Nat
      /\ up \in Seq(Kr!Frame)
  BY KrBounds DEF KrInv, Kr!TypeOK, KrScanType
<1>1. UNCHANGED <<table, devFd, loopback, conn, asked, inq, line, got, called, stale>>
  BY DEF Kr!Scan, Kr!svsKrScan, Kr!svsKrAvailableGet, Kr!ScanAddressGet, Kr!ScanSlept
<1>2. krScan' \in KrScanType
  <2>1. CASE Kr!svsKrScan
    <3>1. krScan.cnt \in 0..MaxKrScans /\ krScan.cnt < MaxKrScans
          /\ krScan' = [pc |-> "count", old |-> 0, max |-> 0, cnt |-> krScan.cnt + 1]
      BY <1>t, <2>1 DEF Kr!svsKrScan, KrScanType
    <3>2. krScan.cnt + 1 \in 0..MaxKrScans /\ 0 \in 0..KR_MAX
      BY <1>t, <3>1
    <3> QED BY <3>1, <3>2 DEF KrScanType
  <2>2. CASE Kr!svsKrAvailableGet
    <3>1. Len(table) \in 0..KR_MAX
      BY <1>t
    <3> QED BY <1>t, <2>2, <3>1 DEF Kr!svsKrAvailableGet, Kr!svsKrMaxGet, KrScanType
  <2>3. CASE Kr!ScanAddressGet
    BY <1>t, <2>3 DEF Kr!ScanAddressGet, KrScanType
  <2>4. CASE Kr!ScanSlept
    BY <1>t, <2>4 DEF Kr!ScanSlept, Kr!ScanAgain, KrScanType
  <2> QED BY <2>1, <2>2, <2>3, <2>4 DEF Kr!Scan
<1>3. \/ up' = up /\ requests' = requests
      \/ /\ requests < MaxRequests /\ requests' = requests + 1
         /\ \E a \in Readers : up' = Append(up, [addr |-> a, fd |-> -1, msg |-> ADDR_GET, fits |-> TRUE])
  BY DEF Kr!Scan, Kr!svsKrScan, Kr!svsKrAvailableGet, Kr!ScanAddressGet, Kr!ScanSlept
<1>4. /\ up' \in Seq(Kr!Frame)
      /\ \A g \in Fds \ stale : \A k \in 1..Len(up') : up'[k].fd = g => up'[k].msg \in asked[g]
  <2>1. CASE up' = up
    BY <1>t, <2>1 DEF KrInv, AnswerInv, Carried
  <2>2. ASSUME NEW a \in Readers, up' = Append(up, [addr |-> a, fd |-> -1, msg |-> ADDR_GET, fits |-> TRUE])
        PROVE  /\ up' \in Seq(Kr!Frame)
               /\ \A g \in Fds \ stale : \A k \in 1..Len(up') : up'[k].fd = g => up'[k].msg \in asked[g]
    <3> DEFINE e == [addr |-> a, fd |-> -1, msg |-> ADDR_GET, fits |-> TRUE]
    <3>1. e \in Kr!Frame /\ e.fd \notin Fds /\ up' = Append(up, e)
      BY <2>2, KrBounds DEF Kr!Frame
    <3> HIDE DEF e
    <3> QED BY <3>1, KrUp
  <2> QED BY <1>3, <2>1, <2>2
<1>5. requests' \in 0..MaxRequests
  BY <1>t, <1>3
<1>6. Kr!TypeOK'
  BY <1>1, <1>2, <1>4, <1>5 DEF KrInv, Kr!TypeOK, KrScanType
<1>7. AnswerInv'
  BY <1>1, <1>4 DEF KrInv, AnswerInv, Carried
<1> QED BY <1>6, <1>7 DEF KrInv

LEMMA KrStep == KrInv /\ [SumNext]_allVars => KrInv'
<1> SUFFICES ASSUME KrInv, [SumNext]_allVars PROVE KrInv'
  OBVIOUS
<1>1. CASE UNCHANGED krVars
  <2>1. Kr!TypeOK'
    BY <1>1 DEF krVars, KrInv, Kr!TypeOK
  <2>2. AnswerInv'
    BY <1>1 DEF krVars, KrInv, AnswerInv, Carried
  <2> QED BY <2>1, <2>2 DEF KrInv
<1>2. CASE Kr!Next
  BY <1>2, KrClients, KrServerStep, KrLine, KrScanning DEF Kr!Next
<1> QED BY <1>1, <1>2 DEF SumNext, Bdping, Kring, allVars

LEMMA KrInvCorrect == SumSpec => []KrInv
<1>1. SumInit => KrInv
  BY KrInit DEF SumInit
<1> QED BY <1>1, KrStep, PTL DEF SumSpec

(* A client of the KR server gets only answers to what it asked for on its *)
(* connection, unless its descriptor had an owner before it who left a     *)
(* request behind: the number in a frame that svsKrRx looks at is then the *)
(* only thing that tells two clients apart.                                *)
THEOREM OwnAnswersCorrect == SumSpec => []OwnAnswers
<1>1. KrInv => OwnAnswers
  BY DEF KrInv, AnswerInv, Carried, OwnAnswers, Kr!OwnAnswers
<1> QED BY <1>1, KrInvCorrect, PTL

(* The numbers of devices keep naming the same devices: of a BDP until the *)
(* next flush, of the key readers for ever, whose table is never written   *)
(* behind its end.                                                         *)
THEOREM NumbersKeptCorrect == SumSpec => NumbersKept
<1>1. SumSpec => Spec
  <2>1. SumInit => Init
    BY DEF SumInit
  <2>2. [SumNext]_allVars => [Next]_vars
    BY DEF SumNext, Bdping, Kring, allVars
  <2> QED BY <2>1, <2>2, PTL DEF SumSpec, Spec
<1>2. ASSUME KrInv, [SumNext]_allVars
      PROVE  [Kr!IsPrefix(table, table') /\ Len(table') <= KR_MAX]_(Kr!vars)
  <2>1. table \in Seq(Kr!Address) /\ Len(table) <= KR_MAX
    BY <1>2 DEF KrInv, Kr!TypeOK
  <2>2. table' = table \/ \E a \in Kr!Address : table' = Append(table, a)
    <3>1. CASE UNCHANGED krVars
      BY <3>1 DEF krVars
    <3>2. CASE Kr!Clients
      BY <3>2 DEF Kr!Clients, Kr!Connect, Kr!Disconnect, Kr!Ask
    <3>3. ASSUME NEW f \in Fds, Kr!svsSocketClientKrHandler(f) PROVE table' = table
      BY <3>3 DEF Kr!svsSocketClientKrHandler
    <3>4. CASE Kr!svsKrRx
      <4> DEFINE frame == Head(up)
                 a == IF loopback /\ frame.addr = Broadcast THEN Loop ELSE frame.addr
      <4>1. up \in Seq(Kr!Frame) /\ up # <<>>
        BY <1>2, <3>4 DEF KrInv, Kr!TypeOK, Kr!svsKrRx
      <4>2. frame \in Kr!Frame
        BY <4>1, HeadTail
      <4>3. a \in Kr!Address
        BY <4>2, KrBounds DEF Kr!Frame
      <4>4. table' = table \/ table' = Kr!svsKrArpTableUpdate(a)
        BY <3>4 DEF Kr!svsKrRx
      <4> HIDE DEF a
      <4> QED BY <4>3, <4>4 DEF Kr!svsKrArpTableUpdate
    <3>5. CASE Kr!Line
      BY <3>5 DEF Kr!Line, Kr!ReaderAnswers, Kr!ReaderSpeaks
    <3>6. CASE Kr!Scan
      BY <3>6 DEF Kr!Scan, Kr!svsKrScan, Kr!svsKrAvailableGet, Kr!ScanAddressGet, Kr!ScanSlept
    <3> QED BY <1>2, <3>1, <3>2, <3>3, <3>4, <3>5, <3>6
            DEF SumNext, Bdping, Kring, allVars, Kr!Next, Kr!Server
  <2>3. Kr!IsPrefix(table, table')
    <3>1. CASE table' = table
      BY <2>1, <3>1 DEF Kr!IsPrefix
    <3>2. ASSUME NEW a \in Kr!Address, table' = Append(table, a)
          PROVE  Kr!IsPrefix(table, table')
      <4>1. Len(table') = Len(table) + 1 /\ Len(table) \in Nat
        BY <2>1, <3>2, AppendProperties
      <4>2. SubSeq(Append(table, a), 1, Len(table)) = SubSeq(table, 1, Len(table))
        BY <2>1, <4>1, PartKept
      <4> QED BY <3>2, <4>1, <4>2 DEF Kr!IsPrefix
    <3> QED BY <2>2, <3>1, <3>2
  <2>4. Len(table') <= KR_MAX
    BY <1>2, KrStep DEF KrInv, Kr!TypeOK
  <2> QED BY <2>3, <2>4
<1>3. SumSpec => Kr!TableKept
  BY <1>2, KrInvCorrect, PTL DEF SumSpec, Kr!TableKept
<1> QED BY <1>1, <1>3, NumbersStableCorrect, PTL DEF NumbersKept

=============================================================================
