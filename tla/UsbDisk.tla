------------------------------- MODULE UsbDisk -------------------------------
(***************************************************************************)
(* USB disks with an upgrade package: process_netlink_uevent_message,      *)
(* isMountComplete and isSoftwareUpdatePackagePresent (upgrade/netlink.c). *)
(*                                                                         *)
(* The kernel (external) reports a disk and then its partition, and takes  *)
(* them back in the opposite order.  Reports wait in the socket until the  *)
(* upgrade manager comes to them, so that a disk may be gone by then.  A   *)
(* device is [disk, part]; part is FALSE for the whole disk.  Only the     *)
(* reports of block devices are there.                                     *)
(***************************************************************************)
EXTENDS Naturals, Sequences

CONSTANTS
  Disks,
  NoDevice,
  MaxPlugs  \* bound on the disks plugged in

DiskConstants == MaxPlugs \in Nat

VARIABLES
  disk,      \* of each disk: "out", "in" or, with its partition, "ready"
  packages,  \* disks with an upgrade package on them
  reports,   \* reports not read yet
  szDiskName,
  bDiskDeviceAttached,
  bDiskDeviceMounted,
  mounts,    \* partitions mounted on SWUPDATE_MOUNT_POINT, each at most once
  there,     \* devices that are there according to the reports read
  plugs,     \* number of disks plugged in so far
  performed  \* disks performUpdate has been called for since they were plugged in

manager == <<szDiskName, bDiskDeviceAttached, bDiskDeviceMounted, there>>
vars == <<disk, packages, reports, manager, mounts, plugs, performed>>

Device(d, p) == [disk |-> d, part |-> p]
Devices == [disk : Disks, part : BOOLEAN]
Report(a, dev) == [action |-> a, device |-> dev]

Init ==
  /\ disk = [d \in Disks |-> "out"] /\ packages = {} /\ reports = <<>>
  /\ szDiskName = NoDevice /\ bDiskDeviceAttached = FALSE /\ bDiskDeviceMounted = FALSE
  /\ mounts = {} /\ there = {} /\ plugs = 0 /\ performed = {}

----------------------------------------------------------------------------
(* The kernel (external)                                                   *)

Plug(d) ==
  /\ disk[d] = "out" /\ plugs < MaxPlugs
  /\ plugs' = plugs + 1 /\ disk' = [disk EXCEPT ![d] = "in"]
  /\ packages' \in {packages \cup {d}, packages \ {d}} /\ performed' = performed \ {d}
  /\ reports' = Append(reports, Report("add", Device(d, FALSE)))
  /\ UNCHANGED <<manager, mounts>>

PlugPartition(d) ==
  /\ disk[d] = "in" /\ disk' = [disk EXCEPT ![d] = "ready"]
  /\ reports' = Append(reports, Report("add", Device(d, TRUE)))
  /\ UNCHANGED <<packages, manager, mounts, plugs, performed>>

\* what was mounted stays mounted
Unplug(d) ==
  /\ disk[d] # "out" /\ disk' = [disk EXCEPT ![d] = "out"]
  /\ LET whole == Report("remove", Device(d, FALSE)) IN
     reports' = reports \o (IF disk[d] = "ready"
                            THEN <<Report("remove", Device(d, TRUE)), whole>> ELSE <<whole>>)
  /\ UNCHANGED <<packages, manager, mounts, plugs, performed>>

----------------------------------------------------------------------------
(* process_netlink_uevent_message                                          *)

Without(dev) == mounts \ {dev}

Read(action, part) ==
  /\ reports # <<>> /\ reports' = Tail(reports)
  /\ Head(reports).action = action /\ Head(reports).device.part = part
This == Head(reports).device

\* the name of the last device added, whatever it is
addDisk ==
  /\ Read("add", FALSE)
  /\ szDiskName' = This /\ there' = there \cup {This}
  /\ UNCHANGED <<disk, packages, bDiskDeviceAttached, bDiskDeviceMounted, mounts, plugs, performed>>

\* mount, or unmount and mount again, and look in /proc/mounts; either may fail
MountOutcomes(dev) ==
  {Without(dev)} \cup (IF disk[dev.disk] = "ready" THEN {mounts \cup {dev}} ELSE {})

\* a partition that cannot be mounted, or comes while another one is attached, is not looked
\* at; in the second case it stays mounted
addPartition ==
  /\ Read("add", TRUE)
  /\ szDiskName' = This /\ there' = there \cup {This}
  /\ bDiskDeviceAttached' = TRUE
  /\ \E m \in MountOutcomes(This) :
       LET mounted == This \in m
           looked == mounted /\ ~bDiskDeviceAttached IN
       /\ bDiskDeviceMounted' = (mounted /\ ~looked)
       /\ mounts' \in (IF looked THEN {m, Without(This)} ELSE {m})
       /\ performed' = performed \cup (IF looked THEN {This.disk} \cap packages ELSE {})
  /\ UNCHANGED <<disk, packages, plugs>>

\* mutant: only a partition is taken for the device that was attached
removePartitionOnly ==
  /\ \E p \in BOOLEAN : Read("remove", p)
  /\ there' = there \ {This}
  /\ IF bDiskDeviceAttached /\ This = szDiskName /\ This.part
     THEN /\ mounts' \in {mounts, Without(This)}
          /\ bDiskDeviceAttached' = FALSE /\ bDiskDeviceMounted' = FALSE
     ELSE UNCHANGED <<mounts, bDiskDeviceAttached, bDiskDeviceMounted>>
  /\ UNCHANGED <<disk, packages, szDiskName, plugs, performed>>

\* the device attached before, or another one of its name
removeDevice ==
  /\ \E p \in BOOLEAN : Read("remove", p)
  /\ there' = there \ {This}
  /\ IF bDiskDeviceAttached /\ This = szDiskName
     THEN /\ mounts' \in {mounts, Without(This)}
          /\ bDiskDeviceAttached' = FALSE /\ bDiskDeviceMounted' = FALSE
     ELSE UNCHANGED <<mounts, bDiskDeviceAttached, bDiskDeviceMounted>>
  /\ UNCHANGED <<disk, packages, szDiskName, plugs, performed>>

----------------------------------------------------------------------------

Next ==
  \/ addDisk \/ addPartition \/ removeDevice
  \/ \E d \in Disks : Plug(d) \/ PlugPartition(d) \/ Unplug(d)

Spec == Init /\ [][Next]_vars

----------------------------------------------------------------------------

TypeOK ==
  /\ disk \in [Disks -> {"out", "in", "ready"}] /\ packages \subseteq Disks
  /\ reports \in Seq([action : {"add", "remove"}, device : Devices])
  /\ szDiskName \in Devices \cup {NoDevice} /\ there \subseteq Devices
  /\ bDiskDeviceAttached \in BOOLEAN /\ bDiskDeviceMounted \in BOOLEAN
  /\ mounts \subseteq Devices /\ plugs \in 0..MaxPlugs /\ performed \subseteq Disks

\* While the manager takes a disk for attached, and so looks at no other, the device it waits
\* to be removed has not been removed yet, although every device added takes the place of
\* the one before: so that once all disks are out the next one is looked at again.  A
\* partition it believes mounted is mounted.
AttachedSound ==
  /\ bDiskDeviceAttached => szDiskName \in there
  /\ bDiskDeviceMounted => bDiskDeviceAttached /\ mounts # {}

=============================================================================
