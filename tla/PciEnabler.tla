---------------------------- MODULE PciEnabler ----------------------------
(***************************************************************************)
(* pci_enabler as a ledger of what it holds of each device.  A probe may   *)
(* fail at each of its four calls; it then releases the regions and        *)
(* disables the device, whether it had obtained them or not.  Nothing      *)
(* undoes a mapping.  Probes of different devices interleave, and somebody *)
(* else may claim a device's addresses.  The PCI core is modelled by what  *)
(* its calls do: releasing a region does not ask whose it is, the enable   *)
(* count may fall below zero, and the device is switched off only when the *)
(* count comes down to zero.  board_idx and pcidev are never used.         *)
(***************************************************************************)
EXTENDS Integers

CONSTANTS
    Devices,     \* the boards with the driver's PCI id
    MaxProbes    \* bound on the probes of a device

ASSUME PciAssumption == MaxProbes \in Nat

VARIABLES
    registered,  \* is the driver registered?
    probe,       \* each device: "unbound", "enabled", "claimed", "mmio0" or "bound"
    probed,      \* how often it was probed
    enable_cnt,  \* its enable count
    on,          \* is the device switched on?
    regions,     \* who owns its addresses: "free", "ours" or "other"
    other,       \* does somebody else believe to own them?
    mmio,        \* its mappings, none of which is ever undone
    refused,     \* history: how many of its probes failed in pci_enable_device
    robbed       \* history: did this driver release what somebody else owned?

pciVars == <<registered, probe, probed, enable_cnt, on, regions, other, mmio, refused, robbed>>

PciInit ==
    /\ registered = FALSE
    /\ probe = [d \in Devices |-> "unbound"]
    /\ probed = [d \in Devices |-> 0]
    /\ enable_cnt = [d \in Devices |-> 0]
    /\ on = [d \in Devices |-> FALSE]
    /\ regions = [d \in Devices |-> "free"]
    /\ other = [d \in Devices |-> FALSE]
    /\ mmio = [d \in Devices |-> 0]
    /\ refused = [d \in Devices |-> 0]
    /\ robbed = [d \in Devices |-> FALSE]

pci_register_driver ==
    /\ ~registered
    /\ registered' = TRUE
    /\ UNCHANGED <<probe, probed, enable_cnt, on, regions, other, mmio, refused, robbed>>

-----------------------------------------------------------------------------
(* Faulty variant: the regions are released and the device stays enabled. *)
GiveBackRegions(D) ==
    /\ regions' = [d \in Devices |-> IF d \in D THEN "free" ELSE regions[d]]
    /\ probe' = [d \in Devices |-> IF d \in D THEN "unbound" ELSE probe[d]]
    /\ UNCHANGED <<enable_cnt, on, robbed>>

(* pci_release_regions and pci_disable_device for the devices in D, at the *)
(* label err_out and in pci_enabler_remove_one                             *)
GiveBack(D) ==
    /\ regions' = [d \in Devices |-> IF d \in D THEN "free" ELSE regions[d]]
    /\ robbed' = [d \in Devices |-> robbed[d] \/ (d \in D /\ regions[d] = "other")]
    /\ enable_cnt' = [d \in Devices |-> IF d \in D THEN enable_cnt[d] - 1 ELSE enable_cnt[d]]
    /\ on' = [d \in Devices |-> on[d] /\ ~(d \in D /\ enable_cnt[d] = 1)]
    /\ probe' = [d \in Devices |-> IF d \in D THEN "unbound" ELSE probe[d]]

EnableDevice(d) ==
    /\ registered /\ probe[d] = "unbound" /\ probed[d] < MaxProbes
    /\ probed' = [probed EXCEPT ![d] = @ + 1]
    /\ probe' = [probe EXCEPT ![d] = "enabled"]
    /\ enable_cnt' = [enable_cnt EXCEPT ![d] = @ + 1]
    /\ on' = [on EXCEPT ![d] = TRUE]
    /\ UNCHANGED <<registered, regions, other, mmio, refused, robbed>>

(* pci_enable_device fails: it has put its count back itself *)
EnableFails(d) ==
    /\ registered /\ probe[d] = "unbound" /\ probed[d] < MaxProbes
    /\ probed' = [probed EXCEPT ![d] = @ + 1]
    /\ refused' = [refused EXCEPT ![d] = @ + 1]
    /\ GiveBack({d})
    /\ UNCHANGED <<registered, other, mmio>>

(* and pci_set_master *)
RequestRegions(d) ==
    /\ probe[d] = "enabled" /\ regions[d] = "free"
    /\ regions' = [regions EXCEPT ![d] = "ours"]
    /\ probe' = [probe EXCEPT ![d] = "claimed"]
    /\ UNCHANGED <<registered, probed, enable_cnt, on, other, mmio, refused, robbed>>

(* Somebody else has them, or the kernel has no memory. *)
RequestFails(d) ==
    /\ probe[d] = "enabled"
    /\ GiveBack({d})
    /\ UNCHANGED <<registered, probed, other, mmio, refused>>

(* ioremap of BAR 0, then ioremap_wc of BAR 2 *)
Ioremap(d) ==
    /\ probe[d] \in {"claimed", "mmio0"}
    /\ mmio' = [mmio EXCEPT ![d] = @ + 1]
    /\ probe' = [probe EXCEPT ![d] = IF @ = "claimed" THEN "mmio0" ELSE "bound"]
    /\ UNCHANGED <<registered, probed, enable_cnt, on, regions, other, refused, robbed>>

IoremapFails(d) ==
    /\ probe[d] \in {"claimed", "mmio0"}
    /\ GiveBack({d})
    /\ UNCHANGED <<registered, probed, other, mmio, refused>>

(* pci_enabler_remove_one: the device is unplugged or unbound *)
remove_one(d) ==
    /\ probe[d] = "bound"
    /\ GiveBack({d})
    /\ UNCHANGED <<registered, probed, other, mmio, refused>>

(* pci_unregister_driver removes every bound device; probes are over *)
pci_unregister_driver ==
    /\ registered /\ \A d \in Devices : probe[d] \in {"unbound", "bound"}
    /\ registered' = FALSE
    /\ GiveBack({d \in Devices : probe[d] = "bound"})
    /\ UNCHANGED <<probed, other, mmio, refused>>

(* Somebody else takes the addresses, or gives back what he believes is his *)
OtherClaims(d) ==
    /\ ~other[d] /\ regions[d] = "free"
    /\ other' = [other EXCEPT ![d] = TRUE]
    /\ regions' = [regions EXCEPT ![d] = "other"]
    /\ UNCHANGED <<registered, probe, probed, enable_cnt, on, mmio, refused, robbed>>

OtherReleases(d) ==
    /\ other[d]
    /\ other' = [other EXCEPT ![d] = FALSE]
    /\ regions' = [regions EXCEPT ![d] = "free"]
    /\ UNCHANGED <<registered, probe, probed, enable_cnt, on, mmio, refused, robbed>>

PciNext ==
    \/ pci_register_driver \/ pci_unregister_driver
    \/ \E d \in Devices :
          \/ EnableDevice(d) \/ EnableFails(d) \/ RequestRegions(d) \/ RequestFails(d)
          \/ Ioremap(d) \/ IoremapFails(d) \/ remove_one(d)
          \/ OtherClaims(d) \/ OtherReleases(d)

PciSpec == PciInit /\ [][PciNext]_pciVars

-----------------------------------------------------------------------------
Uses(d) == IF probe[d] = "unbound" THEN 0 ELSE 1

(* The books of pci_enabler balance but for its error path: the enable     *)
(* count is what is in use minus the probes that failed in                 *)
(* pci_enable_device, and only such a probe can leave a device on that     *)
(* nobody uses.  A bound device is switched on and mapped, and its         *)
(* addresses are the driver's unless it once released somebody else's; an  *)
(* unbound one holds none.                                                 *)
PciLedger ==
    \A d \in Devices :
        /\ enable_cnt[d] = Uses(d) - refused[d]
        /\ (probe[d] = "unbound" /\ on[d]) => refused[d] > 0
        /\ probe[d] = "unbound" => regions[d] # "ours"
        /\ probe[d] = "bound" => on[d] /\ mmio[d] >= 2 /\ (regions[d] = "ours" \/ robbed[d])
        /\ ~robbed[d] => (other[d] <=> regions[d] = "other")
=============================================================================
