-------------------------------- MODULE Pci --------------------------------
(***************************************************************************)
(* lib/devs/pci.c: the scan of the PCI bus at boot, and the tables of      *)
(* lib/devs/pci_dev_info.h that name what it finds.                        *)
(*                                                                         *)
(* A machine's configuration space gives a header for every function that  *)
(* answers.  A header has the fields the properties tell apart: the ids,   *)
(* the header's type and the fourth base address, which the disk driver    *)
(* reads; the other addresses and the interrupt lines are only stored.     *)
(***************************************************************************)
EXTENDS Integers, SequencesExt

CONSTANTS
    NULL,
    SLOTS,           \* the slots the scan looks at: 5
    FUNCS,           \* functions of a slot: 8
    MaxFails         \* bound on the allocations that fail

ASSUME PciAssumption == SLOTS \in Nat /\ FUNCS \in Nat \ {0} /\ MaxFails \in Nat

VARIABLES
    machine,         \* what is plugged in: machine.pci[<<slot, func>>] is a header or NULL
    boot,            \* the part main is initialising, or "booted", "halted" or "fault"
    at,              \* the loop indices i and j of pci_search_bus
    pci_devs,        \* lists of what pci_dev_get_info returned
    pci_tree,        \* the list pci_search_bus returns; NULL until it finds a device
    ide_ctlrs,
    fails            \* allocations that may still fail

pciVars == <<at, pci_devs, pci_tree, ide_ctlrs>>

-----------------------------------------------------------------------------
(* Port I/O on the configuration ports.  An address with its enable bit     *)
(* names a function; a function that is not there reads as all ones.       *)
outl(slot, func) == <<slot, func>>
inl(address) == IF address \in DOMAIN machine.pci THEN machine.pci[address] ELSE NULL
pci_config_read(slot, func) == inl(outl(slot, func))

(* The tables of names, by rows of theirs that tell the cases apart: a      *)
(* device listed twice, numbers listed twice, an empty description.        *)
VendorRow(v, short, long) == [vendor_id |-> v, vendor_short |-> short, vendor_long |-> long]
pci_vendor_ids == <<VendorRow(\h1106, "VIA", "VIA Technology"), VendorRow(\h11DE, "Zoran", "Zoran Corporation"),
                    VendorRow(\h8086, "vero", "Intel")>>
DevRow(v, n, name, desc) == [vendor_id |-> v, dev_id |-> n, name |-> name, desc |-> desc]
FirstDevs == <<DevRow(\h11DE, \h6057, "ZR36067", "AV PCI Controller"), DevRow(\h11DE, \h6057, "ZR36057PQC", "ZORAN PCI Bridge"),
               DevRow(\h11DE, \h9876, "", "")>>
IntelDevs == <<DevRow(\h8086, \h1237, "82440LX/EX", "PCI & Memory"), DevRow(\h8086, \h7000, "82371SB", "PIIX3 PCI-to-ISA Bridge (Triton II)"),
               DevRow(\h8086, \h7010, "82371SB", "PIIX3 IDE Interface (Triton II)"),
               DevRow(\h8086, \h7113, "82371AB/EB/MB", "PIIX4/4E/4M Power Management Controller")>>
ViaDevs == <<DevRow(\h1106, \h198, "", "CPU to PCI Bridge"), DevRow(\h1106, \h571, "VT82C686B/VT823x/A/C", "Bus Master IDE Controller")>>
pci_dev_ids == FirstDevs \o IntelDevs \o ViaDevs
ClassRow(c, s, p, class, subclass, prog_if) ==
    [class_id |-> c, subclass_id |-> s, prog_if |-> p, class_desc |-> class, subclass_desc |-> subclass, prog_if_desc |-> prog_if]
pci_class_ids == <<ClassRow(1, 0, 0, "Mass Storage Controller", "SCSI", ""), ClassRow(1, 1, 0, "Mass Storage Controller", "IDE", ""),
                   ClassRow(3, 0, 0, "Display Controller", "PC Compatible", "VGA"), ClassRow(3, 0, 1, "Display Controller", "PC Compatible", "8514"),
                   ClassRow(4, 0, 0, "Multimedia Device", "Video", ""),
                   ClassRow(6, 0, 0, "Bridge Device", "Host/PCI", ""), ClassRow(6, 1, 0, "Bridge Device", "PCI/ISA", ""),
                   ClassRow(7, 1, 0, "Simple Communications Controller", "Parallel", "Standard"),
                   ClassRow(7, 1, 0, "Simple Communications Controller", "Parallel", "Bidirectional")>>

(* pci_dev_lookup_ids: the last row of a vendor or device names it; the     *)
(* class and the subclass take the first description that is not empty, up *)
(* to the row that fits in all three numbers, where the search ends.       *)
NullStr == ""
LookupLast(table, Fits(_), field, none) ==
    FoldLeft(LAMBDA found, row: IF Fits(row) THEN row[field] ELSE found, none, table)
NoClass == [class |-> NullStr, subclass |-> NullStr, prog_if |-> NullStr, found |-> FALSE]
ClassStep(h, r, row) ==
    LET first(old, new) == IF old = NullStr THEN new ELSE old
        exact == row.subclass_id = h.subclass_id /\ row.prog_if = h.prog_if
    IN  IF r.found \/ row.class_id # h.class_id THEN r
        ELSE [class    |-> first(r.class, row.class_desc),
              subclass |-> IF row.subclass_id = h.subclass_id THEN first(r.subclass, row.subclass_desc) ELSE r.subclass,
              prog_if  |-> IF exact THEN row.prog_if_desc ELSE r.prog_if,
              found    |-> exact]
LookupClass(h) == FoldLeft(LAMBDA r, row: ClassStep(h, r, row), NoClass, pci_class_ids)
pci_dev_lookup_ids(h) ==
    [vendor |-> LookupLast(pci_vendor_ids, LAMBDA row: row.vendor_id = h.vendor_id, "vendor_long", NullStr),
     name   |-> LookupLast(pci_dev_ids, LAMBDA row: row.dev_id = h.dev_id /\ row.vendor_id = h.vendor_id, "name", NullStr),
     class  |-> LookupClass(h)]

(* The same search as lib/devs/pci_dev_info.c shows it, a sample that is not *)
(* compiled: the rows up to the first that fits in all three numbers; of    *)
(* those of the class, and of the subclass, the first description there is. *)
FirstIn(rows, field) ==
    LET given == SelectSeq(rows, LAMBDA row: row[field] # NullStr) IN IF given = <<>> THEN NullStr ELSE given[1][field]
GetPCIClass3(baseid, subid, progid) ==
    LET exact == SelectInSeq(pci_class_ids, LAMBDA row: <<row.class_id, row.subclass_id, row.prog_if>> = <<baseid, subid, progid>>)
        upto == IF exact = 0 THEN pci_class_ids ELSE SubSeq(pci_class_ids, 1, exact)
        base == SelectSeq(upto, LAMBDA row: row.class_id = baseid)
    IN  [class    |-> FirstIn(base, "class_desc"),
         subclass |-> FirstIn(SelectSeq(base, LAMBDA row: row.subclass_id = subid), "subclass_desc"),
         prog_if  |-> IF exact = 0 THEN NullStr ELSE pci_class_ids[exact].prog_if_desc,
         found    |-> exact # 0]
GetPCIClass1(classcode) ==
    GetPCIClass3((classcode \div 2^24) % 256, (classcode \div 2^16) % 256, (classcode \div 2^8) % 256)

(* pci_dev_get_info: the fields of a pci_dev_t.  Only a header of type 0    *)
(* has a fourth base address; for the others the field keeps the zero that *)
(* kmalloc put there.                                                      *)
pci_dev_t(slot, func, h) ==
    [slot |-> slot, func |-> func, vendor_id |-> h.vendor_id, dev_id |-> h.dev_id, class_id |-> h.class_id,
     subclass_id |-> h.subclass_id, prog_if |-> h.prog_if, header_type |-> h.header_type,
     bar4 |-> IF h.header_type = 0 THEN h.bar4 ELSE 0, desc |-> pci_dev_lookup_ids(h)]
pci_dev_get_info(slot, func) ==
    LET h == pci_config_read(slot, func) IN IF h = NULL THEN NULL ELSE pci_dev_t(slot, func, h)

\* pci_found_dev keeps the IDE controllers apart.  Bug in IsIdeAnyClass: the class is forgotten.
IsIdeAnyClass(dev) == dev.subclass_id = 1
IsIde(dev) == dev.class_id = 1 /\ dev.subclass_id = 1

-----------------------------------------------------------------------------
PciInit ==
    /\ at = <<0, 0>>
    /\ pci_devs = <<>> /\ pci_tree = NULL /\ ide_ctlrs = <<>>
    /\ fails = MaxFails

\* A step of the loops.  The first function of a slot that does not answer ends the slot.
NextFunc == IF at[2] + 1 < FUNCS THEN <<at[1], at[2] + 1>> ELSE <<at[1] + 1, 0>>
NextSlot == <<at[1] + 1, 0>>

PciAbsent ==
    /\ boot = "pci" /\ at[1] < SLOTS
    /\ pci_dev_get_info(at[1], at[2]) = NULL
    /\ at' = NextSlot
    /\ UNCHANGED <<boot, pci_devs, pci_tree, ide_ctlrs, fails>>

\* pci_found_dev and the list of the bus: list_add may find no memory, which nobody looks at.  Nor does
\* anyone look at the list's own allocation: without it the list is made at address 0, which is mapped
\* (mem.c:186) and not used, and the next device gets a new one.
Added(list, dev, ok) == IF ok THEN Append(list, dev) ELSE list
PciFound ==
    /\ boot = "pci" /\ at[1] < SLOTS
    /\ LET dev == pci_dev_get_info(at[1], at[2])
       IN  /\ dev # NULL
           /\ \E lost \in SUBSET {"devs", "ide", "head", "tree"} :
                /\ Cardinality(lost) <= fails
                /\ ("ide" \in lost) => IsIde(dev)
                /\ ("head" \in lost) => pci_tree = NULL
                /\ pci_devs' = Added(pci_devs, dev, "devs" \notin lost)
                /\ ide_ctlrs' = Added(ide_ctlrs, dev, IsIde(dev) /\ "ide" \notin lost)
                /\ pci_tree' = IF "head" \in lost THEN NULL
                               ELSE Added(IF pci_tree = NULL THEN <<>> ELSE pci_tree, dev, "tree" \notin lost)
                /\ fails' = fails - Cardinality(lost)
    /\ at' = NextFunc
    /\ UNCHANGED boot

\* MALLOC_PANIC in pci_dev_get_info: PANIC halts, with interrupts still off.
PciPanics ==
    /\ boot = "pci" /\ at[1] < SLOTS /\ fails > 0
    /\ pci_dev_get_info(at[1], at[2]) # NULL
    /\ boot' = "halted" /\ fails' = fails - 1
    /\ UNCHANGED pciVars

\* pci_init copies the list the scan returned.  If there is none that is what lies at address 0; nothing
\* reads pci_tree.
PciDone ==
    /\ boot = "pci" /\ at[1] = SLOTS
    /\ boot' = "ata"
    /\ UNCHANGED <<pciVars, fails>>

PciNext == (PciAbsent \/ PciFound \/ PciPanics \/ PciDone) /\ UNCHANGED machine

-----------------------------------------------------------------------------
\* Which functions the scan is to find: those in its slots with no gap before them.
Reached(slot, func) == \A g \in 0 .. func : inl(<<slot, g>>) # NULL
Reachable == {l \in (0 .. SLOTS - 1) \X (0 .. FUNCS - 1) : Reached(l[1], l[2])}

\* The order of the bus.
Before(l, m) == l[1] < m[1] \/ (l[1] = m[1] /\ l[2] < m[2])
Place(dev) == <<dev.slot, dev.func>>
InBusOrder(devs) == \A k, m \in DOMAIN devs : k < m => Before(Place(devs[k]), Place(devs[m]))

Listed(devs) == {devs[k] : k \in DOMAIN devs}
FunctionsFound ==
    boot \in {"ata", "thr", "vfs", "booted"} /\ fails = MaxFails =>
        /\ InBusOrder(pci_devs) /\ {Place(dev) : dev \in Listed(pci_devs)} = Reachable
        /\ InBusOrder(ide_ctlrs)
        /\ Listed(ide_ctlrs) = {dev \in Listed(pci_devs) : <<dev.class_id, dev.subclass_id>> = <<1, 1>>}
        /\ pci_tree = IF pci_devs = <<>> THEN NULL ELSE pci_devs
        /\ \A dev \in Listed(pci_devs) : dev.bar4 \in {0, inl(Place(dev)).bar4}

RightlyDescribed(dev) ==
    LET Named(j) == <<pci_dev_ids[j].vendor_id, pci_dev_ids[j].dev_id>> = <<dev.vendor_id, dev.dev_id>>
        LastNamed(j) == Named(j) /\ \A m \in j + 1 .. Len(pci_dev_ids) : ~Named(m)
    IN  /\ dev.desc.class = GetPCIClass1((((dev.class_id * 256) + dev.subclass_id) * 256 + dev.prog_if) * 256)
        /\ \A j \in DOMAIN pci_dev_ids : LastNamed(j) => dev.desc.name = pci_dev_ids[j].name
Described == \A dev \in Listed(pci_devs) : RightlyDescribed(dev)

(* After a scan in which no allocation failed the list of devices has the   *)
(* functions of the slots the scan looks at, the first five of 32           *)
(* (pci.c:51), up to the first gap of each slot, once and in the order of   *)
(* the bus; the list of IDE controllers has those of class 1 and subclass 1 *)
(* in that order.  And no listed device has the name of another, or another *)
(* description than the sample of pci_dev_info.c finds (pci.c:46-261).      *)
BusScanned == FunctionsFound /\ Described
=============================================================================
