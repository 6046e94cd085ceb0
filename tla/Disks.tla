------------------------------- MODULE Disks -------------------------------
(***************************************************************************)
(* main, from its first call to its last before it lets interrupts in: the *)
(* order in which the parts are initialised, the scan of the bus, the      *)
(* search for disks and partitions that uses what the scan found, and the  *)
(* RAM disk that becomes the root.                                         *)
(***************************************************************************)
EXTENDS Ata

CONSTANTS
    Machines,      \* what may be plugged in
    WORD

\* The register with the address of an IDE controller's bus master.  Its bits from the fourth on are the
\* address, of a block of 16 ports, or 0 if it was given none; a register for ports has bit 0 set even then.
IdeAddress(m, l) == IF m.pci[l] # NULL /\ IsIde(m.pci[l]) /\ m.pci[l].header_type = 0 THEN m.pci[l].bar4 ELSE 0
\* What the bus of a machine has.
BusPlaces(m) == {l \in DOMAIN m.pci : l \in Nat \X Nat /\ m.pci[l] # NULL}
BusDevs(m) == {pci_dev_t(l[1], l[2], m.pci[l]) : l \in BusPlaces(m)}
\* The partition table of a device.
Own(x) == Table([from |-> x, lba |-> 0])
ASSUME DisksAssumption ==
    /\ WORD \in Nat \ {0} /\ NULL \notin Nat
    /\ \A x \in Index \X Devs : \A n \in 1 .. 4 : Partition(Own(x)[n]) # NULL
    /\ \A m \in Machines : NULL \notin BusDevs(m) /\ NULL \notin Seq(BusDevs(m))
    /\ \A m \in Machines : \A l \in DOMAIN m.pci :
          /\ IdeAddress(m, l) \in Nat
          /\ \A o \in DOMAIN m.pci \ {l} :
                IdeAddress(m, l) \div 16 # 0 => IdeAddress(m, l) \div 16 # IdeAddress(m, o) \div 16

INSTANCE Ramdisk

VARIABLES hal_ids, hal_block_devs, root_fs
halVars == <<hal_ids, hal_block_devs, root_fs>>
vars == <<machine, boot, fails, pciVars, ataVars, halVars>>

(* What main initialises, in this order, and what each part is used by: to  *)
(* print, main and all others need the screen; descriptors of gates go     *)
(* into the table idt_init clears; a handler is set in irq_init's table;   *)
(* memory comes from the heap of mem_init; the disks' bus masters are on   *)
(* the list pci_init makes; and the first interrupt, when main lets it in, *)
(* is the timer's, whose handler switches from one thread to another.      *)
PhasesThrEarly == <<"scrn", "gdt", "idt", "isr", "irq", "syscall", "thr", "mem", "time", "kb", "pci", "ata", "vfs", "booted">>
Phases == <<"scrn", "gdt", "idt", "isr", "irq", "syscall", "mem", "time", "kb", "pci", "ata", "thr", "vfs", "booted">>
Uses == [isr |-> {"gdt", "idt"}, irq |-> {"gdt", "idt"}, syscall |-> {"gdt", "idt"}, mem |-> {}, time |-> {"irq"}, kb |-> {"irq"},
         scrn |-> {}, gdt |-> {}, idt |-> {}, pci |-> {"mem"}, ata |-> {"irq", "mem", "pci"}, thr |-> {"gdt", "mem"},
         vfs |-> {"mem"}, booted |-> {"isr", "irq", "syscall", "time", "kb", "thr"}]
Position(phase) == CHOOSE k \in DOMAIN Phases : Phases[k] = phase
Initialised(k) == {Phases[n] : n \in 1 .. k - 1} \cup {"none"}
Usable(k) == Uses[Phases[k]] \subseteq Initialised(k) /\ (k > 1 => "scrn" \in Initialised(k))
\* After a phase comes the next, which finds what it uses, or faults.
After(phase) == LET k == Position(phase) + 1 IN IF Usable(k) THEN Phases[k] ELSE "fault"

\* Nothing calls hal_init; its lists are empty because they are static.
DisksInit ==
    /\ machine \in Machines
    /\ boot = Phases[1]
    /\ PciInit /\ AtaInit
    /\ hal_ids = idlist_new /\ hal_block_devs = <<>> /\ root_fs = NULL

\* The parts that only fill tables of their own, and those that may find no memory and panic.
Tables == {"scrn", "gdt", "idt", "isr", "irq", "syscall", "time", "kb"}
InitTables ==
    /\ boot \in Tables
    /\ boot' = After(boot)
    /\ UNCHANGED fails
InitMemory ==
    /\ boot \in {"mem", "thr"}
    /\ \/ boot' = After(boot) /\ UNCHANGED fails
       \/ boot' = "halted" /\ fails > 0 /\ fails' = fails - 1

AtaNext ==
    \/ AtaPanics \/ CtlrAbsent \/ CtlrNew \/ AllFound \/ DevProbe
    \/ ResetStart \/ ResetRelease \/ ResetDone
    \/ ata_ctlr_wait_bsy \/ ata_ctlr_wait_not_bsy \/ ata_ctlr_wait_rdy \/ ata_ctlr_wait_drq
    \/ Identify \/ Identified \/ NotIdentified
    \/ ata_pio_lba28_read \/ FindParts \/ ReadFailed
    \/ NoDevs \/ SomeDevs \/ PrdtRejected \/ PrdtTriesOut \/ PrdtMade

\* vfs_init: the RAM disk, whose identifier may fail unnoticed, or a panic.
INITRD_SIZE == 2
Initrd(id) == ramdisk_new(hal_ids, 0, INITRD_SIZE, TRUE, id)
VfsInit ==
    /\ boot = "vfs"
    /\ \E id \in {TRUE} \cup (IF fails > 0 THEN {FALSE} ELSE {}) :
          LET made == Initrd(id)
          IN  /\ hal_ids' = made.ids
              /\ hal_block_devs' = Append(hal_block_devs, made.dev)
              /\ root_fs' = [dev |-> made.dev]
              /\ fails' = IF id THEN fails ELSE fails - 1
    /\ boot' = After("vfs")
VfsPanics ==
    /\ boot = "vfs" /\ fails > 0
    /\ \E list \in BOOLEAN : hal_ids' = IF list THEN Initrd(TRUE).ids ELSE hal_ids
    /\ fails' = fails - 1
    /\ boot' = "halted"
    /\ UNCHANGED <<hal_block_devs, root_fs>>

DisksNext ==
    \/ (InitTables \/ InitMemory) /\ UNCHANGED <<machine, pciVars, ataVars, halVars>>
    \/ PciNext /\ UNCHANGED <<ataVars, halVars>>
    \/ AtaNext /\ UNCHANGED <<machine, halVars>>
    \/ (VfsInit \/ VfsPanics) /\ UNCHANGED <<machine, pciVars, ataVars>>

\* Only the boot processor runs, with interrupts off: it takes its next instruction.
DisksSpec == DisksInit /\ [][DisksNext]_vars /\ WF_vars(DisksNext)

-----------------------------------------------------------------------------
DevOf(x) == ctlrs[x[1]].devs[x[2]]
Found == {x \in Index \X Devs : ctlrs[x[1]] # NULL /\ DevOf(x) # NULL}

\* The entries of a device's own table that describe a partition.
Entries(x) == {n \in 1 .. 4 : Own(x)[n].boot \in {0, 128} /\ Own(x)[n].fs_id # 0}
Describes(part, e) ==
    /\ part.active = (e.boot = 128) /\ part.fs_id = e.fs_id
    /\ part.start = LittleEndian(e.start) /\ part.size = LittleEndian(e.size)

(* What the driver knows of a device it was told by that device, although   *)
(* it caches which one is selected and a reset changes that behind its back: *)
(* the partitions are those of the device's own table, in its order, from   *)
(* the first on and with none left out but for want of memory; what        *)
(* IDENTIFY said is the device's own if its reset succeeded                *)
(* (ata.c:228-601).                                                        *)
PartsAreOwn(x, parts, all) ==
    \E place \in [DOMAIN parts -> Entries(x)] :
        /\ \A k \in DOMAIN parts : Describes(parts[k], Own(x)[place[k]])
        /\ \A k, m \in DOMAIN parts : k < m => place[k] < place[m]
        /\ \A n \in Entries(x), k \in DOMAIN parts : n < place[k] => \E m \in DOMAIN parts : place[m] = n
        /\ parts # <<>> /\ all => \A n \in Entries(x) : \E m \in DOMAIN parts : place[m] = n
DevicesAreThemselves ==
    \A x \in Found : /\ PartsAreOwn(x, DevOf(x).parts, fails = MaxFails)
                     /\ DevOf(x).id # NULL /\ x \in resets => DevOf(x).id = x

(* Whoever is to use DMA belongs to an IDE controller on the bus and has    *)
(* that one's bus master, which no other channel has, if it was given an    *)
(* address (ata.c:97-149).  The test at ata.c:107-109 does not find out: an *)
(* I/O register without an address reads 1 and not 0, and the driver then   *)
(* takes ports 0 or 8, which are no bus master's.                           *)
(* Of its descriptor table the two entries in use (ata.c:652-657) lie in    *)
(* one page, and it is aligned, as ata.c:161 wants it, if kmalloc returned  *)
(* an even address, and otherwise it is not (ata.c:189).                    *)
OwnBusmaster(n, c) ==
    \E k \in DOMAIN ide_ctlrs :
        LET address == 16 * (ide_ctlrs[k].bar4 \div 16)
        IN  /\ ide_ctlrs[k].bar4 # 0
            /\ c.busmaster = address + 8 * (n % 2)
            /\ address # 0 => \A o \in Index \ {n} : ctlrs[o] # NULL => ctlrs[o].busmaster # c.busmaster
Aligned(prdt) == prdt % 4 = 0
PrdtUsable(prdt) ==
    /\ prdt \div PAGE = (prdt + 2 * PRD - 1) \div PAGE
    /\ \E tmp \in Addresses : prdt \in tmp .. tmp + 3 /\ (Aligned(prdt) <=> tmp % 2 = 0)
DmaHasBusmaster ==
    \A x \in Found : DevOf(x).use_dma =>
        /\ OwnBusmaster(x[1], ctlrs[x[1]])
        /\ PrdtUsable(ctlrs[x[1]].prdt)

(* The root is a RAM disk that its identifier leads to, and RAM disks keep  *)
(* what is written on them, apart from each other (vfs.c:20-35, ramdisk.c, *)
(* id.c:120-156).                                                          *)
RootFound == boot = "booted" /\ fails = MaxFails => idlist_get(hal_ids, ramdisk_open(root_fs.dev)) = root_fs.dev
RamdisksKeepData == RootFound /\ DisksKeepData

(* However long the devices stay busy, whatever errors they report and      *)
(* wherever memory is found, the search ends, main goes on with every part  *)
(* finding what it uses, and the kernel is booted or has stopped with a    *)
(* panic (main.c:31-93, ata.c:182, 702, 730, 759, 776).                     *)
BootEnds == <>(boot \in {"booted", "halted"})
=============================================================================
