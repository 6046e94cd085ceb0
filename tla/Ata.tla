-------------------------------- MODULE Ata --------------------------------
(***************************************************************************)
(* lib/devs/ata.c: how the disk driver finds devices at boot, on the bus   *)
(* that module Pci scanned.  Interrupts are off, so the driver runs alone, *)
(* against hardware that answers late, with errors or not at all: every    *)
(* read of the status register may find any status the device can be in.   *)
(*                                                                         *)
(* The wait functions are taken poll by poll; between two of them the      *)
(* driver's register writes are one step.                                  *)
(***************************************************************************)
EXTENDS Pci

CONSTANTS
    CTLRS,              \* controllers: 4
    ATA_WAIT_TIMEOUT,   \* polls of a status register: 1000
    PRDT_TRIES,         \* 50
    PAGE, PRD,          \* bytes of a page and of a descriptor: 4096 and 8
    Addresses,          \* where kmalloc may put a descriptor table
    Sectors,            \* sectors of every disk
    Table(_)            \* the partition table in a sector

ASSUME AtaAssumption ==
    /\ CTLRS \in Nat /\ ATA_WAIT_TIMEOUT \in Nat \ {0} /\ PRDT_TRIES \in Nat \ {0}
    /\ PAGE \in Nat \ {0} /\ PRD \in Nat \ {0}
    /\ Addresses \subseteq Nat /\ Sectors \in Nat \ {0}

INSTANCE Ptbl

VARIABLES
    pc,                 \* the function the driver is in
    i, d,               \* the controller and the device it is looking at
    polls,              \* polls made by a wait function
    ctlrs,              \* ata_ctlrs; NULL for a controller that does not exist
    prdt_tries,         \* descriptor tables that crossed a page
    hw,                 \* the controllers' registers
    resets              \* history: the devices whose reset succeeded

ataVars == <<pc, i, d, polls, ctlrs, prdt_tries, hw, resets>>
Index == 0 .. CTLRS - 1
Devs == {0, 1}

-----------------------------------------------------------------------------
(* The hardware.  machine.ata[c][n] is what is plugged in as device n of    *)
(* controller c: a disk, a packet device or nothing.  srst: a software     *)
(* reset is held; cmd: the command the selected device is at.              *)
Selected(c) == machine.ata[c][hw[c].sel]

\* A write to a register: a reset selects device 0, and while it is held nothing else gets through.
outb(c, h, reg, value) ==
    IF reg = "ATA_CTL" THEN IF value = "RESET" THEN [h EXCEPT !.srst = TRUE, !.sel = 0, !.cmd = NULL]
                                               ELSE [h EXCEPT !.srst = FALSE]
    ELSE IF h.srst THEN h
    ELSE CASE reg = "ATA_DRIVE_SELECT" -> [h EXCEPT !.sel = value, !.cmd = NULL]
           [] reg = "ATA_LBA" -> [h EXCEPT !.lba = value]
           [] reg = "ATA_CMD" -> [h EXCEPT !.cmd = IF machine.ata[c][h.sel] = "none" THEN NULL ELSE value]

\* What a read of the status register may find.
inb_status(c) ==
    IF hw[c].srst THEN {{"BSY"}, {}}
    ELSE IF Selected(c) = "none" THEN {{}}
    ELSE IF hw[c].cmd = NULL THEN {{"BSY"}, {"RDY"}, {"RDY", "ERR"}}
    ELSE {{"BSY"}, {"RDY", "ERR"}, {"RDY", "DF"}} \cup (IF Selected(c) = "disk" THEN {{"RDY", "DRQ"}} ELSE {})

\* The words of the data register: who sends them and, of a sector, which one.
inw(c) == [from |-> <<c, hw[c].sel>>, lba |-> hw[c].lba]

\* The registers that tell whether a device is there keep what is written to them if it is, and, when
\* only the other device is, may do so too.
Keeps(c, h) == IF machine.ata[c][h.sel] # "none" /\ ~h.srst THEN {TRUE}
               ELSE IF \E n \in Devs : machine.ata[c][n] # "none" THEN BOOLEAN ELSE {FALSE}

-----------------------------------------------------------------------------
NewDev == [sem |-> 1, atapi |-> FALSE, use_dma |-> FALSE, id |-> NULL, sec_cnt_28 |-> 0, parts |-> <<>>]
NewCtlr == [sem |-> 0, busmaster |-> 0, prdt |-> 0, devs |-> [n \in Devs |-> NULL], sel_dev |-> 0]
Ctlr == ctlrs[i]
Dev == Ctlr.devs[d]

\* ata_ctlr_select_dev writes the register only when it does not believe the device selected.
ata_ctlr_select_dev(h, sel_dev, n) == IF sel_dev = n THEN h ELSE outb(i, h, "ATA_DRIVE_SELECT", n)

\* What a step does to the device, and where the driver goes next.
SetDev(dev) == ctlrs' = [ctlrs EXCEPT ![i].devs[d] = dev]
GoTo(l) == pc' = l /\ polls' = 0
NextDev == GoTo("dev") /\ d' = d + 1
NextCtlr == GoTo("ctlr") /\ i' = i + 1 /\ d' = 0
Running(l) == boot = "ata" /\ pc = l

AtaInit ==
    /\ pc = "ctlr" /\ i = 0 /\ d = 0 /\ polls = 0
    /\ ctlrs = [c \in Index |-> NULL]
    /\ prdt_tries = {} /\ resets = {}
    /\ hw = [c \in Index |-> [sel |-> 0, srst |-> FALSE, cmd |-> NULL, lba |-> 0]]

\* MALLOC_PANIC and PANIC, wherever the driver uses them.
AtaPanics ==
    /\ boot = "ata" /\ fails > 0
    /\ \/ pc = "ctlr" /\ i < CTLRS /\ machine.ata[i] # NULL
       \/ pc = "dev" /\ d < 2
       \/ pc = "prdt"
       \/ pc = "sector"
    /\ boot' = "halted" /\ fails' = fails - 1
    /\ UNCHANGED <<pciVars, ataVars>>

\* ata_find_devs: a controller that reads as ones is not there.
CtlrAbsent ==
    /\ Running("ctlr") /\ i < CTLRS
    /\ machine.ata[i] = NULL
    /\ NextCtlr
    /\ UNCHANGED <<boot, fails, pciVars, ctlrs, prdt_tries, hw, resets>>
CtlrNew ==
    /\ Running("ctlr") /\ i < CTLRS
    /\ machine.ata[i] # NULL
    /\ ctlrs' = [ctlrs EXCEPT ![i] = NewCtlr]
    /\ GoTo("dev") /\ d' = 0
    /\ UNCHANGED <<boot, fails, pciVars, i, prdt_tries, hw, resets>>
AllFound ==
    /\ Running("ctlr") /\ i = CTLRS
    /\ boot' = "thr"
    /\ UNCHANGED <<fails, pciVars, ataVars>>

\* ata_ctlr_find_devs: select, try the registers, and reset the device that is there.
DevProbe ==
    /\ Running("dev") /\ d < 2
    /\ LET h == ata_ctlr_select_dev(hw[i], Ctlr.sel_dev, d)
       IN  /\ hw' = [hw EXCEPT ![i] = h]
           /\ \/ /\ ctlrs' = [ctlrs EXCEPT ![i].sel_dev = d]
                 /\ FALSE \in Keeps(i, h)
                 /\ NextDev
              \/ /\ ctlrs' = [ctlrs EXCEPT ![i].sel_dev = d, ![i].devs[d] = NewDev]
                 /\ TRUE \in Keeps(i, h)
                 /\ GoTo("reset") /\ UNCHANGED d
    /\ UNCHANGED <<boot, fails, pciVars, i, prdt_tries, resets>>

\* ata_ctlr_reset: hold a reset until the device is busy, let go, wait for it to be ready.
ResetStart ==
    /\ Running("reset")
    /\ hw' = [hw EXCEPT ![i] = outb(i, @, "ATA_CTL", "RESET")]
    /\ GoTo("wait_bsy")
    /\ UNCHANGED <<boot, fails, pciVars, i, d, ctlrs, prdt_tries, resets>>

\* One poll of a wait function: it sees what it waits for, gives up, or looks again.
Busy(status) == "BSY" \in status
Wrong(status) == ~Busy(status) /\ status \cap {"ERR", "DF"} # {}
Right(status, bit) == ~Busy(status) /\ ~Wrong(status) /\ bit \in status \cup {"any"}
Poll(l, next, Good(_), Bad(_), failed) ==
    /\ Running(l)
    /\ \E status \in inb_status(i) :
          IF Good(status) THEN GoTo(next)
          ELSE IF Bad(status) \/ polls + 1 = ATA_WAIT_TIMEOUT THEN GoTo(failed)
          ELSE polls' = polls + 1 /\ UNCHANGED pc
    /\ UNCHANGED <<boot, fails, pciVars, i, d, ctlrs, prdt_tries, hw, resets>>

ata_ctlr_wait_bsy == Poll("wait_bsy", "release", Busy, LAMBDA s: FALSE, "identify")
ata_ctlr_wait_not_bsy == Poll("wait_not_bsy", "wait_rdy", LAMBDA s: Right(s, "any"), Wrong, "identify")
ata_ctlr_wait_rdy == Poll("wait_rdy", "reselect", LAMBDA s: Right(s, "RDY"), Wrong, "identify")
ata_ctlr_wait_drq ==
    \/ Poll("wait_id", "id", LAMBDA s: Right(s, "DRQ"), Wrong, "no_id")
    \/ Poll("wait_sector", "sector", LAMBDA s: Right(s, "DRQ"), Wrong, "next")

ResetRelease ==
    /\ Running("release")
    /\ hw' = [hw EXCEPT ![i] = outb(i, @, "ATA_CTL", "NONE")]
    /\ GoTo("wait_not_bsy")
    /\ UNCHANGED <<boot, fails, pciVars, i, d, ctlrs, prdt_tries, resets>>

\* Bug: the driver trusts its cache after the reset.
ResetDoneTrusting ==
    /\ Running("reselect")
    /\ hw' = [hw EXCEPT ![i] = ata_ctlr_select_dev(@, Ctlr.sel_dev, d)]
    /\ resets' = resets \cup {<<i, d>>}
    /\ GoTo("identify")
    /\ UNCHANGED <<boot, fails, pciVars, i, d, ctlrs, prdt_tries>>

\* The reset selected device 0: select the one that was selected before, as sel_dev still says.
ResetDone ==
    /\ Running("reselect")
    /\ hw' = [hw EXCEPT ![i] = ata_ctlr_select_dev(@, 0, Ctlr.sel_dev)]
    /\ resets' = resets \cup {<<i, d>>}
    /\ GoTo("identify")
    /\ UNCHANGED <<boot, fails, pciVars, i, d, ctlrs, prdt_tries>>

-----------------------------------------------------------------------------
\* ata_dev_identify, whether or not the reset succeeded.
Identify ==
    /\ Running("identify")
    /\ ctlrs' = [ctlrs EXCEPT ![i].sel_dev = d]
    /\ hw' = [hw EXCEPT ![i] = outb(i, ata_ctlr_select_dev(@, Ctlr.sel_dev, d), "ATA_CMD", "IDENTIFY_DRIVE")]
    /\ GoTo("wait_id")
    /\ UNCHANGED <<boot, fails, pciVars, i, d, prdt_tries, resets>>
Identified ==
    /\ Running("id")
    /\ SetDev([Dev EXCEPT !.id = inw(i).from, !.sec_cnt_28 = Sectors])
    /\ hw' = [hw EXCEPT ![i].cmd = NULL]
    /\ GoTo("read")
    /\ UNCHANGED <<boot, fails, pciVars, i, d, prdt_tries, resets>>
\* No data: a packet device shows itself by an error and the contents of two registers.
NotIdentified ==
    /\ Running("no_id")
    /\ \E status \in inb_status(i) :
          SetDev([Dev EXCEPT !.atapi = @ \/ ("ERR" \in status /\ Selected(i) = "packet")])
    /\ NextDev
    /\ UNCHANGED <<boot, fails, pciVars, i, prdt_tries, hw, resets>>

\* ata_dev_find_parts reads sector 0.  ata_pio_lba28_read checks the bound in 32 bits, selects the
\* device as the cache says and once more in the register it shares with the address, of which bits
\* 24 to 27 get lost, and waits for each sector.
Read(lba, sec_cnt) ==
    IF (lba + sec_cnt) % 2^30 > Dev.sec_cnt_28 THEN NextDev /\ UNCHANGED <<ctlrs, hw>>
    ELSE /\ ctlrs' = [ctlrs EXCEPT ![i].sel_dev = d]
         /\ LET selected == outb(i, ata_ctlr_select_dev(hw[i], Ctlr.sel_dev, d), "ATA_DRIVE_SELECT", d)
                addressed == outb(i, selected, "ATA_LBA", lba % 2^24)
            IN  hw' = [hw EXCEPT ![i] = outb(i, addressed, "ATA_CMD", "READ_SECTORS")]
         /\ GoTo("wait_sector") /\ UNCHANGED d
\* Nobody looks whether there is a buffer: without one the sector is put at address 0, which is mapped
\* (mem.c:186) and holds nothing that is read again, and the search goes on the same.
ata_pio_lba28_read ==
    /\ Running("read")
    /\ Read(0, 1)
    /\ fails' \in {fails} \cup ({fails - 1} \cap Nat)
    /\ UNCHANGED <<boot, pciVars, i, prdt_tries, resets>>
\* The sector is there: take it and parse its partition table, as far as memory goes.
FindParts ==
    /\ Running("sector")
    /\ \E room \in 0 .. 4 :
          LET r == ptbl_parse(Table(inw(i)), room)
          IN  /\ r.ok => room = 4
              /\ ~r.ok => fails > 0
              /\ SetDev([Dev EXCEPT !.parts = r.list])
              /\ fails' = IF r.ok THEN fails ELSE fails - 1
    /\ hw' = [hw EXCEPT ![i].cmd = NULL]
    /\ NextDev
    /\ UNCHANGED <<boot, pciVars, i, prdt_tries, resets>>
ReadFailed ==
    /\ Running("next")
    /\ NextDev
    /\ UNCHANGED <<boot, fails, pciVars, i, ctlrs, prdt_tries, hw, resets>>

-----------------------------------------------------------------------------
\* The rest of ata_find_devs.  A controller without devices gets its semaphore, the others never do.
NoDevs ==
    /\ Running("dev") /\ d = 2
    /\ \A n \in Devs : Ctlr.devs[n] = NULL
    /\ ctlrs' = [ctlrs EXCEPT ![i].sem = 1]
    /\ NextCtlr
    /\ UNCHANGED <<boot, fails, pciVars, prdt_tries, hw, resets>>
SomeDevs ==
    /\ Running("dev") /\ d = 2
    /\ \E n \in Devs : Ctlr.devs[n] # NULL
    /\ hw' = [hw EXCEPT ![i] = outb(i, @, "ATA_CTL", "NONE")]
    /\ GoTo("prdt")
    /\ UNCHANGED <<boot, fails, pciVars, i, d, ctlrs, prdt_tries, resets>>

\* ata_prdt_new: a table is to be aligned, but what is added is the remainder and not what it lacks; and it
\* is to lie in one page, of which the code asks for two of its three entries.  The rejected ones are kept
\* until one fits, or until the tries run out.
PrdtAt(tmp) == tmp + (tmp % 4)
InOnePageOneEntry(prdt) == prdt % PAGE <= PAGE - PRD
InOnePage(prdt) == prdt % PAGE <= PAGE - 2 * PRD
PrdtRejected ==
    /\ Running("prdt") /\ Cardinality(prdt_tries) < PRDT_TRIES
    /\ \E tmp \in Addresses \ prdt_tries :
          /\ ~InOnePage(PrdtAt(tmp))
          /\ prdt_tries' = prdt_tries \cup {tmp}
    /\ UNCHANGED <<boot, fails, pciVars, pc, i, d, polls, ctlrs, hw, resets>>
PrdtTriesOut ==
    /\ Running("prdt") /\ Cardinality(prdt_tries) = PRDT_TRIES
    /\ boot' = "halted"
    /\ UNCHANGED <<fails, pciVars, ataVars>>

\* The bus master: controllers 0 and 1 belong to the first IDE controller on the bus, 2 and 3 to the
\* second.  Without one, or when the register with its address reads 0, there is no DMA.
ide == IF Len(ide_ctlrs) < 1 + (i \div 2) THEN NULL ELSE ide_ctlrs[1 + (i \div 2)]
Bar4 == IF ide = NULL THEN 0 ELSE ide.bar4
SetUse(n, on) == IF Ctlr.devs[n] = NULL THEN NULL ELSE [Ctlr.devs[n] EXCEPT !.use_dma = on]
ata_prdt_new(tmp) == InOnePage(PrdtAt(tmp)) /\ prdt_tries' = {}
PrdtMade ==
    /\ Running("prdt") /\ Cardinality(prdt_tries) < PRDT_TRIES
    /\ \E tmp \in Addresses \ prdt_tries, capable \in SUBSET Devs :
          /\ ata_prdt_new(tmp)
          /\ Bar4 = 0 => capable = {}
          /\ ctlrs' = [ctlrs EXCEPT ![i].prdt = PrdtAt(tmp),
                                    ![i].busmaster = IF Bar4 = 0 THEN 0 ELSE Bar4 - (Bar4 % 16) + 8 * (i % 2),
                                    ![i].devs = [n \in Devs |-> SetUse(n, n \in capable)]]
    /\ NextCtlr
    /\ UNCHANGED <<boot, fails, pciVars, hw, resets>>
=============================================================================
