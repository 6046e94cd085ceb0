---- MODULE Ptbl ----
\* lib/devs/ptbl.c: the partition table in the first sector of a disk.  An entry is the record of the
\* bytes the code reads: the boot indicator, the file system and two numbers of four bytes.
EXTENDS Integers, Sequences

CONSTANT NULL

\* Four bytes, the lowest first.
LittleEndian(b) == b[1] + b[2] * 2^8 + b[3] * 2^16 + b[4] * 2^24

partition_t(active, fs_id, start, size) == [active |-> active, fs_id |-> fs_id, start |-> start, size |-> size]

\* The partition an entry describes; NULL for a boot indicator that is not one and for file system 0.
IsPartition(e) == e.boot \in {128, 0} /\ e.fs_id # 0
Partition(e) == partition_t(e.boot = 128, e.fs_id, LittleEndian(e.start), LittleEndian(e.size))
ptbl_entry_parse(e) == IF IsPartition(e) THEN Partition(e) ELSE NULL

\* ptbl_parse adds the partitions of the four entries to the device's list until list_add finds no
\* memory; `room' is the number of them that still get in.
Add(r, e, room) ==
    LET tmp == ptbl_entry_parse(e)
    IN  IF ~r.ok \/ tmp = NULL THEN r
        ELSE IF Len(r.list) = room THEN [r EXCEPT !.ok = FALSE]
        ELSE [r EXCEPT !.list = Append(@, tmp)]
ptbl_parse(ptbl, room) ==
    LET parsed[n \in 0 .. 4] == IF n = 0 THEN [ok |-> TRUE, list |-> <<>>] ELSE Add(parsed[n - 1], ptbl[n], room)
    IN  parsed[4]
====
