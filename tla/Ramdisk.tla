------------------------------ MODULE Ramdisk ------------------------------
(***************************************************************************)
(* RAM disks (lib/devs/ramdisk.c), the registry they enter themselves in   *)
(* (lib/devs/hal.h) and its identifiers (lib/util/id.c), which are places  *)
(* in a list.  A device is the record of what the code reads of it.        *)
(***************************************************************************)
EXTENDS Integers, SequencesExt

CONSTANTS
    NULL,
    WORD     \* 2^32: what offsets and sizes are counted modulo

-----------------------------------------------------------------------------
(* Lists as identifiers.  An item that list_add has no memory for has the   *)
(* identifier -1; as an unsigned number that is in no list, but list_get   *)
(* wraps it and returns the last item.                                     *)
idlist_new == <<>>
idlist_add(list, item, memory) ==
    IF memory THEN [list |-> Append(list, item), id |-> Len(list)] ELSE [list |-> list, id |-> -1]
idlist_get(list, id) ==
    IF (id + 1) % WORD > Len(list) \/ list = <<>> THEN NULL
    ELSE IF id \in 0 .. Len(list) - 1 THEN list[id + 1] ELSE Last(list)
idlist_del(list, id) == IF id \in 0 .. Len(list) - 1 THEN [list EXCEPT ![id + 1] = NULL] ELSE list

-----------------------------------------------------------------------------
ramdisk_dev_t(start, size) == [start |-> start, size |-> size]
block_dev(id, extra) == [id |-> id, extra |-> extra]

\* The list of identifiers leads to the device, which keeps its identifier.
\* ramdisk_new, with the addresses of its space, or NULL, and memory or not for the rest.
ramdisk_new(ids, space, size, devs, id) ==
    IF space = NULL \/ ~devs THEN [dev |-> NULL, ids |-> ids]
    ELSE LET Dev(n) == block_dev(n, ramdisk_dev_t(space, size))
             given == idlist_add(ids, NULL, id).id
         IN  [dev |-> Dev(given), ids |-> idlist_add(ids, Dev(given), id).list]
ramdisk_open(dev) == dev.id

\* What a read or a write refuses.  Bug in BeyondBytesOnly: the offset is forgotten.
BeyondBytesOnly(dev, bytes, offset) == bytes > dev.size
Beyond(dev, bytes, offset) == (offset + bytes) % WORD > dev.size
ramdisk_read(memory, ids, id, bytes, offset) ==
    LET dev == idlist_get(ids, id).extra
    IN  IF Beyond(dev, bytes, offset) THEN NULL ELSE [k \in 1 .. bytes |-> memory[dev.start + offset + k - 1]]
\* The memory after the write; the same when it is refused.
ramdisk_write(memory, ids, id, buffer, offset) ==
    LET dev == idlist_get(ids, id).extra
        start == dev.start + offset
    IN  IF Beyond(dev, Len(buffer), offset) THEN memory
        ELSE [a \in DOMAIN memory |-> IF a \in start .. start + Len(buffer) - 1 THEN buffer[a - start + 1] ELSE memory[a]]

-----------------------------------------------------------------------------
\* Two disks side by side, whose identifiers are found, after two writes.
Sizes == 0 .. 2
Ranges == {r \in (0 .. 3) \X (0 .. 3) : r[1] + r[2] < WORD}    \* bytes and offset
MadeDisks(sizes) ==
    LET first == ramdisk_new(idlist_new, 0, sizes[1], TRUE, TRUE)
        second == ramdisk_new(first.ids, sizes[1], sizes[2], TRUE, TRUE)
    IN  [ids |-> second.ids, id |-> <<ramdisk_open(first.dev), ramdisk_open(second.dev)>>]
Fill(value, bytes) == [k \in 1 .. bytes |-> value]

\* What is on a disk's byte after writes <<disk, range, value>>, the last that reached it.
Inside(range, size) == range[1] + range[2] <= size
Covers(w, n, byte, sizes) == w[1] = n /\ Inside(w[2], sizes[n]) /\ byte \in w[2][2] .. w[2][2] + w[2][1] - 1
Content(writes, n, byte, sizes) ==
    FoldLeft(LAMBDA old, w : IF Covers(w, n, byte, sizes) THEN w[3] ELSE old, 0, writes)

(* A read within a disk returns what was last written there, on that disk;  *)
(* one that is not is refused, and a write that is not changes nothing.  A *)
(* request is one whose end is less than WORD.  An identifier given back   *)
(* leads to nothing, the others where they did (ramdisk.c:73-103).         *)
DisksKeepData ==
    \A sizes \in Sizes \X Sizes, r1 \in Ranges, n1 \in {1, 2}, r2 \in Ranges, n2 \in {1, 2} :
        LET made == MadeDisks(sizes)
            writes == <<<<n1, r1, 1>>, <<n2, r2, 2>>>>
            Written(memory, w) == ramdisk_write(memory, made.ids, made.id[w[1]], Fill(w[3], w[2][1]), w[2][2])
            memory == FoldLeft(Written, [a \in 0 .. 8 |-> 0], writes)
        IN  /\ \A n \in {1, 2}, r \in Ranges :
                  ramdisk_read(memory, made.ids, made.id[n], r[1], r[2]) =
                     IF Inside(r, sizes[n]) THEN [k \in 1 .. r[1] |-> Content(writes, n, r[2] + k - 1, sizes)] ELSE NULL
            /\ \A a \in sizes[1] + sizes[2] .. 8 : memory[a] = 0
            /\ \A n, o \in {1, 2} :
                  idlist_get(idlist_del(made.ids, made.id[n]), made.id[o]) =
                     IF n = o THEN NULL ELSE idlist_get(made.ids, made.id[o])
=============================================================================
