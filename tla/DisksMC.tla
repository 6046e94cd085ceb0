------------------------------ MODULE DisksMC ------------------------------
(***************************************************************************)
(* Disks on a bus of two slots of four functions, with three controllers, *)
(* and four machines.                                                      *)
(***************************************************************************)
EXTENDS Disks

Header(v, n, class, t, bar) ==
    [vendor_id |-> v, dev_id |-> n, class_id |-> class[1], subclass_id |-> class[2], prog_if |-> class[3], header_type |-> t, bar4 |-> bar]
Intel(n, class, bar) == Header(\h8086, n, class, 0, bar)
Bus(f) == [l \in (0 .. 1) \X (0 .. 3) |-> IF l \in DOMAIN f THEN f[l] ELSE NULL]
Cable(master, slave) == [n \in {0, 1} |-> IF n = 0 THEN master ELSE slave]
Three(a, b, c) == [k \in 0 .. 2 |-> IF k = 0 THEN a ELSE IF k = 1 THEN b ELSE c]

\* The usual chip set, its bridge and IDE controller with a gap before the last function; two disks.
Usual == [pci |-> Bus(<<0, 0>> :> Intel(\h1237, <<6, 0, 0>>, 0) @@ <<1, 0>> :> Intel(\h7000, <<6, 1, 0>>, 0)
                      @@ <<1, 1>> :> Intel(\h7010, <<1, 1, 128>>, 49) @@ <<1, 3>> :> Intel(\h7113, <<6, 128, 0>>, 0)),
          ata |-> Three(Cable("disk", "disk"), NULL, NULL)]
\* Two IDE controllers, the first of an exact class, and a display; a packet device and an empty channel.
TwoIde == [pci |-> Bus(<<0, 0>> :> Header(\h1106, \h571, <<1, 1, 0>>, 0, 33) @@ <<1, 0>> :> Header(\h1234, \h1111, <<3, 0, 1>>, 0, 0)
                       @@ <<1, 1>> :> Intel(\h7010, <<1, 1, 5>>, 65)),
           ata |-> Three(Cable("none", "none"), Cable("none", "packet"), Cable("disk", "none"))]
\* IDE controllers without an address: the first was given none, so that its register reads 1, and the
\* second has a header with no room for one.
NoAddress == [pci |-> Bus(<<0, 0>> :> Header(\h11DE, \h6057, <<4, 0, 0>>, 0, 0) @@ <<0, 1>> :> Intel(\h7010, <<1, 1, 0>>, 1)
                          @@ <<0, 2>> :> Header(\h11DE, \h9876, <<1, 1, 0>>, 1, 32) @@ <<1, 0>> :> Intel(1, <<7, 1, 0>>, 0)),
              ata |-> Three(NULL, Cable("disk", "packet"), Cable("none", "none"))]
\* No bus at all.
NoBus == [pci |-> Bus(<<>>), ata |-> Three(NULL, Cable("packet", "disk"), NULL)]
MCMachines == {Usual, TwoIde, NoAddress, NoBus}

\* Each disk's table: a boot indicator that is none, an empty entry and two partitions.
Entry(indicator, fs, start) == [boot |-> indicator, fs_id |-> fs, start |-> <<start, 1, 0, 0>>, size |-> <<2, 0, 0, 1>>]
MCTable(sector) ==
    LET id == 2 * sector.from[1] + sector.from[2]
    IN  <<Entry(IF id = 1 THEN 7 ELSE 128, 131, id), Entry(0, 0, 50), Entry(0, 130, 10 + id), Entry(128, 5, 20 + id)>>
============================================================================
