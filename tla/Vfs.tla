-------------------------------- MODULE Vfs --------------------------------
(***************************************************************************)
(* The parts of lib/filesystems/vfs.c that opening a file is to be made of: *)
(* taking a path apart, and the permissions of a file.  Nothing calls them *)
(* yet.  A path is a sequence of characters.                               *)
(***************************************************************************)
EXTENDS Integers, SequencesExt

CONSTANT VFS_FILENAME_LEN    \* 255

(* path_shift_file: the first component, where the path goes on, and the    *)
(* cells of the caller's buffer that are written, the terminator's among    *)
(* them.  The loop lets one character more than VFS_FILENAME_LEN pass; of a *)
(* component longer still the character at the cut is lost.                 *)
path_shift_file(path) ==
    LET Ends(i) == i = Len(path) \/ i = VFS_FILENAME_LEN + 1 \/ path[i + 1] = "/"
        i == CHOOSE n \in 0 .. Len(path) : Ends(n) /\ \A k \in 0 .. n - 1 : ~Ends(k)
    IN  [file |-> SubSeq(path, 1, i), rest |-> SubSeq(path, i + 2, Len(path)), cells |-> i + 1]

O_RDONLY == 0
O_WRONLY == 1
O_RDWR == 2
S_IRUSR == 256
S_IWUSR == 128
S_IRGRP == 32
S_IWGRP == 16
S_IROTH == 4
S_IWOTH == 2

\* x & mask is not zero, for a mask of at most one bit.
And(x, mask) == mask # 0 /\ (x \div mask) % 2 = 1

vfs_perms_t(uid, gid, mode) == [uid |-> uid, gid |-> gid, mode |-> mode]
PermsOf(thread, file_perms) ==
    (IF thread.uid = file_perms.uid THEN file_perms.mode \div 64
     ELSE IF thread.gid = file_perms.gid THEN file_perms.mode \div 8 ELSE file_perms.mode) % 8

\* The flag for reading alone is no bit, so reading alone is never refused.
vfs_check_open_perms(thread, flags, file_perms) ==
    LET perms == PermsOf(thread, file_perms)
    IN  ~ \/ (And(flags, O_RDONLY) \/ And(flags, O_RDWR)) /\ ~And(perms, 4)
          \/ (And(flags, O_WRONLY) \/ And(flags, O_RDWR)) /\ ~And(perms, 2)
vfs_check_create_perms(thread, file_perms) == And(PermsOf(thread, file_perms), 2)

-----------------------------------------------------------------------------
\* What shifting a path until nothing is left returns.
Shifts(path) ==
    LET rest[n \in 0 .. Len(path)] == IF n = 0 THEN path ELSE path_shift_file(rest[n - 1]).rest
        count == CHOOSE n \in 0 .. Len(path) : rest[n] = <<>> /\ \A k \in 0 .. n - 1 : rest[k] # <<>>
    IN  [n \in 1 .. count |-> path_shift_file(rest[n - 1])]

\* The cells of the one buffer the repository passes (initrd.c:57).
FilenameCells == VFS_FILENAME_LEN + 1

\* A component is longer than the maximum: more characters in a row than VFS_FILENAME_LEN, no slash among them.
TooLong(path) ==
    \E k \in DOMAIN path : /\ k + VFS_FILENAME_LEN <= Len(path)
                           /\ \A j \in k .. k + VFS_FILENAME_LEN : path[j] # "/"

(* What vfs.c:112-113 leaves to be done matters.  When no component exceeds *)
(* the maximum every one fits its buffer, has no slash in it, and put       *)
(* together again, each with a slash behind it, they are the path.  When    *)
(* one does, the terminator goes into the cell behind the buffer, and no    *)
(* other cell outside it is written.                                        *)
PathsRight(chars, length) ==
    \A path \in UNION {[1 .. n -> chars] : n \in 0 .. length} :
        LET shifts == Shifts(path)
            most == Max({0} \cup {shifts[k].cells : k \in DOMAIN shifts})
        IN  IF TooLong(path)
            THEN most = FilenameCells + 1
            ELSE /\ most <= FilenameCells
                 /\ \A k \in DOMAIN shifts : "/" \notin Range(shifts[k].file)
                 /\ FlattenSeq([k \in DOMAIN shifts |-> Append(shifts[k].file, "/")])
                       \in {path, Append(path, "/")}

\* Who may open a file to write it, to read and write it, or create it has the bits for it, as owner, as
\* one of the group or else as anybody.
PermsRight ==
    \A uid, gid \in {0, 1}, mode \in 0 .. 511 :
        LET thread == [uid |-> 0, gid |-> 0]
            file == vfs_perms_t(uid, gid, mode)
            Has(usr, grp, oth) == And(mode, IF uid = 0 THEN usr ELSE IF gid = 0 THEN grp ELSE oth)
            read == Has(S_IRUSR, S_IRGRP, S_IROTH)
            write == Has(S_IWUSR, S_IWGRP, S_IWOTH)
        IN  /\ vfs_check_open_perms(thread, O_WRONLY, file) = write
            /\ vfs_check_open_perms(thread, O_RDWR, file) = (read /\ write)
            /\ vfs_check_create_perms(thread, file) = write
=============================================================================
