----------------------------- MODULE SftpServer -----------------------------
(***************************************************************************)
(* sftp-server: one process that reads a request, carries it out and       *)
(* writes one reply with the id of the request (sftp/sftp-server.c).  The  *)
(* server is a record                                                      *)
(*   fs       the files it can see: a function from paths to nodes         *)
(*   handles  the table of SFTP_MAX_HANDLES open files and directories     *)
(* A handler is an operator from a server and a request to [s, reply, ok]; *)
(* when ok is FALSE the process writes the reply and exits.                *)
(*                                                                         *)
(* A path is a sequence of names, a file is a sequence of cells, and sizes *)
(* and offsets count cells.  The system calls are modelled by what the     *)
(* handlers use of them.  The entries . and .. of a directory, which all   *)
(* the users of a listing skip, are left out.                              *)
(***************************************************************************)
EXTENDS Integers, Sequences, FiniteSets, SequencesExt

CONSTANTS SFTP_MAX_HANDLES, BUFFER_SIZE, SFTP_MAX_SIZE,
          MAX_DIRENTS_PER_REQUEST,
          FileLimit     \* the size past which the disk takes no more

ASSUME ServerConstants ==
    /\ SFTP_MAX_HANDLES \in Nat \ {0}
    /\ BUFFER_SIZE \in Nat \ {0}
    /\ SFTP_MAX_SIZE \in Nat
    /\ MAX_DIRENTS_PER_REQUEST \in Nat \ {0}
    /\ FileLimit \in Nat

(***************************************************************************)
(* The file system: a function from the paths that exist to their nodes.   *)
(***************************************************************************)
Absent == [type |-> "none"]
Dir == [type |-> "dir", data |-> <<>>, uid |-> 0, gid |-> 0]
File(data) == [type |-> "file", data |-> data, uid |-> 0, gid |-> 0]
Link(target) == [type |-> "link", target |-> target]

Node(fs, p) == IF p \in DOMAIN fs THEN fs[p] ELSE Absent
With(fs, p, node) == (p :> node) @@ fs
Without(fs, p) == [q \in DOMAIN fs \ {p} |-> fs[q]]
Parent(p) == IF p = <<>> THEN p ELSE Front(p)
Below(fs, p) == {q \in DOMAIN fs : IsPrefix(p, q)}
Children(fs, p) == {Last(q) : q \in {r \in Below(fs, p) : Len(r) = Len(p) + 1}}

\* Where a path leads when its last component may be a symbolic link.
Follow(fs, p) == IF Node(fs, p).type = "link" THEN fs[p].target ELSE p

CanCreate(fs, p) == p \notin DOMAIN fs /\ Node(fs, Parent(p)).type = "dir"

(***************************************************************************)
(* Replies.                                                                *)
(***************************************************************************)
Answer(s, reply) == [s |-> s, reply |-> reply, ok |-> TRUE]

sftp_send_status(s, status) == Answer(s, [msg |-> "STATUS", status |-> status])

sftp_send_errno(s, e) ==
    sftp_send_status(s, CASE e = "ENOENT" -> "NO_SUCH_FILE"
                          [] e = "EACCES" -> "PERMISSION_DENIED"
                          [] OTHER -> "FAILURE")

sftp_bad_message(s) ==
    [s |-> s, reply |-> [msg |-> "STATUS", status |-> "BAD_MESSAGE"], ok |-> FALSE]

sftp_process_unsupported(s) == sftp_bad_message(s)

sftp_send_handle(s, h) == Answer(s, [msg |-> "HANDLE", handle |-> h])

sftp_attrib_from_stat(node) ==
    IF node.type \in {"link", "none"}
    THEN [type |-> node.type, size |-> 0, uid |-> 0, gid |-> 0]
    ELSE [type |-> node.type, size |-> Len(node.data), uid |-> node.uid, gid |-> node.gid]

sftp_put_filename(node, name) ==
    [name |-> name, attrib |-> sftp_attrib_from_stat(node)]

(***************************************************************************)
(* The table of handles.                                                   *)
(***************************************************************************)
HANDLE_UNUSED == [type |-> "unused"]

sftp_init(fs) == [fs |-> fs, handles |-> [i \in 1..SFTP_MAX_HANDLES |-> HANDLE_UNUSED]]

sftp_handle_used(s, h) == h \in 1..SFTP_MAX_HANDLES /\ s.handles[h].type # "unused"

\* The first free entry, or 0.
sftp_new_handle(s) ==
    LET free == {i \in 1..SFTP_MAX_HANDLES : s.handles[i].type = "unused"}
    IN  IF free = {} THEN 0 ELSE CHOOSE i \in free : \A j \in free : i <= j

sftp_get_handle_dir(s, h) == sftp_handle_used(s, h) /\ s.handles[h].type = "dir"
sftp_get_handle_file(s, h) == sftp_handle_used(s, h) /\ s.handles[h].type = "file"

(***************************************************************************)
(* Directories.                                                            *)
(***************************************************************************)
\* A directory that is opened when the table is full is never closed again;
\* the client is told FAILURE.
sftp_process_opendir(s, m) ==
    LET p == Follow(s.fs, m.path)
        h == sftp_new_handle(s)
    IN  IF Node(s.fs, p).type = "none" THEN sftp_send_errno(s, "ENOENT")
        ELSE IF Node(s.fs, p).type # "dir" THEN sftp_send_errno(s, "ENOTDIR")
        ELSE IF h = 0 THEN sftp_send_status(s, "FAILURE")
        ELSE sftp_send_handle(
                 [s EXCEPT !.handles[h] = [type |-> "dir", path |-> p,
                                           left |-> SetToSeq(Children(s.fs, p))]], h)

sftp_lstat_in_dir(s, dir, file) == Node(s.fs, Append(dir, file))

\* Up to MAX_DIRENTS_PER_REQUEST entries; one that cannot be examined loses
\* the whole batch, the entries before it included.
sftp_process_readdir(s, m) ==
    LET d == s.handles[m.handle]
        n == IF Len(d.left) < MAX_DIRENTS_PER_REQUEST THEN Len(d.left)
             ELSE MAX_DIRENTS_PER_REQUEST
        gone == {i \in 1..n : sftp_lstat_in_dir(s, d.path, d.left[i]).type = "none"}
        first == CHOOSE i \in gone : \A j \in gone : i <= j
        Read(k) == [s EXCEPT !.handles[m.handle].left = SubSeq(@, k + 1, Len(@))]
    IN  IF ~sftp_get_handle_dir(s, m.handle) THEN sftp_bad_message(s)
        ELSE IF d.left = <<>> THEN sftp_send_status(s, "EOF")
        ELSE IF gone # {} THEN sftp_send_errno(Read(first), "ENOENT")
        ELSE Answer(Read(n), [msg |-> "NAME", names |-> [i \in 1..n |->
                 sftp_put_filename(sftp_lstat_in_dir(s, d.path, d.left[i]), d.left[i])]])

(***************************************************************************)
(* Attributes.                                                             *)
(***************************************************************************)
Attrs(s, node) == Answer(s, [msg |-> "ATTRS", attrib |-> sftp_attrib_from_stat(node)])

sftp_process_stat(s, m) ==
    LET node == Node(s.fs, Follow(s.fs, m.path))
    IN  IF node.type \in {"none", "link"} THEN sftp_send_errno(s, "ENOENT") ELSE Attrs(s, node)

sftp_process_lstat(s, m) ==
    IF Node(s.fs, m.path).type = "none" THEN sftp_send_errno(s, "ENOENT")
    ELSE Attrs(s, s.fs[m.path])

sftp_process_fstat(s, m) ==
    IF ~sftp_get_handle_file(s, m.handle) THEN sftp_bad_message(s)
    ELSE Attrs(s, s.fs[s.handles[m.handle].path])

\* The owner is set before the size; times are refused after both.
SetAttrib(node, a) ==
    LET o == IF "UIDGID" \in a.flags THEN [node EXCEPT !.uid = a.uid, !.gid = a.gid] ELSE node
    IN  IF "SIZE" \in a.flags THEN [o EXCEPT !.data = SubSeq(@, 1, a.size)] ELSE o

sftp_process_setstat(s, m) ==
    LET p == Follow(s.fs, m.path)
        new == [s EXCEPT !.fs[p] = SetAttrib(@, m.attrib)]
    IN  IF Node(s.fs, p).type \in {"none", "link"} THEN sftp_send_errno(s, "ENOENT")
        ELSE IF "ACMODTIME" \in m.attrib.flags THEN sftp_send_status(new, "OP_UNSUPPORTED")
        ELSE sftp_send_status(new, "OK")

sftp_process_fsetstat(s, m) ==
    LET p == s.handles[m.handle].path
        new == [s EXCEPT !.fs[p] = SetAttrib(@, m.attrib)]
    IN  IF ~sftp_get_handle_file(s, m.handle) THEN sftp_bad_message(s)
        ELSE IF "ACMODTIME" \in m.attrib.flags THEN sftp_send_status(new, "OP_UNSUPPORTED")
        ELSE sftp_send_status(new, "OK")

(***************************************************************************)
(* Names.                                                                  *)
(***************************************************************************)
sftp_process_remove(s, m) ==
    IF Node(s.fs, m.path).type = "none" THEN sftp_send_errno(s, "ENOENT")
    ELSE IF Node(s.fs, m.path).type = "dir" THEN sftp_send_errno(s, "EISDIR")
    ELSE sftp_send_status([s EXCEPT !.fs = Without(@, m.path)], "OK")

sftp_process_mkdir(s, m) ==
    IF Node(s.fs, m.path).type # "none" THEN sftp_send_errno(s, "EEXIST")
    ELSE IF ~CanCreate(s.fs, m.path) THEN sftp_send_errno(s, "ENOENT")
    ELSE sftp_send_status([s EXCEPT !.fs = With(@, m.path, Dir)], "OK")

sftp_process_rmdir(s, m) ==
    IF Node(s.fs, m.path).type = "none" THEN sftp_send_errno(s, "ENOENT")
    ELSE IF Node(s.fs, m.path).type # "dir" \/ m.path = <<>> \/ Children(s.fs, m.path) # {}
         THEN sftp_send_errno(s, "ENOTEMPTY")
    ELSE sftp_send_status([s EXCEPT !.fs = Without(@, m.path)], "OK")

sftp_process_realpath(s, m) ==
    LET p == Follow(s.fs, m.path)
    IN  IF Node(s.fs, p).type \in {"none", "link"} THEN sftp_send_errno(s, "ENOENT")
        ELSE Answer(s, [msg |-> "NAME", names |-> <<sftp_put_filename(s.fs[p], p)>>])

\* rename(2): a directory moves with what is in it, and replaces only an
\* empty directory.
Renamed(fs, src, dst) ==
    LET Moved(q) == dst \o SubSeq(q, Len(src) + 1, Len(q))
        new == {Moved(q) : q \in Below(fs, src)}
    IN  [p \in (DOMAIN fs \ (Below(fs, src) \cup {dst})) \cup new |->
            IF p \in new THEN fs[CHOOSE q \in Below(fs, src) : Moved(q) = p] ELSE fs[p]]

sftp_process_rename(s, m) ==
    LET from == Node(s.fs, m.path)
        to == Node(s.fs, m.path2)
    IN  IF from.type = "none" \/ Node(s.fs, Parent(m.path2)).type # "dir"
        THEN sftp_send_errno(s, "ENOENT")
        ELSE IF m.path = m.path2 THEN sftp_send_status(s, "OK")
        ELSE IF \/ IsPrefix(m.path, m.path2) \/ m.path2 = <<>>
                \/ (from.type = "dir") # (to.type = "dir") /\ to.type # "none"
                \/ Children(s.fs, m.path2) # {}
        THEN sftp_send_errno(s, "EINVAL")
        ELSE sftp_send_status([s EXCEPT !.fs = Renamed(@, m.path, m.path2)], "OK")

sftp_process_readlink(s, m) ==
    IF Node(s.fs, m.path).type = "none" THEN sftp_send_errno(s, "ENOENT")
    ELSE IF Node(s.fs, m.path).type # "link" THEN sftp_send_errno(s, "EINVAL")
    ELSE Answer(s, [msg |-> "NAME", names |-> <<sftp_put_filename(
                        Node(s.fs, s.fs[m.path].target), s.fs[m.path].target)>>])

\* The first name in the packet is the link, the second its target.
sftp_process_symlink(s, m) ==
    IF Node(s.fs, m.path).type # "none" THEN sftp_send_errno(s, "EEXIST")
    ELSE IF ~CanCreate(s.fs, m.path) THEN sftp_send_errno(s, "ENOENT")
    ELSE sftp_send_status([s EXCEPT !.fs = With(@, m.path, Link(m.path2))], "OK")

(***************************************************************************)
(* Files.  lsftp never asks for EXCL or APPEND, which are left out.         *)
(***************************************************************************)
sftp_process_open(s, m) ==
    LET p == Follow(s.fs, m.path)
        h == sftp_new_handle(s)
        old == Node(s.fs, p)
        data == IF old.type = "none" \/ "TRUNC" \in m.flags THEN <<>> ELSE old.data
        opened == IF old.type = "none" THEN [s EXCEPT !.fs = With(@, p, File(<<>>))]
                  ELSE [s EXCEPT !.fs[p].data = data]
    IN  IF m.flags \cap {"READ", "WRITE"} = {} THEN sftp_send_status(s, "FAILURE")
        ELSE IF old.type = "dir"
             THEN sftp_send_status(s, IF "WRITE" \in m.flags THEN "FAILURE" ELSE "NO_SUCH_FILE")
        ELSE IF old.type = "link" THEN sftp_send_errno(s, "ENOENT")
        ELSE IF old.type = "none" /\ ~("CREAT" \in m.flags /\ CanCreate(s.fs, p))
             THEN sftp_send_errno(s, "ENOENT")
        ELSE IF h = 0 THEN sftp_send_status(opened, "FAILURE")
        ELSE sftp_send_handle([opened EXCEPT !.handles[h] = [type |-> "file", path |-> p]], h)

sftp_process_close(s, m) ==
    IF ~sftp_handle_used(s, m.handle) THEN sftp_bad_message(s)
    ELSE sftp_send_status([s EXCEPT !.handles[m.handle] = HANDLE_UNUSED], "OK")

\* What one call of read gives at an offset.
sftp_read(data, count, offset) ==
    SubSeq(data, offset + 1, IF offset + count < Len(data) THEN offset + count ELSE Len(data))

\* Whole buffers are read until the wanted length is used up.  It is an
\* unsigned number that only stops the loop at zero, so a length that is no
\* multiple of the buffer is passed and the rest of the file is read.
ReadLoop(data, length, offset) ==
    IF length % BUFFER_SIZE = 0 THEN sftp_read(data, length, offset)
    ELSE sftp_read(data, Len(data), offset)

sftp_process_read(s, m) ==
    LET data == s.fs[s.handles[m.handle].path].data
        length == IF m.length > SFTP_MAX_SIZE THEN SFTP_MAX_SIZE ELSE m.length
        got == ReadLoop(data, length, m.offset)
    IN  IF ~sftp_get_handle_file(s, m.handle) THEN sftp_bad_message(s)
        ELSE IF m.length = 0 THEN Answer(s, [msg |-> "DATA", data |-> <<>>])
        ELSE IF got = <<>> THEN sftp_send_status(s, "EOF")
        ELSE Answer(s, [msg |-> "DATA", data |-> got])

\* A write past the end leaves a hole of zero cells.
sftp_write(data, new, offset) ==
    LET size == IF offset + Len(new) > Len(data) THEN offset + Len(new) ELSE Len(data)
    IN  [i \in 1..size |-> IF i \in (offset + 1)..(offset + Len(new)) THEN new[i - offset]
                           ELSE IF i <= Len(data) THEN data[i] ELSE 0]

sftp_process_write(s, m) ==
    LET p == s.handles[m.handle].path
    IN  IF ~sftp_get_handle_file(s, m.handle) THEN sftp_bad_message(s)
        ELSE IF m.data = <<>> THEN sftp_send_status(s, "OK")
        ELSE IF m.offset + Len(m.data) > FileLimit THEN sftp_send_errno(s, "ENOSPC")
        ELSE sftp_send_status([s EXCEPT !.fs[p].data = sftp_write(@, m.data, m.offset)], "OK")

(***************************************************************************)
(* One turn of the main loop: the handler of the request, and a reply that *)
(* carries its id.                                                         *)
(***************************************************************************)
Dispatch(s, m) ==
    CASE m.msg = "OPEN"     -> sftp_process_open(s, m)
      [] m.msg = "CLOSE"    -> sftp_process_close(s, m)
      [] m.msg = "READ"     -> sftp_process_read(s, m)
      [] m.msg = "WRITE"    -> sftp_process_write(s, m)
      [] m.msg = "LSTAT"    -> sftp_process_lstat(s, m)
      [] m.msg = "STAT"     -> sftp_process_stat(s, m)
      [] m.msg = "FSTAT"    -> sftp_process_fstat(s, m)
      [] m.msg = "SETSTAT"  -> sftp_process_setstat(s, m)
      [] m.msg = "FSETSTAT" -> sftp_process_fsetstat(s, m)
      [] m.msg = "MKDIR"    -> sftp_process_mkdir(s, m)
      [] m.msg = "RMDIR"    -> sftp_process_rmdir(s, m)
      [] m.msg = "REMOVE"   -> sftp_process_remove(s, m)
      [] m.msg = "RENAME"   -> sftp_process_rename(s, m)
      [] m.msg = "OPENDIR"  -> sftp_process_opendir(s, m)
      [] m.msg = "READDIR"  -> sftp_process_readdir(s, m)
      [] m.msg = "REALPATH" -> sftp_process_realpath(s, m)
      [] m.msg = "READLINK" -> sftp_process_readlink(s, m)
      [] m.msg = "SYMLINK"  -> sftp_process_symlink(s, m)
      [] OTHER -> sftp_process_unsupported(s)

sftp_process(s, m) ==
    LET r == Dispatch(s, m)
    IN  [r EXCEPT !.reply = [id |-> m.id] @@ @]
=============================================================================
