----------------------------- MODULE SftpClient -----------------------------
(***************************************************************************)
(* The protocol library of lsftp (sftp/sftp_c.c): every operation is a     *)
(* chain of callbacks.  An _init function sends the first request and      *)
(* leaves a callback state with the id of that request; when the reply     *)
(* with this id arrives the state's nextfun is called, which sends the     *)
(* next request under a new id or ends the chain with id 0.                *)
(*                                                                         *)
(* The client c has the fields used here                                   *)
(*   nid   the last id given out          out   the packet not yet sent    *)
(*   wire  the packets on their way       loc   the local files            *)
(* and a step returns [c, st]: the client and the new callback state.      *)
(*                                                                         *)
(* A step of a transfer also works on the local file.  io says which of    *)
(* its system calls fails:                                                 *)
(*   "none"   none of them                                                 *)
(*   "early"  the first ones: fchmod, the lseek and the read of a put, the *)
(*            lseek and the write of a block                               *)
(*   "last"   the lseek or the write of the last cell before the close     *)
(*   "close"  the close                                                    *)
(***************************************************************************)
EXTENDS SftpServer

CONSTANT SFTP_BLOCKSIZE

NoPacket == [msg |-> "none"]
NoAttrib == [type |-> "none", size |-> 0, uid |-> 0, gid |-> 0]

(***************************************************************************)
(* The memory block of a callback: written from position used, and read    *)
(* from it again after a toggle.                                           *)
(***************************************************************************)
sftp_null_mem == [at |-> <<>>, used |-> 0]

sftp_store(m, data) ==
    [at |-> SubSeq(m.at, 1, m.used) \o data, used |-> m.used + Len(data)]

sftp_toggle_mem(m) == [at |-> SubSeq(m.at, 1, m.used), used |-> 0]

Retrieved(m, desired) ==
    SubSeq(m.at, m.used + 1,
           IF Len(m.at) - m.used < desired THEN Len(m.at) ELSE m.used + desired)

sftp_retrieve(m, desired) == [m EXCEPT !.used = @ + Len(Retrieved(m, desired))]

(***************************************************************************)
(* Callback states and requests.                                           *)
(***************************************************************************)
sftp_null_state ==
    [nextfun |-> "none", id |-> 0, op_id |-> 0, filepos |-> 0, fd |-> <<>>,
     retval |-> "OK", bad_status |-> "OK", localerr |-> FALSE, attrib |-> NoAttrib,
     mem |-> sftp_null_mem, names |-> <<>>, handle |-> 0]

\* sftp_set_msg, sftp_set_id and the sftp_put functions append to the packet
\* that is being built.  One that is still unsent is not cleared: its type
\* and id are lost and its data precede the new ones.
Put(c, pkt) ==
    [c EXCEPT !.out = IF c.out = NoPacket THEN pkt ELSE [msg |-> "MIXED", id |-> pkt.id]]

\* A request under a fresh id (sftp_unique_id), answered to nextfun.
Request(c, st, nextfun, pkt) ==
    [c  |-> Put([c EXCEPT !.nid = @ + 1], [id |-> c.nid + 1] @@ pkt),
     st |-> [st EXCEPT !.id = c.nid + 1, !.nextfun = nextfun]]

Start(c, op_id, nextfun, pkt) ==
    Request(c, [sftp_null_state EXCEPT !.op_id = op_id], nextfun, pkt)

sftp_rename_init(c, op, src, dst) ==
    Start(c, op, "sftp_handle_status", [msg |-> "RENAME", path |-> src, path2 |-> dst])
sftp_symlink_init(c, op, link, target) ==
    Start(c, op, "sftp_handle_status", [msg |-> "SYMLINK", path |-> link, path2 |-> target])
sftp_remove_init(c, op, name) ==
    Start(c, op, "sftp_handle_status", [msg |-> "REMOVE", path |-> name])
sftp_mkdir_init(c, op, name) ==
    Start(c, op, "sftp_handle_status", [msg |-> "MKDIR", path |-> name])
sftp_rmdir_init(c, op, name) ==
    Start(c, op, "sftp_handle_status", [msg |-> "RMDIR", path |-> name])
sftp_setstat_init(c, op, name, a) ==
    Start(c, op, "sftp_handle_status", [msg |-> "SETSTAT", path |-> name, attrib |-> a])
sftp_realpath_init(c, op, name) ==
    Start(c, op, "sftp_handle_name", [msg |-> "REALPATH", path |-> name])
sftp_stat_init(c, op, name) ==
    Start(c, op, "sftp_handle_attrs", [msg |-> "STAT", path |-> name])
sftp_fstat_init(c, op, handle) ==
    Start(c, op, "sftp_handle_attrs", [msg |-> "FSTAT", handle |-> handle])

(***************************************************************************)
(* The general handlers, which end a chain.                                *)
(***************************************************************************)
\* Mutant: the handle is forgotten without a CLOSE.
HandleStatusLeaks(c, st, m) ==
    [c |-> c, st |-> [st EXCEPT !.retval = m.status, !.id = 0, !.nextfun = "none", !.handle = 0]]

\* A handle that is still held is closed, and the answer is for nobody.
sftp_handle_status(c, st, m) ==
    LET done == [st EXCEPT !.retval = m.status, !.id = 0, !.nextfun = "none", !.handle = 0]
    IN  IF st.handle = 0 THEN [c |-> c, st |-> done]
        ELSE [c |-> Put([c EXCEPT !.nid = @ + 1],
                        [msg |-> "CLOSE", id |-> c.nid + 1, handle |-> st.handle]),
              st |-> done]

sftp_handle_attrs(c, st, m) ==
    IF m.msg = "STATUS" THEN sftp_handle_status(c, st, m)
    ELSE [c |-> c, st |-> [st EXCEPT !.attrib = m.attrib, !.id = 0, !.nextfun = "none"]]

sftp_handle_name(c, st, m) ==
    IF m.msg = "STATUS" THEN sftp_handle_status(c, st, m)
    ELSE [c |-> c, st |-> [st EXCEPT !.names = @ \o m.names, !.id = 0, !.nextfun = "none"]]

\* The end of a transfer: the handle is given up and the answer awaited.
Close(c, st) ==
    Request(c, [st EXCEPT !.handle = 0], "sftp_handle_status",
            [msg |-> "CLOSE", handle |-> st.handle])

(***************************************************************************)
(* Listing a directory.                                                    *)
(***************************************************************************)
sftp_ls_init(c, op, dir) == Start(c, op, "sftp_ls_step_one", [msg |-> "OPENDIR", path |-> dir])

sftp_ls_step_one(c, st, m) ==
    IF m.msg = "STATUS" THEN sftp_handle_status(c, st, m)
    ELSE Request(c, [st EXCEPT !.handle = m.handle], "sftp_ls_main",
                 [msg |-> "READDIR", handle |-> m.handle])

sftp_ls_main(c, st, m) ==
    IF m.msg = "STATUS" THEN sftp_handle_status(c, st, m)
    ELSE Request(c, [st EXCEPT !.names = @ \o m.names], "sftp_ls_main",
                 [msg |-> "READDIR", handle |-> st.handle])

(***************************************************************************)
(* Getting a file.                                                         *)
(***************************************************************************)
\* A system call on the local file failed: the chain ends where it is.  What
\* was sent stays sent, what was not is not, and the handle is not closed.
LocalError(r) == [r EXCEPT !.st.localerr = TRUE, !.st.id = 0, !.st.nextfun = "none"]

ReadBlock(c, st, nextfun) ==
    Request(c, st, nextfun, [msg |-> "READ", handle |-> st.handle, offset |-> st.filepos,
                             length |-> SFTP_BLOCKSIZE])

sftp_get_mem_init(c, op, name, startat) ==
    LET r == Start(c, op, "sftp_get_mem_step_one",
                   [msg |-> "OPEN", path |-> name, flags |-> {"READ"}])
    IN  [r EXCEPT !.st.filepos = startat]

\* A block shorter than the one asked for is taken for the last.
sftp_get_mem_main(c, st, m) ==
    LET next == [st EXCEPT !.mem = sftp_store(@, m.data), !.filepos = @ + Len(m.data)]
    IN  IF m.msg = "STATUS" THEN sftp_handle_status(c, st, m)
        ELSE IF Len(m.data) = SFTP_BLOCKSIZE THEN ReadBlock(c, next, "sftp_get_mem_main")
        ELSE Close(c, next)

\* Mutant: the local file is never truncated.
GetFileInitNoTruncate(c, op, name, fname, cont, io) ==
    LET old == Node(c.loc, fname)
        startat == IF cont /\ old.type # "none" THEN Len(old.data) ELSE 0
        file == IF old.type = "none" THEN File(<<>>) ELSE old
        r == sftp_get_mem_init([c EXCEPT !.loc = With(@, fname, file)], op, name, startat)
    IN  IF old.type = "dir" \/ (old.type = "none" /\ ~CanCreate(c.loc, fname))
        THEN [c |-> c, st |-> [sftp_null_state EXCEPT !.localerr = TRUE]]
        ELSE IF startat # 0 /\ io = "early"
        THEN [c |-> [c EXCEPT !.loc = With(@, fname, file)],
              st |-> [sftp_null_state EXCEPT !.localerr = TRUE]]
        ELSE [r EXCEPT !.st.nextfun = "sftp_get_file_step_one", !.st.fd = fname]

\* The local file is created, and truncated unless the transfer goes on from
\* its end.  A file that cannot be opened, or where lseek fails, leaves a
\* state without nextfun.
sftp_get_file_init(c, op, name, fname, cont, io) ==
    LET old == Node(c.loc, fname)
        startat == IF cont /\ old.type # "none" THEN Len(old.data) ELSE 0
        file == IF old.type = "none" \/ ~cont THEN File(<<>>) ELSE old
        r == sftp_get_mem_init([c EXCEPT !.loc = With(@, fname, file)], op, name, startat)
    IN  IF old.type = "dir" \/ (old.type = "none" /\ ~CanCreate(c.loc, fname))
        THEN [c |-> c, st |-> [sftp_null_state EXCEPT !.localerr = TRUE]]
        ELSE IF startat # 0 /\ io = "early"
        THEN [c |-> [c EXCEPT !.loc = With(@, fname, file)],
              st |-> [sftp_null_state EXCEPT !.localerr = TRUE]]
        ELSE [r EXCEPT !.st.nextfun = "sftp_get_file_step_one", !.st.fd = fname]

sftp_get_file_step_one(c, st, m) ==
    IF m.msg = "STATUS" THEN sftp_handle_status(c, st, m)
    ELSE Request(c, [st EXCEPT !.handle = m.handle], "sftp_get_file_step_two",
                 [msg |-> "FSTAT", handle |-> m.handle])

\* The local file is given the permissions of the remote one.
sftp_get_file_step_two(c, st, m, io) ==
    IF m.msg = "STATUS" THEN sftp_handle_status(c, st, m)
    ELSE IF io = "early" THEN LocalError(sftp_handle_attrs(c, st, m))
    ELSE ReadBlock(c, sftp_handle_attrs(c, st, m).st, "sftp_get_file_main")

\* A block of zeros is skipped, to leave a hole.  When the close is sent the
\* last cell is written once more, so that the file has its full length.  The
\* request for the next block, or the close, has been sent before.
sftp_get_file_main(c, st, m, io) ==
    LET r == sftp_get_mem_main(c, [st EXCEPT !.mem = sftp_null_mem], m)
        block == r.st.mem.at
        start == r.st.filepos - Len(block)
        written == IF \E i \in DOMAIN block : block[i] # 0
                   THEN sftp_write(c.loc[st.fd].data, block, start) ELSE c.loc[st.fd].data
        last == sftp_write(written, <<Last(block)>>, r.st.filepos - 1)
        Save(data) == [r EXCEPT !.c.loc[st.fd].data = data]
    IN  IF io = "early" THEN LocalError(r)
        ELSE IF r.st.nextfun = "sftp_handle_status"
        THEN CASE io = "last"  -> LocalError(Save(written))
               [] io = "close" -> LocalError(Save(last))
               [] OTHER        -> [Save(last) EXCEPT !.st.mem = sftp_null_mem]
        ELSE IF r.st.nextfun = "none" THEN Save(written)
        ELSE [Save(written) EXCEPT !.st.nextfun = "sftp_get_file_main"]

(***************************************************************************)
(* Putting a file.                                                         *)
(***************************************************************************)
\* Only an offset of zero truncates the remote file.
sftp_put_mem_init(c, op, name, startat) ==
    LET r == Start(c, op, "sftp_put_mem_step_one",
                   [msg |-> "OPEN", path |-> name,
                    flags |-> IF startat # 0 THEN {"CREAT", "WRITE"}
                              ELSE {"CREAT", "WRITE", "TRUNC"}])
    IN  [r EXCEPT !.st.filepos = startat]

\* The first block.  The file position stays where it is.
sftp_put_mem_step_one(c, st, m) ==
    IF m.msg = "STATUS" THEN sftp_handle_status(c, st, m)
    ELSE Request(c, [st EXCEPT !.handle = m.handle, !.mem = sftp_retrieve(@, SFTP_BLOCKSIZE)],
                 "sftp_put_mem_main",
                 [msg |-> "WRITE", handle |-> m.handle, offset |-> st.filepos,
                  data |-> Retrieved(st.mem, SFTP_BLOCKSIZE)])

sftp_put_mem_main(c, st, m) ==
    LET data == Retrieved(st.mem, SFTP_BLOCKSIZE)
        next == [st EXCEPT !.retval = m.status, !.mem = sftp_retrieve(@, SFTP_BLOCKSIZE)]
    IN  IF m.status # "OK"
        THEN Close(c, [st EXCEPT !.retval = m.status, !.bad_status = m.status])
        ELSE IF data = <<>> THEN Close(c, next)
        ELSE Request(c, [next EXCEPT !.filepos = @ + Len(data)], "sftp_put_mem_main",
                     [msg |-> "WRITE", handle |-> st.handle, offset |-> st.filepos,
                      data |-> data])

sftp_put_file_init(c, op, name, fname, cont) ==
    LET r == sftp_put_mem_init(c, op, name, IF cont THEN 1 ELSE 0)
    IN  IF Node(c.loc, fname).type # "file"
        THEN [c |-> c, st |-> [sftp_null_state EXCEPT !.localerr = TRUE]]
        ELSE [r EXCEPT !.st.fd = fname,
                       !.st.nextfun = IF cont THEN "sftp_put_file_do_fstat"
                                      ELSE "sftp_put_file_step_one"]

sftp_put_file_do_fstat(c, st, m) ==
    LET r == sftp_fstat_init(c, st.op_id, m.handle)
    IN  IF m.msg = "STATUS" THEN sftp_handle_status(c, st, m)
        ELSE [r EXCEPT !.st.fd = st.fd, !.st.mem = st.mem, !.st.handle = m.handle,
                       !.st.nextfun = "sftp_put_file_handle_stat"]

\* The transfer goes on from the end of the remote file.  A status in place
\* of the attributes is not looked for: the position is then zero.
sftp_put_file_handle_stat(c, st, m, io) ==
    LET r == sftp_handle_attrs(c, st, m)
        pos == r.st.attrib.size
        data == sftp_read(c.loc[st.fd].data, SFTP_BLOCKSIZE, pos)
    IN  IF io = "early" THEN LocalError(r)
        ELSE Request(r.c, [r.st EXCEPT !.filepos = pos + Len(data)], "sftp_put_file_main",
                     [msg |-> "WRITE", handle |-> r.st.handle, offset |-> pos, data |-> data])

\* The block at the file position of the local file, ready to be retrieved.
Loaded(c, st) ==
    [st EXCEPT !.mem = sftp_toggle_mem(sftp_store(sftp_null_mem,
                           sftp_read(c.loc[st.fd].data, SFTP_BLOCKSIZE, st.filepos)))]

\* nextfun is set although the chain may have ended: id is 0 then.  When the
\* local file cannot be read the reply, and a handle in it, is not looked at.
sftp_put_file_step_one(c, st, m, io) ==
    LET r == sftp_put_mem_step_one(c, Loaded(c, st), m)
    IN  IF io = "early" THEN LocalError([c |-> c, st |-> st])
        ELSE [r EXCEPT !.st.nextfun = "sftp_put_file_main"]

sftp_put_file_main(c, st, m, io) ==
    LET r == sftp_put_mem_main(c, Loaded(c, st), m)
    IN  IF io = "early" THEN LocalError([c |-> c, st |-> st])
        ELSE IF r.st.nextfun = "sftp_handle_status" THEN [r EXCEPT !.st.mem = sftp_null_mem]
        ELSE [r EXCEPT !.st.nextfun = "sftp_put_file_main"]

(***************************************************************************)
(* A reply m is given to the nextfun of the state.  A type the function    *)
(* asserts against ends the program; Expects says which replies it takes.  *)
(***************************************************************************)
Expects(nextfun) ==
    CASE nextfun \in {"sftp_ls_step_one", "sftp_get_file_step_one", "sftp_put_file_step_one",
                      "sftp_put_file_do_fstat"} -> {"STATUS", "HANDLE"}
      [] nextfun \in {"sftp_ls_main", "sftp_handle_name"} -> {"STATUS", "NAME"}
      [] nextfun \in {"sftp_get_file_step_two", "sftp_put_file_handle_stat",
                      "sftp_handle_attrs"} -> {"STATUS", "ATTRS"}
      [] nextfun = "sftp_get_file_main" -> {"STATUS", "DATA"}
      [] OTHER -> {"STATUS"}

\* The system calls on the local file that nextfun may find failing.
Failures(nextfun) ==
    CASE nextfun = "sftp_get_file_main" -> {"none", "early", "last", "close"}
      [] nextfun \in {"sftp_get_file_step_two", "sftp_put_file_handle_stat",
                      "sftp_put_file_step_one", "sftp_put_file_main"} -> {"none", "early"}
      [] OTHER -> {"none"}

NextFun(c, st, m, io) ==
    CASE st.nextfun = "sftp_handle_status"        -> sftp_handle_status(c, st, m)
      [] st.nextfun = "sftp_handle_attrs"         -> sftp_handle_attrs(c, st, m)
      [] st.nextfun = "sftp_handle_name"          -> sftp_handle_name(c, st, m)
      [] st.nextfun = "sftp_ls_step_one"          -> sftp_ls_step_one(c, st, m)
      [] st.nextfun = "sftp_ls_main"              -> sftp_ls_main(c, st, m)
      [] st.nextfun = "sftp_get_file_step_one"    -> sftp_get_file_step_one(c, st, m)
      [] st.nextfun = "sftp_get_file_step_two"    -> sftp_get_file_step_two(c, st, m, io)
      [] st.nextfun = "sftp_get_file_main"        -> sftp_get_file_main(c, st, m, io)
      [] st.nextfun = "sftp_put_file_do_fstat"    -> sftp_put_file_do_fstat(c, st, m)
      [] st.nextfun = "sftp_put_file_handle_stat" -> sftp_put_file_handle_stat(c, st, m, io)
      [] st.nextfun = "sftp_put_file_step_one"    -> sftp_put_file_step_one(c, st, m, io)
      [] st.nextfun = "sftp_put_file_main"        -> sftp_put_file_main(c, st, m, io)
=============================================================================
