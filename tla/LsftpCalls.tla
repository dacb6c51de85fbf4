----------------------------- MODULE LsftpCalls -----------------------------
(***************************************************************************)
(* The operations of lsftp (sftp/sftp_bind.c) and its cache of what is a   *)
(* directory (sftp/dc.c).  The client record c has, besides the fields of  *)
(* SftpClient,                                                             *)
(*   up       the transport process is alive (transport_pid is set)        *)
(*   scbs     the callback states that wait for a reply                    *)
(*   lcbs     the operations these belong to, found by op_id               *)
(*   nop, id  the last operation id, and the one a call returned (or -1)   *)
(*   curpath  the current remote directory                                 *)
(*   dc, nextexpire    the cache and the entry that is dropped next        *)
(*   dirinfo, attrib, real    the variables operations leave results in    *)
(*   last     the last transfer that ended, for the properties             *)
(*   lost     the handles that transfers cut short by a failing local      *)
(*            system call have left open at the server, for the properties *)
(* Every call is one operator from c to the new c.                         *)
(***************************************************************************)
EXTENDS SftpClient

CONSTANTS CALLBACKS,    \* the slots in each table of callbacks
          DC_ENTRIES,   \* the slots in the directory cache
          Hidden        \* the names that begin with a period

ASSUME CallConstants == CALLBACKS \in Nat \ {0} /\ DC_ENTRIES \in Nat \ {0}

NoCallback == [op_id |-> 0, nextfun |-> "none", local |-> <<>>, remote |-> <<>>, pre |-> <<>>]
NoEntry == [used |-> FALSE, name |-> <<>>, type |-> "none"]
NoTransfer == [kind |-> "none"]
Uninitialized == [NoAttrib EXCEPT !.type = "uninitialized"]
NoList == [null |-> TRUE, list |-> <<>>]
List(l) == [null |-> FALSE, list |-> l]

Least(S) == CHOOSE i \in S : \A j \in S : i <= j

(***************************************************************************)
(* The directory cache.                                                    *)
(***************************************************************************)
lsftp_dc_index(c, name) == {i \in 1..DC_ENTRIES : c.dc[i].used /\ c.dc[i].name = name}

\* A free slot, or the one whose turn it is.  An older entry of the same name
\* stays where it is.
lsftp_dc_notice(c, name, a) ==
    LET free == {i \in 1..DC_ENTRIES : ~c.dc[i].used}
        new == [used |-> TRUE, name |-> name, type |-> a.type]
    IN  IF free # {} THEN [c EXCEPT !.dc[Least(free)] = new]
        ELSE [c EXCEPT !.dc[c.nextexpire] = new, !.nextexpire = (@ % DC_ENTRIES) + 1]

\* The entries of a listing of dir, one after the other.
NoticeAll(c, dir, names) ==
    LET f[k \in 0..Len(names)] ==
            IF k = 0 THEN c
            ELSE lsftp_dc_notice(f[k - 1], Append(dir, names[k].name), names[k].attrib)
    IN  f[Len(names)]

\* The test for a link also catches regular files: only directories are
\* answered from the cache.
CachedDir(c, name) ==
    LET found == lsftp_dc_index(c, name)
    IN  found # {} /\ c.dc[Least(found)].type = "dir"

\* A pattern is a name, "*" for the names that do not begin with a period,
\* ".*" for those that do, or "" for the directory itself.
lsftp_dc_glob_matches(name, pat) ==
    \/ name = pat
    \/ pat = "*" /\ name \notin Hidden
    \/ pat = ".*" /\ name \in Hidden

(***************************************************************************)
(* The callback tables.                                                    *)
(***************************************************************************)

\* Ids start at 2; a call that finds no slot has used one up and returns -1.
lsftp_install_lsftp_cb(c, nextfun, local, remote, pre) ==
    LET free == {i \in 1..CALLBACKS : c.lcbs[i].op_id = 0}
        op == c.nop + 1
    IN  IF free = {} THEN [c EXCEPT !.nop = op, !.id = -1]
        ELSE [c EXCEPT !.nop = op, !.id = op,
                  !.lcbs[Least(free)] = [op_id |-> op, nextfun |-> nextfun, local |-> local,
                                         remote |-> remote, pre |-> pre]]

lsftp_remove_lsftp_cb(c, op) ==
    [c EXCEPT !.lcbs = [i \in 1..CALLBACKS |-> IF c.lcbs[i].op_id = op THEN NoCallback ELSE c.lcbs[i]]]

\* Mutant: the last slot of the table is never used.
InstallSftpCbOneShort(c, st) ==
    LET free == {i \in 1..(CALLBACKS - 1) : c.scbs[i].id = 0}
    IN  IF free = {} THEN c ELSE [c EXCEPT !.scbs[Least(free)] = st]

\* With no slot left the state is dropped and nobody is told.
lsftp_install_sftp_cb(c, st) ==
    LET free == {i \in 1..CALLBACKS : c.scbs[i].id = 0}
    IN  IF free = {} THEN c ELSE [c EXCEPT !.scbs[Least(free)] = st]

lsftp_compact_lsftp_cbs(c) ==
    LET Used(l) == l.op_id # 0
        kept == SelectSeq(c.lcbs, Used)
    IN  [c EXCEPT !.lcbs = kept \o [i \in 1..(CALLBACKS - Len(kept)) |-> NoCallback]]

lsftp_compact_sftp_cbs(c) ==
    LET Used(st) == st.id # 0 /\ st.nextfun # "none"
        kept == SelectSeq(c.scbs, Used)
    IN  [c EXCEPT !.scbs = kept \o [i \in 1..(CALLBACKS - Len(kept)) |-> sftp_null_state]]

lsftp_sftp_init(c) == lsftp_compact_lsftp_cbs(lsftp_compact_sftp_cbs(c))

(***************************************************************************)
(* Starting an operation: a slot, the last packet out of the way, the      *)
(* first request, and the state that waits for its reply.                  *)
(***************************************************************************)
lsftp_want_to_write(c) == c.up /\ c.out # NoPacket

lsftp_safe_to_write(c) ==
    IF lsftp_want_to_write(c) THEN [c EXCEPT !.wire = Append(@, c.out), !.out = NoPacket] ELSE c

Begin(c, nextfun, local, remote, pre) ==
    lsftp_safe_to_write(lsftp_install_lsftp_cb(c, nextfun, local, remote, pre))

\* b is the client after Begin and r what the _init function made of it.
Started(b, r) ==
    IF b.id = -1 THEN b
    ELSE IF r.st.nextfun = "none" THEN [lsftp_remove_lsftp_cb(r.c, b.id) EXCEPT !.id = -1]
    ELSE lsftp_install_sftp_cb(r.c, r.st)

lsftp_do_stat(c, p) ==
    LET b == Begin(c, "lsftp_handle_stat", <<>>, p, <<>>) IN Started(b, sftp_stat_init(b, b.id, p))

lsftp_do_realpath(c, p) ==
    LET b == Begin(c, "lsftp_handle_realpath", <<>>, p, <<>>)
    IN  Started(b, sftp_realpath_init(b, b.id, p))

lsftp_internal_ls(c, p) ==
    LET b == Begin(c, "lsftp_handle_internal_ls", <<>>, p, <<>>)
    IN  Started(b, sftp_ls_init(b, b.id, p))

\* One of the listings of lsftp_do_ls.
LsOne(c, p) ==
    LET b == Begin(c, "lsftp_handle_ls", <<>>, p, <<>>) IN Started(b, sftp_ls_init(b, b.id, p))

\* Every directory that matched; the id is the last one's.
lsftp_do_ls(c, dirs) ==
    LET f[k \in 0..Len(dirs)] == IF k = 0 THEN [c EXCEPT !.id = 0] ELSE LsOne(f[k - 1], dirs[k])
    IN  f[Len(dirs)]

\* pre, for the properties, is what the transfer goes on from.
lsftp_do_get(c, local, remote, cont, io) ==
    LET old == Node(c.loc, local)
        pre == IF cont /\ old.type = "file" THEN old.data ELSE <<>>
        b == Begin(c, "lsftp_handle_get", local, remote, pre)
    IN  Started(b, sftp_get_file_init(b, b.id, remote, local, cont, io))

lsftp_do_put(c, local, remote, cont) ==
    LET b == Begin(c, "lsftp_handle_put", local, remote, <<cont>>)
    IN  Started(b, sftp_put_file_init(b, b.id, remote, local, cont))

lsftp_do_chown(c, p, uid, gid) ==
    LET b == Begin(c, "lsftp_handle_chall", <<>>, p, <<>>)
    IN  Started(b, sftp_setstat_init(b, b.id, p,
                       [flags |-> {"UIDGID"}, uid |-> uid, gid |-> gid]))

lsftp_do_mv(c, src, dst) ==
    LET b == Begin(c, "lsftp_handle_alldir", src, dst, <<>>)
    IN  Started(b, sftp_rename_init(b, b.id, src, dst))

lsftp_do_ln(c, link, target) ==
    LET b == Begin(c, "lsftp_handle_alldir", link, target, <<>>)
    IN  Started(b, sftp_symlink_init(b, b.id, link, target))

lsftp_do_mkdir(c, p) ==
    LET b == Begin(c, "lsftp_handle_alldir", <<>>, p, <<>>) IN Started(b, sftp_mkdir_init(b, b.id, p))

lsftp_do_rmdir(c, p) ==
    LET b == Begin(c, "lsftp_handle_alldir", <<>>, p, <<>>) IN Started(b, sftp_rmdir_init(b, b.id, p))

lsftp_do_rm(c, p) ==
    LET b == Begin(c, "lsftp_handle_alldir", <<>>, p, <<>>) IN Started(b, sftp_remove_init(b, b.id, p))

(***************************************************************************)
(* What is done when the last reply of an operation has come.              *)
(***************************************************************************)
Transferred(c, kind, st, l) ==
    [c EXCEPT !.last = [kind |-> kind, local |-> l.local, remote |-> l.remote, pre |-> l.pre,
                        ok |-> ~st.localerr /\ st.bad_status = "OK"
                               /\ st.retval \in (IF kind = "get" THEN {"OK", "EOF"} ELSE {"OK"})]]

lsftp_handle_get(c, st, l) == Transferred(c, "get", st, l)
lsftp_handle_put(c, st, l) == Transferred(c, "put", st, l)

lsftp_handle_ls(c, st, l) == NoticeAll(c, l.remote, st.names)

lsftp_handle_internal_ls(c, st, l) ==
    IF st.retval \notin {"OK", "EOF", "NO_SUCH_FILE", "FAILURE"} THEN [c EXCEPT !.dirinfo = NoList]
    ELSE [NoticeAll(c, l.remote, st.names) EXCEPT
              !.dirinfo = List([k \in DOMAIN st.names |-> Append(l.remote, st.names[k].name)])]

lsftp_handle_stat(c, st, l) == IF st.retval = "OK" THEN [c EXCEPT !.attrib = st.attrib] ELSE c

lsftp_handle_realpath(c, st, l) ==
    IF st.names = <<>> THEN c ELSE [c EXCEPT !.real = List(Last(st.names).name)]

Handle(c, st, l) ==
    CASE l.nextfun = "lsftp_handle_get"         -> lsftp_handle_get(c, st, l)
      [] l.nextfun = "lsftp_handle_put"         -> lsftp_handle_put(c, st, l)
      [] l.nextfun = "lsftp_handle_ls"          -> lsftp_handle_ls(c, st, l)
      [] l.nextfun = "lsftp_handle_internal_ls" -> lsftp_handle_internal_ls(c, st, l)
      [] l.nextfun = "lsftp_handle_stat"        -> lsftp_handle_stat(c, st, l)
      [] l.nextfun = "lsftp_handle_realpath"    -> lsftp_handle_realpath(c, st, l)
      [] OTHER -> c

\* A chain that ends in an error of the local file without a close leaves
\* behind the handle it had, or was given in the reply.
Leaves(st, m, r) ==
    r.st.localerr /\ r.c.out.msg # "CLOSE" /\ (st.handle # 0 \/ m.msg = "HANDLE")

\* What nextfun made of the reply m for the state in slot i: when the chain
\* has ended the operation is told and both slots are free.
MovedOn(c, i, m, r) ==
    LET left == [r.c EXCEPT !.lost = @ + IF Leaves(c.scbs[i], m, r) THEN 1 ELSE 0]
        freed == [left EXCEPT !.scbs[i] = sftp_null_state]
        ops == {j \in 1..CALLBACKS : c.lcbs[j].op_id = r.st.op_id}
        j == Least(ops)
    IN  IF r.st.id # 0 THEN [r.c EXCEPT !.scbs[i] = r.st]
        ELSE IF ops = {} THEN freed
        ELSE [Handle(freed, r.st, c.lcbs[j]) EXCEPT !.lcbs[j] = NoCallback]

\* A reply: the state with its id is moved on.  A reply nobody waits for is
\* ignored; one of a type the handler asserts against ends the program.
lsftp_handle_packet(c, m) ==
    LET mine == {i \in 1..CALLBACKS : m.id # 0 /\ c.scbs[i].id = m.id}
        i == Least(mine)
    IN  IF mine = {} THEN {c}
        ELSE IF m.msg \notin Expects(c.scbs[i].nextfun) THEN {[c EXCEPT !.dead = TRUE]}
        ELSE {MovedOn(c, i, m, NextFun(c, c.scbs[i], m, io)) :
                  io \in Failures(c.scbs[i].nextfun)}
=============================================================================
