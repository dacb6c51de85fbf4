-------------------------------- MODULE Lsftp --------------------------------
(***************************************************************************)
(* lsftp and the sftp-server at the other end of its transport: the        *)
(* commands (sftp/commands.c), the wait for the operations they start      *)
(* (lsftp_await_command), the event loop (lsftp_callback and the main loop *)
(* of sftp/lsftp.c) and the server's loop (sftp_main of sftp-server.c).    *)
(*                                                                         *)
(* A command runs in C functions that block in lsftp_await_command while   *)
(* the event loop serves all operations.  The part of it that is still to  *)
(* run is a stack of frames, todo: Step runs the frame on top when the     *)
(* operation await has ended.  Besides the fields of LsftpCalls c has      *)
(*   todo, await, ret, names    the stack, the operation it waits for, and *)
(*                              the results of isdir and of globbing       *)
(*   dead    the program has ended                                         *)
(***************************************************************************)
EXTENDS LsftpCalls

CONSTANTS Commands,     \* the command lines that may be typed
          MaxCommands,  \* how many of them
          MaxDepth,     \* paths longer than this are not found
          MaxOpens,     \* how often the connection is opened again
          RemoteFiles, LocalFiles   \* the files at the start

VARIABLES c,      \* lsftp
          rx,     \* the replies on their way to it
          s,      \* the server
          ncmd, nopen,    \* commands and connections so far
          base,   \* history: the last request id of earlier connections
          orig    \* history: the remote files when the command was given

vars == <<c, rx, s, ncmd, nopen, base, orig>>

Push(cl, frames) == [cl EXCEPT !.todo = frames \o @]
lsftp_await_command(cl) == [cl EXCEPT !.await = cl.id]
Path(g) == IF g.pat = "" THEN g.dir ELSE Append(g.dir, g.pat)
lsftp_qualify_path(cl, pat) == [dir |-> cl.curpath, pat |-> pat]

(***************************************************************************)
(* Is a remote name a directory?  ret becomes 1, 0, or -1 for unknown.     *)
(* rel tells a name the cache does not hold: it has absolute names without *)
(* a slash at the end.                                                     *)
(***************************************************************************)
Isdir(p, rel) == <<[f |-> "isdir", p |-> p, b |-> rel]>>

lsftp_dc_r_isdir(cl, p, rel) ==
    LET asked == lsftp_do_stat([cl EXCEPT !.attrib = Uninitialized], p)
    IN  IF ~rel /\ CachedDir(cl, p) THEN [cl EXCEPT !.ret = 1]
        ELSE IF asked.id <= 0 THEN [asked EXCEPT !.ret = -1]
        ELSE lsftp_await_command(Push(asked, <<[f |-> "isdir_answer", p |-> p]>>))

\* When the stat failed, the variable it should have filled has no value and
\* its flags are looked at all the same.
IsdirAnswer(cl, p) ==
    IF cl.attrib # Uninitialized THEN {[cl EXCEPT !.ret = IF cl.attrib.type = "dir" THEN 1 ELSE 0]}
    ELSE {[cl EXCEPT !.ret = v] : v \in IF Len(p) > MaxDepth THEN {-1} ELSE {-1, 0, 1}}

(***************************************************************************)
(* Globbing: list the directory of the pattern and keep what matches.      *)
(***************************************************************************)
Glob(g, nocheck) == Isdir(g.dir, TRUE) \o <<[f |-> "glob_ls", g |-> g, b |-> nocheck]>>

GlobLs(cl, g, nocheck) ==
    LET asked == lsftp_internal_ls([cl EXCEPT !.dirinfo = NoList], g.dir)
    IN  IF cl.ret = 0 THEN [cl EXCEPT !.names = List(IF nocheck THEN <<Path(g)>> ELSE <<>>)]
        ELSE Push(IF asked.id > 0 THEN lsftp_await_command(asked) ELSE asked,
                  <<[f |-> "glob_match", g |-> g, b |-> nocheck]>>)

GlobMatch(cl, g, nocheck) ==
    LET Matches(p) == lsftp_dc_glob_matches(Last(p), g.pat)
        found == SelectSeq(cl.dirinfo.list, Matches)
    IN  IF cl.dirinfo.null THEN [cl EXCEPT !.names = NoList]
        ELSE [cl EXCEPT !.names = List(IF found = <<>> /\ nocheck THEN <<Path(g)>> ELSE found)]

(***************************************************************************)
(* get, with everything below a directory.                                 *)
(***************************************************************************)
Get(p, dst, given) ==
    Isdir(p, FALSE) \o <<[f |-> "get_kind", p |-> p, q |-> dst, b |-> given]>>

GetKind(cl, t, io) ==
    LET asked == lsftp_do_stat(cl, t.p)
        wait == IF asked.id > 0 THEN lsftp_await_command(asked) ELSE asked
        got == lsftp_do_get(cl, t.q, t.p, cl.cont, io)
    IN  IF cl.ret = -1 THEN cl
        ELSE IF cl.ret = 0 THEN IF got.id > 0 THEN lsftp_await_command(got) ELSE got
        ELSE Push(wait, <<[t EXCEPT !.f = "get_mkdir"]>>)

\* The local directory; without a destination the remote name is made
\* absolute by the server.
GetMkdir(cl, t) ==
    LET old == Node(cl.loc, t.q)
        made == IF old.type = "dir" THEN cl ELSE [cl EXCEPT !.loc = With(@, t.q, Dir)]
        asked == lsftp_do_realpath([made EXCEPT !.real = NoList], t.p)
        listing == <<[t EXCEPT !.f = "get_list"]>>
    IN  IF old.type = "file" \/ (old.type = "none" /\ ~CanCreate(cl.loc, t.q)) THEN cl
        ELSE IF t.b THEN Push([made EXCEPT !.real = List(t.p)], listing)
        ELSE Push(IF asked.id > 0 THEN lsftp_await_command(asked) ELSE asked, listing)

\* remotewd has no value when realpath failed: an error message or a crash.
GetList(cl, t) ==
    LET dir == cl.real.list
    IN  IF cl.real.null THEN {cl, [cl EXCEPT !.dead = TRUE]}
        ELSE {Push(cl, Glob([dir |-> dir, pat |-> "*"], TRUE)
                       \o <<[f |-> "get_hidden", p |-> dir, q |-> t.q]>>)}

GetHidden(cl, t) ==
    Push(cl, Glob([dir |-> t.p, pat |-> ".*"], TRUE)
             \o <<[f |-> "get_each", p |-> t.p, q |-> t.q, n |-> cl.names]>>)

\* The matches of a second pattern after those of the first; a list there is
\* none of counts as empty.
lsftp_dc_r_contglob(names, more) == names.list \o more.list

GetEach(cl, t) ==
    LET all == lsftp_dc_r_contglob(t.n, cl.names)
        Below1(p) == Get(p, Append(t.q, Last(p)), TRUE)
    IN  Push(cl, FlattenSeq([k \in DOMAIN all |-> Below1(all[k])]))

\* com_get uses the list without a look at whether there is one.
GetMatches(cl) ==
    IF cl.names.null THEN [cl EXCEPT !.dead = TRUE]
    ELSE Push(cl, FlattenSeq([k \in DOMAIN cl.names.list |->
                      Get(cl.names.list[k], <<Last(cl.names.list[k])>>, FALSE)]))

(***************************************************************************)
(* put of a file.                                                          *)
(***************************************************************************)
put_file_or_folder(cl, name) ==
    LET put == lsftp_do_put(cl, <<name>>, Append(cl.curpath, name), cl.cont)
    IN  IF Node(cl.loc, <<name>>).type # "file" THEN cl
        ELSE IF put.id > 0 THEN lsftp_await_command(put) ELSE put

(***************************************************************************)
(* rm.  An error ends the removal of the whole argument or match; com_rm   *)
(* goes on with the next match, a frame "rm".                              *)
(***************************************************************************)
Rm(p, rec, rel) == Isdir(p, rel) \o <<[f |-> "rm_kind", p |-> p, b |-> rec]>>

RmFailed(cl) ==
    LET next == {k \in DOMAIN cl.todo : cl.todo[k].f = "rm"}
    IN  [cl EXCEPT !.todo = IF next = {} THEN <<>> ELSE SubSeq(@, Least(next), Len(@))]

RmKind(cl, t) ==
    LET removed == lsftp_do_rm(cl, t.p)
        each == <<[f |-> "rm_each", b |-> TRUE]>>
    IN  IF cl.ret = 0
        THEN IF removed.id > 0 THEN lsftp_await_command(removed) ELSE RmFailed(removed)
        ELSE IF cl.ret = -1 \/ ~t.b THEN RmFailed(cl)
        ELSE Push(cl, Glob([dir |-> t.p, pat |-> ".*"], FALSE) \o each
                      \o Glob([dir |-> t.p, pat |-> "*"], FALSE) \o each
                      \o <<[f |-> "rmdir", p |-> t.p]>>)

RmEach(cl, t) ==
    Push(cl, FlattenSeq([k \in DOMAIN cl.names.list |-> Rm(cl.names.list[k], t.b, FALSE)]))

\* What com_rm found when it globs.
RmMatches(cl, t) ==
    Push(cl, [k \in DOMAIN cl.names.list |-> [f |-> "rm", p |-> cl.names.list[k], b |-> t.b]])

RmDir(cl, t) ==
    LET removed == lsftp_do_rmdir(cl, t.p)
    IN  IF removed.id > 0 THEN lsftp_await_command(removed) ELSE RmFailed(removed)

(***************************************************************************)
(* mv and ln: the arguments are globbed once to count them and find the    *)
(* last, then once more to act on the others.  Nothing waits for the       *)
(* requests.                                                               *)
(***************************************************************************)
Twice(cmd, args) == [f |-> "count", cmd |-> cmd, left |-> args, all |-> args,
                     i |-> 0, j |-> 0, q |-> <<>>]

Count(cl, t) ==
    IF t.left # <<>> THEN Push(cl, Glob(Head(t.left), TRUE) \o <<[t EXCEPT !.f = "counted"]>>)
    ELSE IF t.cmd = "ln" /\ t.i = 1 THEN lsftp_do_ln(cl, Append(cl.curpath, Last(t.q)), t.q)
    ELSE IF t.i <= 1 THEN cl
    ELSE Push(cl, <<[t EXCEPT !.f = "act", !.left = t.all]>>)

Counted(cl, t) ==
    LET n == cl.names.list
    IN  IF cl.names.null THEN IF t.cmd = "ln" THEN cl ELSE [cl EXCEPT !.dead = TRUE]
        ELSE Push(cl, <<[t EXCEPT !.f = "count", !.left = Tail(@), !.i = @ + Len(n),
                                  !.q = IF n = <<>> THEN @ ELSE Last(n)]>>)

Act(cl, t) ==
    IF t.left = <<>> THEN cl
    ELSE Push(cl, Glob(Head(t.left), TRUE) \o <<[t EXCEPT !.f = "act_each"]>>)

ActEach(cl, t) ==
    LET n == cl.names.list
        One(k) == IF t.j + k = t.i THEN <<>>
                  ELSE (IF t.cmd = "ln" \/ t.i = 2 THEN Isdir(t.q, FALSE) ELSE <<>>)
                       \o <<[f |-> t.cmd, p |-> n[k], q |-> t.q, b |-> t.i = 2]>>
    IN  IF cl.names.null THEN [cl EXCEPT !.dead = TRUE]
        ELSE Push(cl, FlattenSeq([k \in DOMAIN n |-> One(k)])
                      \o <<[t EXCEPT !.f = "act", !.left = Tail(@), !.j = @ + Len(n)]>>)

Mv(cl, t) ==
    lsftp_do_mv(cl, t.p, IF ~t.b \/ cl.ret > 0 THEN Append(t.q, Last(t.p)) ELSE t.q)

Ln(cl, t) == lsftp_do_ln(cl, t.q, IF cl.ret = 1 THEN Append(t.q, Last(t.p)) ELSE t.p)

(***************************************************************************)
(* cd, ls, chown and chgrp.                                                *)
(***************************************************************************)
lsftp_do_cd(cl, dir) ==
    LET asked == lsftp_do_realpath([cl EXCEPT !.curpath = dir, !.real = NoList], dir)
    IN  Push(IF asked.id > 0 THEN lsftp_await_command(asked) ELSE asked, <<[f |-> "cd_real"]>>)

CdReal(cl) == IF cl.real.null THEN cl ELSE [cl EXCEPT !.curpath = cl.real.list]

CdTo(cl) ==
    IF cl.names.list = <<>> THEN lsftp_do_cd(cl, <<>>)
    ELSE Push(cl, Isdir(Head(cl.names.list), FALSE)
                  \o <<[f |-> "cd_kind", p |-> Head(cl.names.list)]>>)

CdKind(cl, t) == IF cl.ret < 1 THEN cl ELSE lsftp_do_cd(cl, t.p)

LsEach(cl) ==
    IF cl.names.null THEN cl ELSE lsftp_await_command(lsftp_do_ls(cl, cl.names.list))

Chown(cl, t) ==
    IF t.b THEN lsftp_do_chown(cl, t.p, 1, cl.attrib.gid)
    ELSE lsftp_do_chown(cl, t.p, cl.attrib.uid, 1)

(***************************************************************************)
(* The frame on top, and a command line.                                   *)
(***************************************************************************)
Run(cl, t) ==
    CASE t.f = "isdir"        -> {lsftp_dc_r_isdir(cl, t.p, t.b)}
      [] t.f = "isdir_answer" -> IsdirAnswer(cl, t.p)
      [] t.f = "glob_ls"      -> {GlobLs(cl, t.g, t.b)}
      [] t.f = "glob_match"   -> {GlobMatch(cl, t.g, t.b)}
      [] t.f = "get_matches"  -> {GetMatches(cl)}
      [] t.f = "get_kind"     -> {GetKind(cl, t, io) : io \in {"none", "early"}}
      [] t.f = "get_mkdir"    -> {GetMkdir(cl, t)}
      [] t.f = "get_list"     -> GetList(cl, t)
      [] t.f = "get_hidden"   -> {GetHidden(cl, t)}
      [] t.f = "get_each"     -> {GetEach(cl, t)}
      [] t.f = "rm_matches"   -> {RmMatches(cl, t)}
      [] t.f = "rm"           -> {Push(cl, Rm(t.p, t.b, FALSE))}
      [] t.f = "rm_kind"      -> {RmKind(cl, t)}
      [] t.f = "rm_each"      -> {RmEach(cl, t)}
      [] t.f = "rmdir"        -> {RmDir(cl, t)}
      [] t.f = "count"        -> {Count(cl, t)}
      [] t.f = "counted"      -> {Counted(cl, t)}
      [] t.f = "act"          -> {Act(cl, t)}
      [] t.f = "act_each"     -> {ActEach(cl, t)}
      [] t.f = "mv"           -> {Mv(cl, t)}
      [] t.f = "ln"           -> {Ln(cl, t)}
      [] t.f = "cd_real"      -> {CdReal(cl)}
      [] t.f = "cd_to"        -> {CdTo(cl)}
      [] t.f = "cd_kind"      -> {CdKind(cl, t)}
      [] t.f = "ls_each"      -> {LsEach(cl)}
      [] t.f = "chown"        -> {Chown(cl, t)}

com_chown(cl, p, owner) ==
    LET asked == lsftp_do_stat([cl EXCEPT !.attrib = Uninitialized], p)
    IN  IF asked.id <= 0 THEN asked
        ELSE lsftp_await_command(Push(asked, <<[f |-> "chown", p |-> p, b |-> owner]>>))

com_cd(cl, g) == Push(cl, Glob(g, TRUE) \o <<[f |-> "cd_to"]>>)

com_ls(cl, g) == Push(cl, Glob(g, TRUE) \o <<[f |-> "ls_each"]>>)

com_mkdir(cl, g) == lsftp_await_command(lsftp_do_mkdir(cl, Path(g)))

com_rm(cl, g, rec, globbing) ==
    Push(cl, IF globbing THEN Glob(g, TRUE) \o <<[f |-> "rm_matches", b |-> rec]>>
             ELSE Rm(Path(g), rec, TRUE))

com_get(cl, g, cont) ==
    Push([cl EXCEPT !.cont = cont], Glob(g, TRUE) \o <<[f |-> "get_matches"]>>)

com_put(cl, name, cont) == put_file_or_folder([cl EXCEPT !.cont = cont], name)

\* A command other than cd and open is refused without a connection.
handle_command(cl, cmd) ==
    LET arg(k) == lsftp_qualify_path(cl, cmd.args[k])
    IN  CASE ~cl.up /\ cmd.name # "cd" -> cl
          [] cmd.name = "cd"    -> com_cd(cl, arg(1))
          [] cmd.name = "ls"    -> com_ls(cl, arg(1))
          [] cmd.name = "mkdir" -> com_mkdir(cl, arg(1))
          [] cmd.name = "rm"    -> com_rm(cl, arg(1), cmd.rec, FALSE)
          [] cmd.name = "rm -g" -> com_rm(cl, arg(1), cmd.rec, TRUE)
          [] cmd.name = "get"   -> com_get(cl, arg(1), cmd.cont)
          [] cmd.name = "put"   -> com_put(cl, cmd.args[1], cmd.cont)
          [] cmd.name \in {"mv", "ln"} ->
                 Push(cl, <<Twice(cmd.name, [k \in DOMAIN cmd.args |-> arg(k)])>>)
          [] cmd.name \in {"chown", "chgrp"} -> com_chown(cl, Path(arg(1)), cmd.name = "chown")

(***************************************************************************)
(* The processes.                                                          *)
(***************************************************************************)
\* Mutant: a lost connection does not end the wait.
AwaitOverConnected(cl) ==
    cl.await <= 0 \/ \A i \in 1..CALLBACKS : cl.lcbs[i].op_id # cl.await

AwaitOver(cl) ==
    \/ ~cl.up
    \/ cl.await <= 0
    \/ \A i \in 1..CALLBACKS :
          /\ cl.lcbs[i].op_id # cl.await
          /\ cl.scbs[i].op_id # cl.await \/ cl.scbs[i].nextfun = "none"

InLoop(cl) == cl.todo = <<>> \/ ~AwaitOver(cl)

Client(fs) ==
    [nid |-> 0, out |-> NoPacket, wire |-> <<>>, loc |-> fs, up |-> TRUE,
     scbs |-> [i \in 1..CALLBACKS |-> sftp_null_state],
     lcbs |-> [i \in 1..CALLBACKS |-> NoCallback],
     nop |-> 1, id |-> 0, curpath |-> <<>>,
     dc |-> [i \in 1..DC_ENTRIES |-> NoEntry], nextexpire |-> 1,
     dirinfo |-> NoList, attrib |-> Uninitialized, real |-> NoList, last |-> NoTransfer, lost |-> 0,
     todo |-> <<>>, await |-> 0, ret |-> 0, names |-> NoList, cont |-> TRUE, dead |-> FALSE]

Init ==
    /\ \E l \in LocalFiles, r \in RemoteFiles : c = Client(l) /\ s = sftp_init(r)
    /\ rx = <<>> /\ ncmd = 0 /\ nopen = 0 /\ base = 0 /\ orig = <<>>

\* A line is read while the main loop is idle or serves operations that no
\* command waits for.
Command ==
    /\ ncmd < MaxCommands /\ ~c.dead /\ c.todo = <<>> /\ AwaitOver(c)
    /\ \E cmd \in Commands : c' = handle_command([c EXCEPT !.await = 0, !.last = NoTransfer], cmd)
    /\ ncmd' = ncmd + 1
    /\ orig' = IF c.out = NoPacket /\ c.wire = <<>> THEN s.fs ELSE <<>>
    /\ UNCHANGED <<rx, s, nopen, base>>

\* lsftp_await_command has returned and the command goes on.
Step ==
    /\ ~c.dead /\ c.todo # <<>> /\ AwaitOver(c)
    /\ c' \in Run([c EXCEPT !.todo = Tail(@), !.await = 0], Head(c.todo))
    /\ UNCHANGED <<rx, s, ncmd, nopen, base, orig>>

\* lsftp_callback writes the packet there is, and reads only without one.
ClientWrite ==
    /\ ~c.dead /\ InLoop(c) /\ lsftp_want_to_write(c)
    /\ c' = lsftp_safe_to_write(c)
    /\ UNCHANGED <<rx, s, ncmd, nopen, base, orig>>

ClientRead ==
    /\ ~c.dead /\ InLoop(c) /\ c.up /\ ~lsftp_want_to_write(c) /\ rx # <<>>
    /\ c' \in lsftp_handle_packet(c, Head(rx))
    /\ rx' = Tail(rx)
    /\ UNCHANGED <<s, ncmd, nopen, base, orig>>

\* A request that is not understood is answered and ends the server.
ServerStep ==
    /\ c.wire # <<>>
    /\ LET r == sftp_process(s, Head(c.wire))
       IN  /\ s' = IF r.ok THEN r.s ELSE sftp_init(r.s.fs)
           /\ c' = [c EXCEPT !.wire = IF r.ok THEN Tail(@) ELSE <<>>]
           /\ rx' = Append(rx, r.reply)
    /\ UNCHANGED <<ncmd, nopen, base, orig>>

\* close, or the death of the transport: the server goes away with its
\* handles, and the callback tables stay as they are.
lsftp_close_connection ==
    /\ ~c.dead /\ c.up /\ nopen < MaxOpens
    /\ c' = [c EXCEPT !.up = FALSE, !.wire = <<>>, !.last = NoTransfer, !.lost = 0]
    /\ rx' = <<>>
    /\ s' = sftp_init(s.fs)
    /\ UNCHANGED <<ncmd, nopen, base, orig>>

\* open: new buffers, the tables compacted, and cd to the home directory.
com_open ==
    /\ ~c.dead /\ ~c.up /\ c.todo = <<>>
    /\ c' = lsftp_do_cd(lsftp_sftp_init([c EXCEPT !.up = TRUE, !.out = NoPacket,
                                                 !.await = 0]), <<>>)
    /\ nopen' = nopen + 1
    /\ base' = c.nid
    /\ UNCHANGED <<rx, s, ncmd, orig>>

Next == Command \/ Step \/ ClientWrite \/ ClientRead \/ ServerStep
        \/ lsftp_close_connection \/ com_open

Spec == Init /\ [][Next]_vars

(***************************************************************************)
(* Properties.                                                             *)
(***************************************************************************)
Outstanding == LET sent == c.wire \o rx
               IN  {sent[i].id : i \in DOMAIN sent} \cup (IF c.out = NoPacket THEN {} ELSE {c.out.id})

Padded(data, n) == data \o [i \in 1..(n - Len(data)) |-> 0]

\* A transfer that ended without an error (sftp_get_file_main,
\* sftp_put_file_main) has made the two files the same, where the part that
\* was there before agreed; a local file may lack zeros at its end.
TransferComplete ==
    c.last.kind # "none" /\ c.last.ok =>
        LET l == c.loc[c.last.local].data
            r == s.fs[Follow(s.fs, c.last.remote)].data
            old == Node(orig, c.last.remote)
        IN  IF c.last.kind = "get"
            THEN IsPrefix(c.last.pre, r) => Len(l) <= Len(r) /\ Padded(l, Len(r)) = r
            ELSE /\ orig # <<>>
                 /\ \/ c.last.pre = <<FALSE>> \/ old.type = "none"
                    \/ old.type = "file" /\ IsPrefix(old.data, l)
                 => r = l

\* Every operation has exactly one callback state, and the other way round,
\* also across lost connections: a state that lsftp_install_sftp_cb drops for
\* want of a slot would leave an operation that is never told.  While the
\* connection is up, every state of this connection waits for exactly one
\* request or reply that is on its way, of a type that it can handle.
OperationsTracked ==
    /\ \A j \in 1..CALLBACKS : c.lcbs[j].op_id # 0 =>
          Cardinality({i \in 1..CALLBACKS :
              c.scbs[i].id # 0 /\ c.scbs[i].op_id = c.lcbs[j].op_id}) = 1
    /\ \A i \in 1..CALLBACKS : c.scbs[i].id # 0 =>
          Cardinality({j \in 1..CALLBACKS : c.lcbs[j].op_id = c.scbs[i].op_id}) = 1
    /\ c.up /\ ~c.dead =>
          /\ \A i \in 1..CALLBACKS : c.scbs[i].id > base =>
                /\ c.scbs[i].id \in Outstanding
                /\ \A j \in 1..CALLBACKS \ {i} : c.scbs[j].id # c.scbs[i].id
          /\ \A k \in DOMAIN rx, i \in 1..CALLBACKS :
                rx[k].id = c.scbs[i].id => rx[k].msg \in Expects(c.scbs[i].nextfun)

\* When nothing is under way any more the server has no open handle left but
\* those of transfers that a failing system call on the local file has cut
\* short (LocalError): every chain of callbacks that a reply ends closes the
\* handle it was given, whichever reply that is (sftp_handle_status).
HandlesReleased ==
    c.up /\ Outstanding = {} =>
        Cardinality({h \in 1..SFTP_MAX_HANDLES : sftp_handle_used(s, h)}) <= c.lost

\* lsftp_await_command never waits for good: while a command waits there is
\* a packet to send, a request at the server or a reply to read, whatever
\* connections were lost before.
NeverStuck ==
    ~c.dead /\ ~AwaitOver(c) => lsftp_want_to_write(c) \/ c.wire # <<>> \/ rx # <<>>
=============================================================================
