------------------------------ MODULE MCLsftp -------------------------------
(* Small instances of Lsftp. *)
EXTENDS Lsftp

Cmd(name, args) == [name |-> name, args |-> args, rec |-> TRUE, cont |-> FALSE]
Root == <<>> :> Dir
A == <<"a">>
B == <<"b">>

MCCommands ==
    {Cmd("get", <<"a">>), [Cmd("get", <<"a">>) EXCEPT !.cont = TRUE],
     Cmd("put", <<"a">>), [Cmd("put", <<"a">>) EXCEPT !.cont = TRUE],
     Cmd("rm", <<"a">>), Cmd("rm -g", <<"*">>), Cmd("mkdir", <<"b">>),
     Cmd("ls", <<"">>), Cmd("ls", <<"*">>), Cmd("cd", <<"a">>),
     Cmd("mv", <<"a", "b">>), Cmd("ln", <<"a", "b">>),
     Cmd("chown", <<"a">>), Cmd("chgrp", <<"a">>)}

MCRemote ==
    {Root @@ (A :> File(<<0, 1, 1>>)), Root @@ (A :> Dir) @@ (<<"a", "h">> :> File(<<1>>))}

MCLocal ==
    {Root @@ (A :> File(<<0, 1, 1, 0>>)), Root @@ (A :> File(<<1, 1, 1, 1, 1>>))}
=============================================================================
