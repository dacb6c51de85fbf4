-------------------------- MODULE MCServerProcess --------------------------
(* Instances of ServerProcess: one connection with two sessions, with and  *)
(* without a helper, and two connections that use X11 forwarding.          *)
EXTENDS ServerProcess

Scene(script, hasHelper, single, root) ==
  [script |-> script, helper |-> hasHelper, single |-> single, root |-> root]

Two(a, b) == [s \in {<<1, 1>>, <<1, 2>>} |-> IF s[2] = 1 THEN a ELSE b]
Apart(a, b, d) == [s \in {<<1, 1>>, <<1, 2>>, <<2, 1>>} |->
                     IF s[1] = 2 THEN d ELSE IF s[2] = 1 THEN a ELSE b]

MCScenes ==
  {Scene(Two(<<"pty", "shell">>, <<"exec", "shell">>), TRUE, FALSE, FALSE),
   Scene(Two(<<"pty", "subsystem">>, <<"pty", "pty", "shell">>), TRUE, FALSE, FALSE),
   Scene(Two(<<"pty", "shell", "exec">>, <<"exec">>), FALSE, FALSE, FALSE),
   Scene(Two(<<"pty", "shell">>, <<"x11", "x11", "exec">>), TRUE, FALSE, TRUE),
   Scene(Apart(<<"x11">>, <<"x11">>, <<"x11">>), FALSE, FALSE, FALSE),
   Scene(Two(<<"x11", "exec">>, <<"x11">>), FALSE, TRUE, FALSE)}
=============================================================================
