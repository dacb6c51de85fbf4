--------------------------- MODULE SessionChannel ---------------------------
(***************************************************************************)
(* A session: the client (client_session.c) opens a channel, asks for a    *)
(* pty and a shell, and connects its stdin, stdout and stderr with those   *)
(* of the process the server (server_session.c) starts.  Both ends use     *)
(* channel.c (ChannelOps) and channel_io.c.                                *)
(*                                                                         *)
(* The io record of either end has a file for stdin, stdout and stderr:    *)
(*   open    fd >= 0         active  a callback is installed               *)
(*   len     bytes in the write buffer                                     *)
(* the client's action_next and action_done (from 0), and the server's     *)
(* process and pty.                                                        *)
(***************************************************************************)
EXTENDS ChannelOps, SequencesExt

CONSTANTS WINDOW_SIZE,  \* initial window of both ends
          MaxIn,        \* bound: bytes on the client's stdin
          MaxOut,       \* bound: bytes the process writes to each file
          MaxReadErrors, MaxWriteErrors  \* bounds: failing reads and writes

ASSUME WindowAssumption == WINDOW_SIZE \in Nat \ {0}

VARIABLES ep,      \* the endpoints, see ChannelOps
          opened,  \* the client has opened its session
          errors,  \* failing reads and writes so far
          input,   \* bytes read from the client's stdin
          output,  \* output[f]: bytes read from the process' stdout, stderr
          exited,  \* the process has exited, which the server has been told
          status   \* the client has received exit-status or exit-signal

vars == <<ep, opened, errors, input, output, exited, status>>

Other(p) == IF p = "client" THEN "server" ELSE "client"

(* lsh asks for a pty and then for a shell.  The shell is a serial action: *)
(* it waits for the replies to the earlier ones.                           *)
Actions == <<"pty", "shell">>
Serial(action) == action = "shell"

Closed == [open |-> FALSE, active |-> FALSE, len |-> 0]
Opened == [open |-> TRUE, active |-> FALSE, len |-> 0]

ClientFiles == [in |-> Opened, out |-> Opened, err |-> Opened, next |-> 0, done |-> 0]
ServerFiles == [in |-> Closed, out |-> Closed, err |-> Closed, process |-> FALSE, pty |-> FALSE]

Init ==
  /\ ep = [p \in {"client", "server"} |->
             [ch |-> <<Free>>, pending_close |-> FALSE, alive |-> TRUE,
              error |-> FALSE, out |-> <<>>]]
  /\ opened = FALSE
  /\ errors = [read |-> 0, write |-> 0]
  /\ input = 0
  /\ output = [f \in {"out", "err"} |-> 0]
  /\ exited = FALSE
  /\ status = FALSE

Chan(p) == ep[p].ch[1]
Active(p) == Is(ep[p], 1, "ACTIVE")

-----------------------------------------------------------------------------
(* channel_io.c.                                                           *)

channel_io_start_read(e, f) ==
  IF e.ch[1].io[f].open THEN [e EXCEPT !.ch[1].io[f].active = TRUE] ELSE e

channel_io_stop_read(e, f) == [e EXCEPT !.ch[1].io[f].active = FALSE]

channel_read_state_close(e, f) == [e EXCEPT !.ch[1].io[f] = Closed]

channel_write_state_close(e, f) ==
  IF ~e.ch[1].io[f].open THEN e
  ELSE channel_maybe_close([e EXCEPT !.ch[1].io[f].open = FALSE,
                                     !.ch[1].io[f].active = FALSE,
                                     !.ch[1].sinks = @ - 1], 1)

(* channel_io_write and channel_io_flush when the file accepts done of the *)
(* bytes; a file that has been flushed after EOF is closed by the caller.  *)
Written(e, f, length, done) ==
  LET left == e.ch[1].io[f].len + length - done
      g    == channel_adjust_rec_window([e EXCEPT !.ch[1].io[f].len = left,
                                                  !.ch[1].io[f].active = left > 0], 1, done)
  IN  IF left = 0 /\ e.ch[1].received_eof THEN channel_write_state_close(g, f) ELSE g

WriteFailed(e, f) == channel_write_state_close(channel_close(e, 1), f)

(* CHANNEL_EVENT_EOF: a file with nothing buffered is closed.              *)
CloseIfFlushed(e, f) == IF e.ch[1].io[f].len = 0 THEN channel_write_state_close(e, f) ELSE e

(* End of file in channel_io_read, and what its callers do then.           *)
ReadEof(e, f) ==
  LET g == [e EXCEPT !.ch[1].sources = @ - 1]
  IN  channel_read_state_close(IF g.ch[1].sources = 0 THEN channel_eof(g, 1) ELSE g, f)

-----------------------------------------------------------------------------
(* The client.                                                             *)

(* session_next_action: starts actions until a serial one has to wait.     *)
session_next_action(e) ==
  LET io == e.ch[1].io
      k  == Max({j \in io.next .. Len(Actions) :
                   \A i \in (io.next + 1) .. j : Serial(Actions[i]) => i - 1 <= io.done})
  IN  FoldLeft(LAMBDA f, action : channel_send_request(f, 1, action, TRUE),
               [e EXCEPT !.ch[1].io.next = k], SubSeq(Actions, io.next + 1, k))

(* CHANNEL_EVENT_CONFIRM in do_client_session_event.                       *)
ClientConfirmed(e, n) ==
  LET f == [e EXCEPT !.ch[n].sources = @ + 1, !.ch[n].sinks = @ + 3]
  IN  session_next_action(IF f.ch[n].send_window > 0 THEN channel_io_start_read(f, "in") ELSE f)

(* CHANNEL_EVENT_SUCCESS: a shell opens the window of the channel.         *)
ClientSuccess(e, n) ==
  LET a == Actions[e.ch[n].io.done + 1]
      f == [e EXCEPT !.ch[n].io.done = @ + 1]
  IN  session_next_action(IF a = "shell" THEN channel_start_receive(f, n, WINDOW_SIZE) ELSE f)

(* CHANNEL_EVENT_FAILURE: no pty is no reason to give up.                  *)
ClientFailure(e, n) ==
  LET a == Actions[e.ch[n].io.done + 1]
      f == [e EXCEPT !.ch[n].io.done = @ + 1]
  IN  IF a = "pty" THEN session_next_action(f) ELSE channel_close(f, n)

ClientAdjusted(e, n) == channel_io_start_read(e, "in")

ClientEof(e, n) == CloseIfFlushed(CloseIfFlushed(e, "out"), "err")

(* handle_exit_status, handle_exit_signal.                                 *)
handle_exit_status(e) == channel_maybe_close([e EXCEPT !.ch[1].sinks = @ - 1], 1)

(* do_kill_client_session: the connection is closed with its session.      *)
do_kill_client_session(e) ==
  IF Used(e) = {} THEN [e EXCEPT !.pending_close = TRUE, !.alive = FALSE] ELSE e

-----------------------------------------------------------------------------
(* The server.                                                             *)

(* spawn_process: with a pty, stdout and stderr are one file.  Data for    *)
(* the process is accepted from now on.                                    *)
spawn_process(e) ==
  LET pty  == e.ch[1].io.pty
      f    == [e EXCEPT !.ch[1].io.process = TRUE,
                        !.ch[1].io.in = Opened, !.ch[1].io.out = Opened,
                        !.ch[1].io.err = IF pty THEN Closed ELSE Opened,
                        !.ch[1].sources = @ + IF pty THEN 1 ELSE 2,
                        !.ch[1].sinks = @ + 2]
      g    == IF f.ch[1].send_window > 0
              THEN channel_io_start_read(channel_io_start_read(f, "out"), "err") ELSE f
  IN  channel_start_receive(g, 1, WINDOW_SIZE)

(* pty_request_handler and shell_request_handler; ok says that the pty or  *)
(* the process can be made.                                                *)
HandleRequest(e, request, want_reply, ok) ==
  CASE request = "pty" /\ ok /\ ~e.ch[1].io.pty /\ ~e.ch[1].io.process ->
         channel_request_reply([e EXCEPT !.ch[1].io.pty = TRUE], 1, want_reply, TRUE)
    [] request = "shell" /\ ok /\ ~e.ch[1].io.process ->
         channel_request_reply(spawn_process(e), 1, want_reply, TRUE)
    [] OTHER -> channel_request_reply(e, 1, want_reply, FALSE)

ServerAdjusted(e, n) == channel_io_start_read(channel_io_start_read(e, "out"), "err")

ServerEof(e, n) == CloseIfFlushed(e, "in")

(* Mutant: the channel is closed when the process dies, whether or not all *)
(* of its output has been read.                                            *)
ExitShellCloses(e) == channel_close(channel_send_request(e, 1, "exit", FALSE), 1)

(* Mutant: no exit-status message is sent.                                 *)
ExitShellSilent(e) ==
  IF e.ch[1].sent_close THEN e
  ELSE channel_maybe_close([e EXCEPT !.ch[1].no_wait_for_eof = TRUE,
                                     !.ch[1].sinks = @ - 1], 1)

do_exit_shell(e) ==
  IF e.ch[1].sent_close THEN e
  ELSE LET f == channel_send_request(e, 1, "exit", FALSE)
       IN  channel_maybe_close([f EXCEPT !.ch[1].no_wait_for_eof = TRUE,
                                         !.ch[1].sinks = @ - 1], 1)

-----------------------------------------------------------------------------
Unchanged == UNCHANGED <<opened, errors, input, output, exited, status>>

(* do_open_session_action.                                                 *)
OpenSession ==
  /\ ~opened
  /\ opened' = TRUE
  /\ ep' = [ep EXCEPT !["client"] = channel_open_new_type(@, 1, 0, ClientFiles)]
  /\ UNCHANGED <<errors, input, output, exited, status>>

Incoming(p, type) ==
  /\ ep[p].alive
  /\ ep[Other(p)].out # <<>>
  /\ Head(ep[Other(p)].out).type = type

Next1(p) == Head(ep[Other(p)].out)

Take(p, e) ==
  ep' = [ep EXCEPT ![p] = IF p = "client" THEN do_kill_client_session(e) ELSE e,
                   ![Other(p)].out = Tail(@)]

(* Mutant: the window is open before there is a process.                   *)
ReceiveOpenWindow ==
  /\ Incoming("server", "OPEN")
  /\ LET e == handle_channel_open(ep["server"], Next1("server"))
     IN  Take("server", channel_open_confirm(e, 1, WINDOW_SIZE, ServerFiles))
  /\ Unchanged

(* do_open_session confirms at once; the window stays closed until there   *)
(* is a process.                                                           *)
ReceiveOpen ==
  /\ Incoming("server", "OPEN")
  /\ LET e == handle_channel_open(ep["server"], Next1("server"))
     IN  Take("server", channel_open_confirm(e, 1, 0, ServerFiles))
  /\ Unchanged

ReceiveConfirm ==
  /\ Incoming("client", "OPEN_CONFIRMATION")
  /\ Take("client", handle_open_confirm(ep["client"], Next1("client"), ClientConfirmed))
  /\ Unchanged

ReceiveReply ==
  /\ \/ /\ Incoming("client", "SUCCESS")
        /\ Take("client", handle_channel_reply(ep["client"], Next1("client"), ClientSuccess))
     \/ /\ Incoming("client", "FAILURE")
        /\ Take("client", handle_channel_reply(ep["client"], Next1("client"), ClientFailure))
  /\ Unchanged

ReceiveRequest ==
  /\ Incoming("server", "REQUEST")
  /\ LET m == Next1("server")
     IN  IF Active("server")
         THEN \E ok \in BOOLEAN :
                Take("server", HandleRequest(ep["server"], m.arg[1], m.arg[2], ok))
         ELSE Take("server", SSH_CONNECTION_ERROR(ep["server"]))
  /\ Unchanged

ReceiveExit ==
  /\ Incoming("client", "REQUEST")
  /\ IF Active("client")
     THEN Take("client", handle_exit_status(ep["client"])) /\ status' = TRUE
     ELSE Take("client", SSH_CONNECTION_ERROR(ep["client"])) /\ UNCHANGED status
  /\ UNCHANGED <<opened, errors, input, output, exited>>

ReceiveAdjust ==
  /\ \/ /\ Incoming("client", "ADJUST")
        /\ Take("client", handle_adjust_window(ep["client"], Next1("client"), ClientAdjusted))
     \/ /\ Incoming("server", "ADJUST")
        /\ Take("server", handle_adjust_window(ep["server"], Next1("server"), ServerAdjusted))
  /\ Unchanged

ReceiveEof ==
  /\ \/ /\ Incoming("client", "EOF")
        /\ Take("client", handle_channel_eof(ep["client"], Next1("client"), ClientEof))
     \/ /\ Incoming("server", "EOF")
        /\ Take("server", handle_channel_eof(ep["server"], Next1("server"), ServerEof))
  /\ Unchanged

ReceiveClose ==
  /\ \E p \in {"client", "server"} :
       Incoming(p, "CLOSE") /\ Take(p, handle_channel_close(ep[p], Next1(p)))
  /\ Unchanged

(* do_receive of either end: f is the file the data goes to.               *)
ReceiveInto(p, type, f) ==
  LET m == Next1(p)
      k == Accepted(ep[p], m)
      e == TakeData(ep[p], m)
  IN  /\ Incoming(p, type)
      /\ UNCHANGED <<opened, input, output, exited, status>>
      /\ \/ /\ k = 0
            /\ Take(p, ep[p])
            /\ UNCHANGED errors
         \/ /\ k > 0
            /\ \E done \in 0 .. (Chan(p).io[f].len + k) : Take(p, Written(e, f, k, done))
            /\ UNCHANGED errors
         \/ /\ k > 0
            /\ errors.write < MaxWriteErrors
            /\ errors' = [errors EXCEPT !.write = @ + 1]
            /\ Take(p, WriteFailed(e, f))

ReceiveData ==
  \/ ReceiveInto("client", "DATA", "out")
  \/ ReceiveInto("client", "EXTENDED_DATA", "err")
  \/ ReceiveInto("server", "DATA", "in")

(* oop_write_stdout, oop_write_stderr, oop_write_stdin.                    *)
Flush(p, f) ==
  /\ ep[p].alive /\ Active(p) /\ Chan(p).io[f].active
  /\ \E done \in 1 .. Chan(p).io[f].len :
       ep' = [ep EXCEPT ![p] = Written(@, f, 0, done)]
  /\ Unchanged

FlushError(p, f) ==
  /\ ep[p].alive /\ Active(p) /\ Chan(p).io[f].active
  /\ errors.write < MaxWriteErrors
  /\ errors' = [errors EXCEPT !.write = @ + 1]
  /\ ep' = [ep EXCEPT ![p] = WriteFailed(@, f)]
  /\ UNCHANGED <<opened, input, output, exited, status>>

Sinks == {<<"client", "out">>, <<"client", "err">>, <<"server", "in">>}

(* oop_read_stdin, oop_read_stdout, oop_read_stderr.                       *)
Readable(p, f) == ep[p].alive /\ Active(p) /\ Chan(p).io[f].active

ReadNothing(p, f) ==
  /\ Readable(p, f)
  /\ Chan(p).send_window = 0
  /\ ep' = [ep EXCEPT ![p] = channel_io_stop_read(@, f)]
  /\ Unchanged

ReadEnd(p, f) ==
  /\ Readable(p, f)
  /\ Chan(p).send_window > 0
  /\ ep' = [ep EXCEPT ![p] = ReadEof(@, f)]
  /\ Unchanged

ReadError(p, f) ==
  /\ Readable(p, f)
  /\ Chan(p).send_window > 0
  /\ errors.read < MaxReadErrors
  /\ errors' = [errors EXCEPT !.read = @ + 1]
  /\ ep' = [ep EXCEPT ![p] = channel_read_state_close(channel_close(@, 1), f)]
  /\ UNCHANGED <<opened, input, output, exited, status>>

ReadStdin ==
  /\ Readable("client", "in")
  /\ \E k \in 1 .. Chan("client").send_window :
       /\ input + k <= MaxIn
       /\ input' = input + k
       /\ ep' = [ep EXCEPT !["client"] = channel_transmit(@, 1, "DATA", k)]
  /\ UNCHANGED <<opened, errors, output, exited, status>>

ReadOutput(f) ==
  /\ Readable("server", f)
  /\ \E k \in 1 .. Chan("server").send_window :
       /\ output[f] + k <= MaxOut
       /\ output' = [output EXCEPT ![f] = @ + k]
       /\ ep' = [ep EXCEPT !["server"] =
            channel_transmit(@, 1, IF f = "out" THEN "DATA" ELSE "EXTENDED_DATA", k)]
  /\ UNCHANGED <<opened, errors, input, exited, status>>

Sources == {<<"client", "in">>, <<"server", "out">>, <<"server", "err">>}

(* The process dies and is reaped.  Its files may stay open in a child.    *)
ProcessExit ==
  /\ ep["server"].alive /\ Active("server")
  /\ Chan("server").io.process
  /\ ~exited
  /\ exited' = TRUE
  /\ ep' = [ep EXCEPT !["server"] = do_exit_shell(@)]
  /\ UNCHANGED <<opened, errors, input, output, status>>

Receive ==
  \/ ReceiveOpen \/ ReceiveConfirm \/ ReceiveReply \/ ReceiveRequest \/ ReceiveExit
  \/ ReceiveAdjust \/ ReceiveEof \/ ReceiveClose \/ ReceiveData

Next ==
  \/ OpenSession
  \/ Receive
  \/ ProcessExit
  \/ ReadStdin
  \/ \E f \in {"out", "err"} : ReadOutput(f)
  \/ \E s \in Sources :
       ReadNothing(s[1], s[2]) \/ ReadEnd(s[1], s[2]) \/ ReadError(s[1], s[2])
  \/ \E s \in Sinks : Flush(s[1], s[2]) \/ FlushError(s[1], s[2])

Spec == Init /\ [][Next]_vars

(* The event loop serves what is ready, the transport delivers, and the    *)
(* files connected to stdin, stdout and stderr accept data in the end.     *)
LiveSpec ==
  Spec /\ WF_vars(Receive) /\ \A s \in Sinks : WF_vars(Flush(s[1], s[2]))

-----------------------------------------------------------------------------
NoErrors == errors.read = 0 /\ errors.write = 0

(* The client and the server never make each other call                    *)
(* SSH_CONNECTION_ERROR in a session in which no read or write fails.      *)
NoProtocolError == NoErrors => \A p \in {"client", "server"} : ~ep[p].error

(* do_server_session_event reads in.state at CHANNEL_EVENT_EOF, and there  *)
(* is none before spawn_process.  The client cannot send EOF earlier: it   *)
(* does not read stdin while its send window is 0, and spawn_process opens *)
(* that window.                                                            *)
EofFindsProcess ==
  (Incoming("server", "EOF") /\ Active("server")) => Chan("server").io.process

(* doc/NOTES on session channels: "The channel is closed once the server   *)
(* has both encountered EOF on the process' stdout and stderr (resulting   *)
(* in a SSH_MSG_CHANNEL_EOF), and sent an exit-status or exit-signal       *)
(* message."  The server's CLOSE, unless it answers the client's, comes    *)
(* after both, if no read or write failed (a failing one closes at once).  *)
ServerClosesWithoutErrors ==
  [][ (/\ NoErrors' /\ Active("server") /\ Active("server")'
       /\ ~Chan("server").sent_close /\ Chan("server")'.sent_close)
      => exited' /\ Chan("server")'.sent_eof ]_vars

(* The client learns the exit status of the process before its session is  *)
(* over (handle_exit_status), if no read or write failed.                  *)
StatusReceived ==
  [][ (NoErrors' /\ Active("client") /\ ~Active("client")' /\ exited) => status' ]_vars

(* channel.h on sinks: "We should not send CHANNEL_CLOSE until we have     *)
(* received CHANNEL_EOF and all buffered data have been written to the     *)
(* sinks."  A client whose session ends has written all output.            *)
OutputWritten ==
  [][ (NoErrors' /\ Active("client") /\ ~Active("client")')
      => Chan("client").io.out.len = 0 /\ Chan("client").io.err.len = 0 ]_vars

(* A session whose process has exited and whose output has ended is over   *)
(* for the client in the end, though the client's stdin has not ended.     *)
SessionEnds ==
  (/\ exited /\ Active("server")
   /\ ~Chan("server").io.out.open /\ ~Chan("server").io.err.open)
    ~> Chan("client").state = "FREE"
=============================================================================
