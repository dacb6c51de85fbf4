# A TLA+ model of lsh

lsh is an implementation of the ssh protocol: the client `lsh` with its
transport process `lsh-transport`, the server `lshd` with the services
`lshd-userauth` and `lshd-connection` and the helper `lshd-pty-helper`, the file
transfer programs `lsftp` and `sftp-server`, and libspki with its tools. Each
program is a single-threaded event loop whose handlers run to completion, so that
a handler is one atomic step. What interleaves are the handlers of one program,
the programs at the two ends of a connection with packets under way between them,
the processes of one machine, and the kernel, which decides how much a read or
write moves, whether it fails, and when a process dies. The modules model that:
an action per handler, the packets under way as sequences, and the kernel's
choices as nondeterminism.

Where a program waits inside a handler (lshd-connection for its child or for the
pty helper, lsftp in lsftp_await_command, lshd-userauth between its requests), the
model has a step up to the wait and a step after it.

## Parts of the system

| part | sources (src/src unless named) | modules |
|---|---|---|
| channel table | connection.c | NumberPool, ChannelTable, ChannelTableProofs |
| channels | channel.c | ChannelOps, used by ForwardChannel, SessionChannel, GatewayOps |
| forwarded channels, connecting | channel_forward.c, channel_io.c, tcpforward.c, io.c | ForwardChannel, TcpConnect |
| sessions | client_session.c, server_session.c, channel_io.c, client.c | SessionChannel |
| processes of the server | server_session.c, unix_process.c, reaper.c, server_pty.c, server_x11.c | ServerProcess, with ServerProcessProofs, ServerProcessAnswers, ServerProcessPrivate |
| pty helper | lshd-pty-helper.c, pty-helper.c | PtyHelper, in ServerProcess |
| transport, key exchange, packet forwarding | transport.c, transport_write.c, keyexchange.c, transport_forward.c and others | TransportOps, Transport |
| gateway, global requests, forwarded ports | gateway.c, gateway_channel.c, gateway_x11.c, gateway_tcpforward.c, client_tcpforward.c, server_tcpforward.c | GatewayOps, Gateway |
| login | lsh.c, lsh-transport.c, lshd.c, lshd-userauth.c | UserAuth, Login, LoginProofs |
| command lines, configuration, start | argp, server_config.c, lshd.c, lsh.c, lsh-transport.c, daemon.c and others | Options, ServerOptions, ClientOptions, ConfigFile, Argp, Startup |
| sftp server and client | src/sftp | SftpServer, SftpClient, LsftpCalls, Lsftp |
| libspki, its users and tools | src/spki, spki.c | SpkiTag, SpkiDb, Spki |

They interact like this. lshd accepts a connection and exchanges keys with
lsh-transport (Transport); it starts lshd-userauth, which starts lshd-connection
as the user once the login has succeeded (Login), each with a command line made
from the configuration of its parent (Startup). From then on the transport
processes pass packets between lsh and lshd-connection (transport_forward.c). There
channel.c handles them: it looks the channel up in the table (ChannelTable), checks
and changes the channel's flags and windows (ChannelOps), and calls the channel's
methods, which session and forwarding code implement with channel_io.c
(SessionChannel, ForwardChannel), or the gateway, which passes them on to another
lsh (Gateway). A session runs a process with or without a terminal (ServerProcess);
lsftp talks to sftp-server over such a session (Lsftp).

Two compositions justify an abstraction. ChannelTable implements NumberPool, and
ChannelOps uses a table of numbers that gives out the lowest free one, which is
what NumberPool says. TcpConnect's attempts are steps of ForwardChannel, so that
what a failed connection leaves behind is a state of the channel.

## Modules

Connection protocol:

- **ChannelTable** is connection.c with the operations of channel.c that take
  and release numbers. Its variables are the fields of `struct ssh_connection`;
  arrays keep the values of entries that were never initialized, so that the
  invariant can say none is used. An aborted assertion would show as a violated
  invariant.
- **NumberPool** is what the table promises: a set of numbers, of which the
  lowest free one is given out. ChannelTable implements it (NumberPoolSpec).
- **ChannelOps** has the operations of channel.c as operators from an endpoint
  to an endpoint. An endpoint is a record: its channels (by number), the flags
  of the connection, and `out`, the packets it has written and the other end has
  not read. A method of a channel (CHANNEL_EVENT, CHANNEL_SEND_ADJUST) is an
  operator argument, so that the whole handler, callback included, is one step.
  Data is its length.
- **TcpConnect** has the attempts to connect to the addresses of a target, in the
  order of the code, with what an attempt that fails at once, or later, leaves in
  the state that the event loop then kills.
- **ForwardChannel** has two endpoints that forward TCP connections to each
  other. An action is a handler: a packet that arrives, a readable or writable
  socket, an accepted connection, or the end of an attempt to connect. How many
  bytes a read or write moves, and whether it fails, is chosen with \E. `id`, `sent`
  and `got` are not in the code: they say which channel a packet belongs to.
- **SessionChannel** has a client session and a server session: opening, the
  queue of actions (pty, shell) with serial actions waiting for replies, process
  start, the three files of each end, process exit, and closing. `exec` differs
  from `shell` in the command only.
- **GatewayOps** has the pairs of channels of a gateway: what arrives on one is
  passed on over the other. **Gateway** has lsh with its connection to the server
  and its gateway clients: channels from both sides, channel requests and global
  requests with replies matched by order, forwarded ports, x11 channels, random
  data, and clients that come and go. A scenario bounds how often each happens.

Transport and login:

- **TransportOps** has the transport layer of one end as operators on its
  connection object: the write buffer with its collecting of small packets and its
  padding, sending and closing, and the steps of a key exchange. A packet carries
  the number of the exchange whose keys it was written with: that stands for
  encryption and MAC. Sizes are counted in small packets.
- **Transport** connects two such ends, lsh-transport and lshd, with their services
  behind them: handshake, key exchange, service request, authentication as request
  and answer, forwarding, re-exchange by timer, closing. Every callback chooses
  what the kernel does with its writes: `After` is the set of connections it may
  leave behind, over the outcomes of at most four write calls. What fails in a callback (no common
  algorithm, a signature, a weak key, a fork) is one choice. lsh-transport's kill
  method is `exit`, which Settled models: nothing the callback does afterwards
  happens. lshd goes on with the killed object.
- **UserAuth** has the handlers of lsh-transport, lshd and lshd-userauth for the
  login: account rules, methods, attempts, keys and passwords. **Login** runs them
  concurrently with lsh (its options for sessions and gateways, joining or stopping
  the gateway of an earlier lsh, forking lsh-transport) and with the questions to
  the user. Either end may be a foreign program that sends what lsh never sends.
  The transport is a reliable pair of queues here.

Start of programs:

- **Options**, **ServerOptions**, **ClientOptions** have the option tables and
  handlers; **ConfigFile** the tokenizer and parser of configuration files;
  **Argp** the parser of command lines (long, short, abbreviated and clustered
  options, `--`, arguments that are set aside, the order of handlers at the end).
  A word is a sequence of fragments long enough to tell abbreviations apart; a
  handler returns the parser with the configuration, an error or an exit.
- **Startup** has the processes: daemons that parse, open ports, go to the
  background, write a pid file, get SIGHUP, are killed and started again; the
  services they start; lsh that starts lsh-transport.

Local processes:

- **PtyHelper** is the table and the requests of lshd-pty-helper, with utmp and
  wtmp. **ServerProcess** has the lshd-connection processes of a machine with their
  helpers, the children they fork with the descriptors each process holds, signals
  and reaping, and X11 displays with their files. A session is a list of requests;
  `pc` says where lshd-connection waits. A handler has one action per way through
  it: a terminal granted or refused, a process started or failing at one of its
  system calls, a port bound or given up. Closing the synchronization pipe and
  executing the program are one step of the child, and a failed exec is a program
  that ends at once.

Files and certificates:

- **SftpServer** has every request of sftp-server on a small file system;
  **SftpClient** the callback chains of the client library; **LsftpCalls** the
  tables of callbacks and the directory cache of lsftp; **Lsftp** the commands, the
  wait for their operations and the loss of the connection. A command is a stack of
  frames that runs on when its operation has ended. Files are sequences of cells.
- **SpkiTag** has tags: the internal form, inclusion and intersection. **SpkiDb**
  has principals known by key or digest, ACLs, certificate sequences and reduction.
  **Spki** has two users of them, the client's spki_context and the four command
  line tools. A digest stands for the key it is computed from, a signature for the
  pair of signed data and key, with the expressions it is written as: RSA and DSA
  differ in what verifying leaves in the iterator. An assertion that ends the program
  (a prefix that is not a string) counts as a refusal.

MC modules hold the scenarios, accounts, files and command lines of the instances.
What the modules leave out of the code they map: the text of messages and logs,
parsing of packets that are well formed because the same code wrote them, the
position of data in buffers, and allocation failures.

## Runs

| run | instance | what it shows |
|---|---|---|
| channel_table | 4 numbers, 1 allocated at first | IndInv, the inductive invariant of the table, holds; a refused allocation means that all numbers are taken (ShortageIsReal); the table implements NumberPool |
| forward | 2 peers (symmetric), 2 numbers, 2 opens, window 1, 1 address, 1 socket error | no protocol error; a reused number gets no packet of the previous channel, except data after a failed write (below) |
| forward_flow | 1 channel, 3 addresses, window 2, 3 bytes each way, 1 socket error | what one end believes of a window is what the other granted, and buffers hold it (WindowsAgree); EOF comes after the data; reading resumes whenever it was stopped; a finished channel closes at both ends |
| session | window 2, 1 byte of input and of each output, 1 failing read, 1 failing write | EOF finds a process; without failures the server closes after EOF and exit status, and the client has the status before the CLOSE; sessions end |
| session_output_lost | 2 bytes each, no failures | a finding, below |
| transport | 2 data packets from the server, 1 re-exchange by either end at any time, 1 failure; a buffer of 11 small packets, 3 per large one, margin 8 | packets are read with the keys they were written with; no protocol error; nothing lost or reordered; no end waits for the other (NothingWaits) |
| gateway | 2 gateway clients, 2 ports, 2 channel numbers, window 1; five scenarios | no protocol error; EOF after all data; when all is quiet, lsh, the server and each client have the same channels, none half open, and ports and answers agree (ChannelsMatch, PortsAgree) |
| login | 7 accounts, 3 attempts; command lines with and without an earlier gateway, trust over two runs of lsh, users and methods, foreign servers and clients (4 messages) | only an account that may log in, proved by the request that names it, gets a service (LoginPermitted); the user is not named before the host key is trusted (HostKeyFirst); lsh gets its service or gives up (LoginEnds) |
| startup | short command lines in every spelling, several files, environments with and without HOME and a user name, two daemons with signals, failures and restarts | every program has exactly the options given to it or to its parent (EffectiveOptions, TransportGetsOptions); a pid file names the daemon that serves (PidFileOwned) |
| server_process | two sessions of one lshd-connection with and without a helper, three sessions of two processes for X11, displays 10 and 11, 1 failure | answers of the helper reach who asked; utmp shows who is there; every exit is reported once; descriptors do not leak into processes; displays are private; lshd-connection comes back to its event loop |
| sftp | 2 commands of 14 kinds, files of up to 5 cells, blocks of 2, buffer 1, 2 handles, 3 callbacks, 2 cache entries, connection lost and reopened once, any local call failing | transfers without an error are complete; every operation has one callback state and the other way round, and each state one request or reply under way that it can handle (OperationsTracked); handles are released, except after a local error (HandlesReleased); lsftp never waits for good |
| spki | 3 keys (one DSA), 2 ACL files, 2 certificates made with the tools, with and without signing, sequences and signatures of other software | spki_authorize grants exactly what the accepted ACLs say, in whatever order keys and digests were seen (AuthorizeExact); reduction gives rights only to keys the chain delegates to, and a signature check accepts what was signed and nothing else (HoldersOnly) |

Why the bounds are enough. Two opens reuse a number or use two at once, which is
all that packets of different channels can mix; a window of 2 has a partial
write, a used-up window and a window that is neither; three bytes on a window of
2 need an adjustment; one error reaches every error path, and two errors are two
ends closing, which happens without errors too. Three addresses reach every
combination of an attempt that fails at once and one that fails later. Four numbers
with one allocated at first make the table grow twice with free entries behind the
hint. The transport's numbers keep the order of the real ones (a large packet
exceeds the threshold, the margin is a large part of the buffer) so that two
unwritten large packets make the buffer almost full and stop the application; two
data packets may be split between the socket, the reader, the buffer and the
network; one re-exchange meets the first one and the service start. Two gateway
clients are needed for a reply that outlives its client. Three attempts reach the
limit of lshd-userauth after each kind of failure. Two sessions of one server
process share its helper, its descriptors and its wait for children; the helper's
table grows by 1 so that it grows for the second. The sftp files have a block that
is not full, a hole and more than two blocks; three callback slots are enough for
a command with its parallel operations and run out for one more; one reopened
connection meets the leftovers of the first. Three keys make two steps of
delegation and a bystander.
Deadlock is not checked where a system may come to rest (everything is closed).

Fairness. The liveness properties assume weak fairness of what the event loops do
when they are ready: packets under way are handled, a writable file is flushed, an
attempt to connect ends (forward_flow, session), each of lsh, the earlier gateway,
lsh-transport, lshd and lshd-userauth goes on when it can (login), and
lshd-connection, the helper and a starting child do (server_process). Each is a
process of its own that the kernel schedules, with an event loop that serves every
ready descriptor. In `login` the user answers the questions that are asked.
Nothing is assumed of the rest of the environment: no byte or EOF need ever arrive
at a source, no process need exit, no client need ask. In `forward_flow`, sockets
accept data in the end; a socket that never does blocks only its channel.

Transport, Gateway and Lsftp say what must eventually happen without fairness, as
invariants of the states in which nothing is ready (AtRest, Outstanding = {}): such
a state may last for ever, and NothingWaits, ChannelsMatch, PortsAgree,
HandlesReleased and NeverStuck say that nothing is left undone in it. That every
behaviour reaches such a state is not checked there.

## Proofs

TLAPS checks these theorems for every value of the constants.

**The channel table** (ChannelTableProofs). The assumption on the constants says no
more than that the initial size is positive and not above the limit.

- TableInvariant: IndInv is an invariant of Spec;
- CountIsExact, HintIsSafe and PendingCloseWaits: channel_count is the number of
  numbers in use, no number below next_channel is free, and a pending close ends
  the connection only when no channel is left;
- ShortageIsAlwaysReal: alloc_channel fails only when every number is taken;
- RefinesNumberPool: the table implements NumberPool.

None of these is inductive alone, and all follow from IndInv, which the run
channel_table also checks. Allocation uses `next_channel` and scans `used_channels`
entries: that it finds the lowest free number needs the bound on the hint, and that
entries up to used_channels are initialized and those above are free; that a count
of 0 means an empty table needs the exact count, whose preservation needs the
objects to match the allocation state (a number is released once). The proof has
one step per action and lemmas for alloc_channel and dealloc_channel, which several
actions share.

**Login** (LoginProofs), for every set of accounts and options, every limit on
attempts, and whatever a foreign client or server sends.

- LoginIsPermitted: only an account that may log in gets a service, with its own uid,
  and the request that was accepted proves who sent it. The property is not inductive
  because lshd-userauth takes the uid from its user record one step after it has
  accepted the request; LoginInv adds that in between the record is still that of the
  account the request names. The lemma SuccessProves does the rest: handle_publickey
  and handle_password succeed only for a user that lookup_user has found.
- HostKeyIsFirst: lsh-transport names no user before the host key is trusted.
  HostKeyInv adds which states of lsh-transport come after the check of the key.

**The processes of the server**, for any number of lshd-connection processes, of
sessions and of requests in them, any number of displays, and any number of failing
calls. Assumed is only that sessions are numbered per process and that display
numbers are natural numbers.

- DisplayIsKept (ServerProcessProofs): a session that listens has the socket of its
  display, which no other session removes, and its xauthority file. The xauthority
  file is excepted once any create_xauth has failed (`xfailed`, see below).
- ExitsAreReported (ServerProcessProofs): every child is waited for, its callback is
  called once, and no signal goes to a process that is not there. ExitsInv says for
  each session where its process is known: in the handlers of the reaper once
  spawn_process is through, in the parent's hands while it waits for the child, and
  in neither after it was reaped; the exit status is sent once, by whoever ends last
  of the reaper and the logout.
- AnswersDoMatch (ServerProcessAnswers): an answer of the helper is read by the
  process it is for, although the parent and its child read from one socket. SyncInv
  says that the parent waits as long as the child may talk to the helper; TalkInv that
  then at most one request or answer is under way, and whose it is. As in the run,
  connections are excepted whose child was killed in the middle (`torn`).
- DescriptorsArePrivate (ServerProcessPrivate): a process inherits nothing but its own
  stdio, and a closed session leaves no pipe open. PrivateInv says of every descriptor
  without close-on-exec that it belongs to the process being made, or to a session whose
  pty or pipes the code has lost (`leaky`).

All four use that a step of one lshd-connection leaves the others alone (LocalTo and
its lemmas), and that the session it works for is one of its own (CurInv).

Only model-checked: the other modules, and all liveness, which is out of the prover's
reach. So is what a sum or a count over the packets under way amounts to (WindowsAgree,
EofAfterData), because it takes an induction over the sequence; and what the recursive
definitions compute for every input: the parsers (ConfigFile, Argp) and the tags and
sequences (SpkiTag, SpkiDb, Spki) are checked over the inputs of their instances.
LoginsRecorded of the run server_process relates the helper's table, utmp and the
sessions of all its users; it has no proof yet.

## Finding

`session_output_lost`: a CLOSE that arrives while output is buffered for a slow
stdout discards that output, although channel.h (121-123) wants all buffered data
written first. Forwarded channels have the same weakness.

## Seen while modelling

What follows is how the code behaves; the models keep it, and where a property
excludes it the property's comment says so.

Channels and connections:

- channel_open_deny releases a number without testing pending_close, so a
  connection that waits for its last channel stays open when that channel is
  denied. channel_open_new_type does not test pending_close either, which
  connection.h says stops new channels.
- When an attempt to connect fails after it was in progress, the attempt for the
  next address is started by the error callback and killed by oop_io_connect right
  after it: the request is not answered. tcpforward_connect_error starts with the
  address that has just failed, because the loops return without advancing `next`.
  After a second failure at once, the assertion `self->super.fd < 0` of the third
  io_connect fails, since KILL_RESOURCE does nothing for a dead resource.
- A failing read of stdin between a request and its reply makes the client send
  WINDOW_ADJUST after CLOSE, which the server answers by disconnecting.
- A failing write to the process' stdin closes a session at once, before the
  remaining output and the exit status are sent.
- After a failing write, data of the other end may still be under way when the
  number is free again, and is accepted by a new channel of that number.
- handle_global_request answers a failure even when no reply was wanted.

Transport:

- transport_close with data still to be written leaves the read callback installed
  with ssh_input at -1; if the peer sends anything then, the assertion at the start
  of oop_read_ssh fails.
- forward_start_read does not look at packets that were read before the service
  was stopped (transport_forward.c has a FIXME): they wait in the reader until the
  service writes again. NothingLost counts them as under way.
- A re-exchange timer that fires before its end forwards does not stop the service
  that starts in the middle of the exchange, and the peer disconnects.
  NoProtocolError excludes this with `early`. The timer runs for 40 minutes.
- A DISCONNECT from a service is sent without push. If it is short it is only
  collected, no write is active, and transport_close discards it, although the
  comment in transport_close wants it "delivered properly".
- A failing write while lshd sends SERVICE_ACCEPT or finishes an exchange kills the
  connection, and the caller goes on with the dead object.

Gateway:

- A channel that the server confirms after its gateway client has died stays open.
- A request for a port that lsh refuses by itself is answered before earlier
  requests that wait, and the refused port stays in the list. PortsAgree excludes
  both with `crossed` and `refused`.
- client.c never clears write_blocked when the buffer has been emptied.

Login and start:

- `lsh --start-gateway` may join the gateway of an earlier lsh. The socket file of
  a stopped gateway stays.
- tried_empty_password and expect_info_request are not reset for another method.
- allow-publickey is off unless it is set; a default lshd-userauth without any
  allow option ends with a usage error.
- The first --pid-file, --host-key and --log-file count, and the last of most other
  options. `--no-pid-file` is overridden by the configuration file. `-n` inverts the
  next option that can be inverted, past all that cannot. A service defined twice is not detected.
- lsh passes the host to lsh-transport without a `--` before it, so lsh-transport takes
  one that starts with a dash for an option and ends. TransportGetsOptions says of
  such a host that lsh-transport connects to nothing. Without HOME lsh refuses to
  start; without a user name, or with a name that holds `%` or `/`, it refuses the
  gateway options, and lsh-transport ends when no user is given. `--no-pid-file` is checked through
  its effect on the configuration; it is no case of its own in PidFileOwned.
- The pid file is written after the forks and after the ports are open. An empty
  one, left by a crash, stops later daemons. SIGHUP leaves the process running
  without ports.

Processes of the server:

- The descriptor of a pty's master stays open in lshd-connection (make_pty clears
  `alive`), and a failed pipe or second dup leaves the descriptors made before it.
- A child that is killed between its LOGIN request and the answer leaves the answer
  in the socket for the next reader. AnswersMatch excludes this with `torn`.
- When create_xauth fails, because the xauthority file of that display exists,
  server_x11_setup kills the port, and do_kill_x11_listen_port unlinks the socket and
  the xauthority file, whoever made it. In between the display number is free: a
  session of another process that takes it may lose its new file to this second
  unlink. So DisplayKept promises the xauthority file only as long as no create_xauth
  has failed; the socket it promises always.
- A window-change before the shell is started is lost.
- A logout without a pty writes an empty utmp entry. do_kill_process signals once.

Files and certificates:

- A `get` of a file that ends in a whole block of zeros is short by that block,
  which sftp_c.c seeks over. TransferComplete allows it.
- A `put` after a failed WRITE reports the status of the CLOSE. The directory cache
  is not invalidated by other commands.
- A local error in a transfer (fchmod, lseek, read, write, close) ends the operation
  at once and leaves the handle of the remote file open until the connection ends;
  HandlesReleased counts these. A short write to a local file is not noticed by the
  code and not modelled.
- Chains of two certificates are not reduced to one entry. An intersection of two
  lists leaves out the elements that do not intersect. So HoldersOnly says who has
  rights, for how long, and with which permission to delegate, and does not say
  what the tag of the entry is.
- Verifying a DSA signature leaves the iterator inside the signature value, where
  spki_process_sequence goes on, so a certificate with such a signature is not
  accepted from a sequence. A key of type dsa-sha256 verifies nothing: the case label
  is that of the hash. A tag with a `prefix` that has no string ends the program with
  an assertion.
- An ACL without entries is refused; a file that fails half-way keeps the ACLs read
  before.

## Not modelled

- Cryptographic algorithms, compression, random numbers and the key tools are
  computations on bytes by libraries. That a signature, a MAC or a password is
  right is a choice or a fact of the instance.
- Garbage collection, resources and the containers are what the other modules take
  for granted. A resource that is killed twice, or a state that is used after it
  was killed, is modelled where the code does it (TcpConnect, Transport).
- The terminal of the client, the X11 packet it rewrites and the SOCKS server parse
  and rewrite bytes in one handler.
- The help output of argp is layout.
- Numbers that the kernel gives out again: in the instances of Startup and
  ServerProcess a process id and a terminal belong to one process for good. That a
  stale pid file is removed only when its daemon is gone is an assumption on who
  removes it (RemoveStale).
- Of the processes of the server: the descriptors of X11 ports and connections, which
  are all close-on-exec, are not part of DescriptorsPrivate; a failing lsh_pushd_fd,
  after which do_kill_x11_listen_port leaves the socket and the xauthority file where
  they are; lshd-connection exits on a read error at most as often as calls may fail.
- Re-exchanges in Login repeat the exchange with the same host key.
- The PAM and Kerberos helpers succeed or not.
- In the modules above: negotiation of algorithms and wrong guesses in KEXINIT (lsh
  never guesses), SRP, the retry of packets that a service's socket does not take,
  stopping and starting of all channels of a client, put of directories in lsftp,
  tcp displays. PROJECT.json says for every part what is left.
