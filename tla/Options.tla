------------------------------- MODULE Options -------------------------------
(***************************************************************************)
(* What the programs of lsh make of one option of the command line or one  *)
(* setting of a configuration file: the option tables and the handlers of  *)
(* lshd, lshd-userauth, lshd-connection, lsh and lsh-transport, and of the *)
(* groups of options they share (messages, algorithms, services).          *)
(*                                                                         *)
(* A string is an argument record: its leading dashes, its text as a       *)
(* sequence of fragments long enough to tell abbreviations apart, and what *)
(* follows an equal sign.  A handler takes the parser p (Argp.tla) and     *)
(* returns it with the configuration p.conf changed, with p.err set when   *)
(* the key is not its own, and with p.exit set when the program ends.      *)
(***************************************************************************)
EXTENDS Integers, Sequences, FiniteSets, SequencesExt

CONSTANTS HexWords,      \* the words lsh_string_hex_decode accepts
          SocketWords,   \* the words that name an open socket to --helper-fd
          GoodKeys,      \* the files that hold a usable host key
          Unwritable     \* the log files that cannot be opened

Word(text) == [dash |-> 0, text |-> text, eq |-> FALSE, value |-> <<>>]
Short(chars) == [dash |-> 1, text |-> chars, eq |-> FALSE, value |-> <<>>]
Long(name) == [dash |-> 2, text |-> name, eq |-> FALSE, value |-> <<>>]
LongWith(name, value) == [dash |-> 2, text |-> name, eq |-> TRUE, value |-> value]
(* NULL. *)
Nothing == [dash |-> -1, text |-> <<>>, eq |-> FALSE, value |-> <<>>]

Open == Word(<<"{">>)
Close == Word(<<"}">>)
Equal == Word(<<"=">>)

Opt(name, key, arg) == [name |-> name, key |-> key, arg |-> arg]

Set(p, field, v) == [p EXCEPT !.conf[field] = v]
Push(p, field, seq) == [p EXCEPT !.conf[field] = @ \o seq]
Unknown(p) == [p EXCEPT !.err = "EBADKEY"]

(* Prints a usage message and ends the program, unless ARGP_NO_EXIT. *)
argp_error(p) == IF p.no_exit THEN p ELSE [p EXCEPT !.exit = "usage"]
argp_failure(p) == IF p.no_exit THEN p ELSE [p EXCEPT !.exit = "failure"]

----------------------------------------------------------------------------
(* Messages: werror_config. *)

init_werror_config == [quiet |-> -1, verbose |-> -1, trace |-> -1, debug |-> -1,
                       syslog |-> -1, logfile |-> Nothing, messages |-> "stderr"]

werror_options == <<Opt(<<"quiet">>, "q", "none"), Opt(<<"verbose">>, "v", "none"),
                    Opt(<<"trace">>, "WERROR_TRACE", "none"), Opt(<<"debug">>, "WERROR_DEBUG", "none"),
                    Opt(<<"log-file">>, "WERROR_LOGFILE", "required")>>

Verbosities == [q |-> "quiet", v |-> "verbose", WERROR_TRACE |-> "trace", WERROR_DEBUG |-> "debug"]

werror_argp_parser(p, key, arg) ==
  CASE key \in DOMAIN Verbosities -> Set(p, Verbosities[key], 1)
    [] key = "WERROR_LOGFILE" ->
         IF p.conf.logfile = Nothing THEN Set(Set(p, "logfile", arg), "syslog", 0) ELSE p
    [] key = "END" -> p
    [] OTHER -> Unknown(p)

(* Mutant of Default: the last setting wins. *)
DefaultLast(c, field, v) == [c EXCEPT ![field] = v]

(* The first setting of a value wins, and one of the command line is first. *)
Default(c, field, v) == IF c[field] < 0 THEN [c EXCEPT ![field] = v] ELSE c

werror_config_handler(c, key, v) ==
  CASE key \in DOMAIN Verbosities -> Default(c, Verbosities[key], v.n)
    [] key = "WERROR_SYSLOG" -> Default(c, "syslog", v.n)
    [] key = "WERROR_LOGFILE" -> IF c.logfile = Nothing THEN [c EXCEPT !.logfile = v.word] ELSE c
    [] OTHER -> c

(* Where messages go once werror_init has run. *)
werror_init(p) ==
  IF p.conf.syslog > 0 THEN Set(p, "messages", "syslog")
  ELSE IF p.conf.logfile = Nothing THEN Set(p, "messages", "stderr")
  ELSE IF p.conf.logfile \in Unwritable THEN argp_failure(p)
  ELSE Set(p, "messages", "logfile")

(* The message options a program passes on to the program it starts. *)
VerbosityArgs(c) ==
  (IF c.verbose > 0 THEN <<Short(<<"v">>)>> ELSE <<>>)
    \o (IF c.quiet > 0 THEN <<Short(<<"q">>)>> ELSE <<>>)
    \o (IF c.debug > 0 THEN <<Long(<<"debug">>)>> ELSE <<>>)
    \o (IF c.trace > 0 THEN <<Long(<<"trace">>)>> ELSE <<>>)

----------------------------------------------------------------------------
(* Algorithms.  One name stands for the names an algorithm goes by. *)

default_crypto_algorithms == <<"aes128-ctr", "3des-cbc", "blowfish-cbc", "arcfour">>
all_crypto_algorithms == <<"aes128-cbc", "aes128-ctr", "aes256-cbc", "aes256-ctr", "3des-cbc", "3des-ctr",
                           "twofish-cbc", "cast128-cbc", "serpent256-cbc", "blowfish-cbc", "arcfour">>
default_mac_algorithms == <<"hmac-sha1", "hmac-md5">>
default_compression_algorithms == <<"none", "zlib">>
prefer_compression_algorithms == <<"zlib", "none">>
default_hostkey_algorithms == <<"ssh-rsa", "ssh-dss">>
default_kex_algorithms == <<"diffie-hellman-group14-sha1", "diffie-hellman-group1-sha1">>

algorithms_options == <<Opt(<<"c", "rypto">>, "c", "required"), Opt(<<"c", "ompression">>, "z", "optional"),
                        Opt(<<"mac">>, "m", "required"),
                        Opt(<<"host", "key-algorithm">>, "OPT_HOSTKEY_ALGORITHMS", "required"),
                        Opt(<<"kex-algorithm">>, "OPT_KEX_ALGORITHM", "required"),
                        Opt(<<"list-algorithms">>, "OPT_LIST_ALGORITHMS", "none")>>

init_algorithms_options == [crypto |-> <<>>, mac |-> <<>>, compression |-> <<>>,
                            hostkey_algorithms |-> <<>>, kex |-> <<>>]

lookup_crypto == {"none"} \cup ToSet(all_crypto_algorithms)
lookup_mac == {"none"} \cup ToSet(default_mac_algorithms)
lookup_compression == {"none", "zlib"}
(* There is no name for ssh-rsa, the first of the defaults. *)
lookup_hostkey_algorithm == {"none", "ssh-dss", "ssh-dsa-sha256", "spki-sign-rsa", "spki-sign-dss"}
lookup_kex_algorithm == ToSet(default_kex_algorithms)

(* The algorithm of an option replaces the list; an unknown name ends the program. *)
Select(p, field, known, arg) ==
  IF Len(arg.text) = 1 /\ arg.text[1] \in known THEN Set(p, field, arg.text) ELSE argp_error(p)

DefaultList(p, field, list) == IF p.conf[field] = <<>> THEN Set(p, field, list) ELSE p

algorithms_argp_parser(p, key, arg) ==
  CASE key = "c" -> IF arg = Word(<<"all">>) THEN Set(p, "crypto", all_crypto_algorithms)
                    ELSE Select(p, "crypto", lookup_crypto, arg)
    [] key = "m" -> Select(p, "mac", lookup_mac, arg)
    [] key = "z" -> IF arg = Nothing THEN Set(p, "compression", prefer_compression_algorithms)
                    ELSE Select(p, "compression", lookup_compression, arg)
    [] key = "OPT_HOSTKEY_ALGORITHMS" -> Select(p, "hostkey_algorithms", lookup_hostkey_algorithm, arg)
    [] key = "OPT_KEX_ALGORITHM" -> Select(p, "kex", lookup_kex_algorithm, arg)
    [] key = "OPT_LIST_ALGORITHMS" -> IF p.no_exit THEN p ELSE [p EXCEPT !.exit = "ok"]
    [] key = "END" -> DefaultList(DefaultList(DefaultList(DefaultList(DefaultList(p,
                        "crypto", default_crypto_algorithms), "mac", default_mac_algorithms),
                        "compression", default_compression_algorithms),
                        "hostkey_algorithms", default_hostkey_algorithms), "kex", default_kex_algorithms)
    [] OTHER -> Unknown(p)

(* The candidates there is a key for, in their order. *)
filter_algorithms(keys, candidates) ==
  SelectSeq(candidates, LAMBDA a : a \in keys \/ a = "none")
=============================================================================
