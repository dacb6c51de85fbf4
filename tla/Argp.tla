-------------------------------- MODULE Argp --------------------------------
(***************************************************************************)
(* The command line parser all programs of lsh use.  It finds the group of *)
(* options an option belongs to and calls the handler of that group, sets  *)
(* arguments aside that are not options, and calls all handlers once more  *)
(* at the end, where the servers read their configuration files.           *)
(***************************************************************************)
EXTENDS ConfigFile, ClientOptions

(* The groups of a program: its own options, then those of its children. *)
groups(prog) ==
  (CASE prog = "lshd" -> <<"lshd", "server", "werror", "algorithms">>
     [] prog \in {"lshd-userauth", "lshd-connection"} -> <<prog, "server", "werror">>
     [] prog = "lsh" -> <<"lsh", "werror">>
     [] prog = "lsh-transport" -> <<"lsh-transport", "algorithms", "werror">>) \o <<"default", "version">>

argp_default_options == <<Opt(<<"help">>, "?", "none"), Opt(<<"usage">>, "OPT_USAGE", "none"),
                          Opt(<<"p", "rogram-name">>, "OPT_PROGNAME", "required"), Opt(<<"HANG">>, "OPT_HANG", "optional")>>
argp_version_options == <<Opt(<<"version">>, "V", "none")>>

ExitOk(p) == IF p.no_exit THEN p ELSE [p EXCEPT !.exit = "ok"]

(* After a while, --HANG goes on. *)
argp_default_parser(p, key) ==
  CASE key \in {"?", "OPT_USAGE"} -> ExitOk(p) [] key \in {"OPT_PROGNAME", "OPT_HANG"} -> p [] OTHER -> Unknown(p)
argp_version_parser(p, key) == IF key = "V" THEN ExitOk(p) ELSE Unknown(p)

options(group) ==
  CASE group = "lshd" -> lshd_options [] group = "lshd-userauth" -> userauth_options
    [] group = "lshd-connection" -> connection_options [] group = "lsh" -> lsh_options
    [] group = "lsh-transport" -> transport_options [] group = "server" -> server_options
    [] group = "werror" -> werror_options [] group = "algorithms" -> algorithms_options
    [] group = "default" -> argp_default_options [] group = "version" -> argp_version_options

(* Calls the handler of one group. *)
group_parse(before, group, key, arg) ==
  LET p == [before EXCEPT !.err = "ok", !.arg_num = before.args_processed[group]]
  IN CASE group = "lshd" -> lshd_argp_parser(p, key, arg)
       [] group = "lshd-userauth" -> userauth_argp_parser(p, key, arg)
       [] group = "lshd-connection" -> connection_argp_parser(p, key, arg)
       [] group = "lsh" -> lsh_argp_parser(p, key, arg)
       [] group = "lsh-transport" -> transport_argp_parser(p, key, arg)
       [] group = "server" -> server_argp_parser(p, key, arg)
       [] group = "werror" -> werror_argp_parser(p, key, arg)
       [] group = "algorithms" -> algorithms_argp_parser(p, key, arg)
       [] group = "default" -> argp_default_parser(p, key)
       [] group = "version" -> argp_version_parser(p, key)

Sourced(group, table) == [i \in 1..Len(table) |-> [group |-> group, option |-> table[i]]]
AllOptions == [prog \in {"lshd", "lshd-userauth", "lshd-connection", "lsh", "lsh-transport"} |->
                 FlattenSeq([i \in 1..Len(groups(prog)) |-> Sourced(groups(prog)[i], options(groups(prog)[i]))])]

find_short_option(prog, key) == SelectSeq(AllOptions[prog], LAMBDA o : o.option.key = key)

(* The option of that name, else the only one whose name starts so. *)
ExactOr(exact, partial) == IF exact # <<>> THEN exact ELSE IF Len(partial) = 1 THEN partial ELSE <<>>
find_long_option(prog, name) ==
  ExactOr(SelectSeq(AllOptions[prog], LAMBDA o : o.option.name = name),
          SelectSeq(AllOptions[prog], LAMBDA o : IsPrefix(name, o.option.name)))

parser_init(prog, argv, conf, env, in_order, no_exit) ==
  [prog |-> prog, argv |-> argv, next |-> 1, quoted |-> 0, args_only |-> FALSE,
   ordering |-> IF in_order THEN "in_order" ELSE IF env.posixly_correct THEN "require_order" ELSE "permute",
   first_nonopt |-> 0, last_nonopt |-> 0, nextchar |-> <<>>,
   args_processed |-> [g \in Range(groups(prog)) |-> 0], arg_num |-> 0,
   conf |-> conf, env |-> env, err |-> "ok", arg_ebadkey |-> FALSE, exit |-> "none", no_exit |-> no_exit]

Stop(p, arg_ebadkey) == [p EXCEPT !.err = "EBADKEY", !.arg_ebadkey = arg_ebadkey]

----------------------------------------------------------------------------
Swap(argv, a, b, len) ==
  [i \in 1..Len(argv) |-> IF i \in a..(a + len - 1) THEN argv[i - a + b]
                          ELSE IF i \in b..(b + len - 1) THEN argv[i - b + a] ELSE argv[i]]

(* Exchanges the skipped arguments with what was parsed after them, by     *)
(* swapping the shorter of the two segments to its place.                  *)
RECURSIVE ExchangeSegments(_, _, _, _)
ExchangeSegments(argv, bottom, middle, top) ==
  IF ~(top > middle /\ middle > bottom) THEN argv
  ELSE IF top - middle > middle - bottom
  THEN LET len == middle - bottom
       IN ExchangeSegments(Swap(argv, bottom, top - len, len), bottom, middle, top - len)
  ELSE LET len == top - middle
       IN ExchangeSegments(Swap(argv, bottom, middle, len), bottom + len, middle, top)

exchange(p) ==
  [p EXCEPT !.argv = ExchangeSegments(p.argv, p.first_nonopt, p.last_nonopt, p.next),
            !.first_nonopt = p.first_nonopt + (p.next - p.last_nonopt), !.last_nonopt = p.next]

classify_arg(arg) ==
  IF arg.dash <= 0 THEN "ARG_ARG"
  ELSE IF arg.text = <<>> THEN (IF arg.dash = 1 THEN "ARG_ARG" ELSE "ARG_QUOTE")
  ELSE IF arg.dash = 2 THEN "ARG_LONG_OPTION" ELSE "ARG_SHORT_OPTION"

(* An argument that is no option: the first group that takes it, or it and *)
(* all that follow.                                                        *)
Processed(q, group, index) ==
  IF q.next > index THEN [q EXCEPT !.args_processed[group] = @ + q.next - index] ELSE [q EXCEPT !.args_only = FALSE]

RECURSIVE TryGroups(_, _, _)
TakenBy(p, i, index, one, all) ==
  IF one.err # "EBADKEY" THEN Processed(one, groups(p.prog)[i], index)
  ELSE IF all.err # "EBADKEY" THEN Processed([all EXCEPT !.next = Len(p.argv) + 1], groups(p.prog)[i], index)
  ELSE IF i = Len(groups(p.prog)) THEN all
  ELSE TryGroups(p, i + 1, index)
TryGroups(p, i, index) ==
  TakenBy(p, i, index, group_parse([p EXCEPT !.next = index + 1], groups(p.prog)[i], "ARG", p.argv[index]),
                       group_parse([p EXCEPT !.next = index], groups(p.prog)[i], "ARGS", Nothing))

parser_parse_arg(p) == TryGroups([p EXCEPT !.arg_ebadkey = TRUE], 1, p.next)

(* An option that was found in the tables, with the value that is part of  *)
(* its word, if any.                                                       *)
Found(p, options_found, value) == [p |-> p, found |-> options_found, value |-> value]

Option(f) ==
  LET option == Head(f.found).option
      separate == option.arg = "required" /\ f.value = Nothing
  IN IF f.found = <<>> \/ (option.arg = "none" /\ f.value # Nothing) THEN Stop(f.p, FALSE)
     ELSE IF separate /\ f.p.next > Len(f.p.argv) THEN Stop(f.p, FALSE)
     ELSE group_parse(IF separate THEN [f.p EXCEPT !.next = @ + 1] ELSE f.p, Head(f.found).group, option.key,
                      IF separate THEN f.p.argv[f.p.next] ELSE f.value)

(* One letter of a word of short options; what follows the letter of an    *)
(* option that takes a value is the value.                                 *)
ShortOption(p, found) ==
  LET takes == found # <<>> /\ Head(found).option.arg # "none"
      rest == Tail(p.nextchar)
  IN Found([p EXCEPT !.nextchar = IF takes THEN <<>> ELSE rest], found,
           IF takes /\ rest # <<>> THEN Word(rest) ELSE Nothing)
ParseShort(p) == ShortOption(p, find_short_option(p.prog, Head(p.nextchar)))

ParseLong(p, arg) ==
  Found([p EXCEPT !.next = @ + 1, !.arg_ebadkey = FALSE], find_long_option(p.prog, arg.text),
        IF arg.eq THEN Word(arg.value) ELSE Nothing)

(* -- ends the options: what was skipped and what follows are arguments. *)
ParseQuote(p) ==
  LET q == [p EXCEPT !.next = @ + 1]
      x == exchange(q)
  IN IF p.first_nonopt # p.last_nonopt
     THEN [x EXCEPT !.quoted = x.first_nonopt, !.next = x.first_nonopt, !.first_nonopt = 0,
                    !.last_nonopt = 0, !.args_only = TRUE]
     ELSE [q EXCEPT !.quoted = q.next, !.args_only = TRUE]

SkipArg(p) ==
  LET moved == IF p.first_nonopt = p.last_nonopt THEN [p EXCEPT !.first_nonopt = p.next, !.last_nonopt = p.next]
               ELSE IF p.last_nonopt # p.next THEN exchange(p) ELSE p
  IN [moved EXCEPT !.next = @ + 1, !.last_nonopt = p.next + 1]

(* All words are read; now the skipped ones, if any. *)
AtEnd(p) ==
  LET x == exchange(p)
  IN IF p.first_nonopt # p.last_nonopt
     THEN [x EXCEPT !.next = x.first_nonopt, !.first_nonopt = 0, !.last_nonopt = 0,
                    !.args_only = TRUE, !.arg_ebadkey = TRUE]
     ELSE Stop(p, TRUE)

(* Reset what points past next, which a handler may have moved back. *)
Rewind(p) ==
  LET before == p.quoted > 0 /\ p.next < p.quoted
  IN [p EXCEPT !.quoted = IF before THEN 0 ELSE @, !.args_only = IF before THEN FALSE ELSE @,
               !.last_nonopt = IF @ > p.next THEN p.next ELSE @,
               !.first_nonopt = IF @ > p.next THEN p.next ELSE @]

ParseWord(p, token) ==
  IF p.args_only \/ (token = "ARG_ARG" /\ p.ordering = "in_order") THEN parser_parse_arg(p)
  ELSE CASE token = "ARG_ARG" ->
              (IF p.ordering = "permute" THEN SkipArg(p) ELSE [p EXCEPT !.args_only = TRUE])
         [] token = "ARG_QUOTE" -> ParseQuote(p)
         [] token = "ARG_SHORT_OPTION" -> [p EXCEPT !.next = @ + 1, !.nextchar = p.argv[p.next].text]

parser_parse_next(before) ==
  LET p == Rewind(before)
      more == p.next <= Len(p.argv)
      long == more /\ ~p.args_only /\ classify_arg(p.argv[p.next]) = "ARG_LONG_OPTION"
  IN IF p.nextchar # <<>> \/ long
     THEN Option(IF p.nextchar # <<>> THEN ParseShort(p) ELSE ParseLong(p, p.argv[p.next]))
     ELSE IF more THEN ParseWord(p, classify_arg(p.argv[p.next]))
     ELSE IF p.args_only THEN Stop(p, TRUE)
     ELSE AtEnd(p)

----------------------------------------------------------------------------
(* Calls the groups one after the other, until one makes an error. *)
CallGroups(p, calls) ==
  FoldLeft(LAMBDA q, c : IF q.exit # "none" \/ q.err \notin {"ok", "EBADKEY"} THEN q
                         ELSE group_parse(q, c.group, c.key, Nothing),
           [p EXCEPT !.err = "ok"], calls)

Calls(list, key) == [i \in 1..Len(list) |-> [group |-> list[i], key |-> key]]
Served(p) == IF p.err = "EBADKEY" THEN [p EXCEPT !.err = "ok"] ELSE p

(* If everything was parsed, the handlers are told whether there were      *)
(* arguments at all, and then that this was the end: the children before   *)
(* their parents.                                                          *)
parser_finalize(p) ==
  LET unused == SelectSeq(groups(p.prog), LAMBDA g : p.args_processed[g] = 0)
  IN IF p.exit # "none" THEN p
     ELSE IF p.err = "EBADKEY" /\ p.arg_ebadkey /\ p.next = Len(p.argv) + 1
     THEN Served(CallGroups(p, Calls(unused, "NO_ARGS") \o Calls(Reverse(groups(p.prog)), "END")))
     ELSE [argp_error(p) EXCEPT !.err = "EINVAL"]

RECURSIVE ParseAll(_)
ParseAll(p) == IF p.err # "ok" \/ p.exit # "none" THEN p ELSE ParseAll(parser_parse_next(p))

argp_parse(prog, argv, conf, env, in_order, no_exit) ==
  parser_finalize(ParseAll(parser_init(prog, argv, conf, env, in_order, no_exit)))

(* The words of an environment variable as a command line, whose errors    *)
(* are ignored.                                                            *)
env_parse(prog, words, conf, env) ==
  IF words = <<>> THEN conf ELSE argp_parse(prog, words, conf, env, TRUE, TRUE).conf
=============================================================================
