----------------------------- MODULE ConfigFile -----------------------------
(***************************************************************************)
(* The configuration files of the servers: the tokenizer, the parser, and  *)
(* which file is read.  A file is the sequence of its lexemes: words,      *)
(* braces, equal signs, ends of lines and the signs that start a comment.  *)
(***************************************************************************)
EXTENDS ServerOptions

CONSTANT ConfigFiles     \* the files that can be read: a function from names to contents

Eol == Word(<<"\n">>)
Comment == Word(<<"#">>)

TokenType(w) == CASE w = Open -> "begin" [] w = Close -> "end" [] w = Equal -> "equal" [] OTHER -> "string"

(* at is the next lexeme to read; type and token are those of the last     *)
(* token read.                                                             *)
config_tokenizer_init(data) == [data |-> data, at |-> 1, type |-> "none", token |-> Nothing]

EndOfLine(t, i) ==
  LET ends == {j \in i..Len(t.data) : t.data[j] = Eol}
  IN IF ends = {} THEN Len(t.data) + 1 ELSE CHOOSE j \in ends : \A k \in ends : j <= k

(* The next token, past ends of lines and comments. *)
Token(t, i) ==
  IF TokenType(t.data[i]) = "string" THEN [t EXCEPT !.at = i + 1, !.type = "string", !.token = t.data[i]]
  ELSE [t EXCEPT !.at = i + 1, !.type = TokenType(t.data[i])]

InComment(t, i) == \E j \in t.at..i : t.data[j] = Comment /\ i < EndOfLine(t, j)
config_tokenizer_next(t) ==
  LET rest == {i \in t.at..Len(t.data) : t.data[i] # Eol /\ ~InComment(t, i)}
  IN IF rest = {} THEN [t EXCEPT !.at = Len(t.data) + 1, !.type = "eof"]
     ELSE Token(t, CHOOSE i \in rest : \A j \in rest : i <= j)

(* Whatever is left of the line is skipped. *)
config_tokenizer_eolp(t) == [t EXCEPT !.at = EndOfLine(t, t.at)]

config_tokenizer_looking_at(t, word) == t.type = "string" /\ t.token = Word(word)

----------------------------------------------------------------------------
Value(t, n, word, list, err) == [t |-> t, n |-> n, word |-> word, list |-> list, err |-> err]

parse_value_bool(t) ==
  IF t.token = No THEN Value(t, 0, Nothing, <<>>, "ok")
  ELSE IF t.token = Yes THEN Value(t, 1, Nothing, <<>>, "ok")
  ELSE Value(t, 0, Nothing, <<>>, "EINVAL")

(* The words of a group, up to the brace that closes it; t is at a token   *)
(* of it.                                                                  *)
RECURSIVE ListTail(_, _, _)
ListTail(t, level, list) ==
  LET deeper == level + (CASE t.type = "begin" -> 1 [] t.type = "end" -> -1 [] OTHER -> 0)
      word == CASE t.type = "begin" -> Open [] t.type = "end" -> Close [] t.type = "equal" -> Equal
                [] OTHER -> t.token
  IN IF t.type = "eof" THEN Value(t, 0, Nothing, <<>>, "EINVAL")
     ELSE IF deeper = 0 THEN Value(t, Len(list), Nothing, list, "ok")
     ELSE ListTail(config_tokenizer_next(t), deeper, Append(list, word))

(* NAME = { WORDS } *)
ListOf(name, equal, begin) ==
  IF name.type = "string" /\ equal.type = "equal" /\ begin.type = "begin"
  THEN ListTail(config_tokenizer_next(begin), 1, <<name.token>>)
  ELSE Value(begin, 0, Nothing, <<>>, "EINVAL")
parse_value_list(t) ==
  LET name == config_tokenizer_next(t)
      equal == config_tokenizer_next(name)
  IN ListOf(name, equal, config_tokenizer_next(equal))

(* = WORD *)
WordOf(equal, word, type) ==
  IF equal.type # "equal" \/ word.type # "string" THEN Value(word, 0, Nothing, <<>>, "EINVAL")
  ELSE IF type = "bool" THEN parse_value_bool(word)
  ELSE Value(word, 0, word.token, <<>>, "ok")
parse_value_word(t, type) ==
  LET equal == config_tokenizer_next(t)
  IN WordOf(equal, config_tokenizer_next(equal), type)

----------------------------------------------------------------------------
config_options(group) ==
  CASE group = "lshd" -> lshd_config_options
    [] group = "lshd-userauth" -> lshd_userauth_config_options
    [] group = "lshd-connection" -> lshd_connection_config_options
    [] group = "werror" -> werror_config_options

config_handler(group, c, key, v) ==
  CASE group = "lshd" -> lshd_config_handler(c, key, v)
    [] group = "lshd-userauth" -> lshd_userauth_config_handler(c, key, v)
    [] group = "lshd-connection" -> lshd_connection_config_handler(c, key, v)
    [] group = "werror" -> Done(werror_config_handler(c, key, v))

(* Every handler is called at the end, the program's last; what they       *)
(* return is ignored.                                                      *)
config_finalize(prog, c) ==
  LET none == Value(Nothing, 0, Nothing, <<>>, "ok")
  IN config_handler(prog, werror_config_handler(c, "END", none), "END", none).conf

(* The program's own settings, then those about messages. *)
FromTable(group, table) == [j \in 1..Len(table) |-> [group |-> group, option |-> table[j]]]
AllSettings(prog) == FromTable(prog, config_options(prog)) \o FromTable("werror", werror_config_options)

(* One setting, to the end of its line. *)
Configured(t, done) == [t |-> t, conf |-> done.conf, err |-> done.err]
Configure(c, setting, value) ==
  IF value.err # "ok" THEN Configured(value.t, [conf |-> c, err |-> "EINVAL"])
  ELSE Configured(config_tokenizer_eolp(value.t), config_handler(setting.group, c, setting.option.key, value))

ParseSetting(c, t, setting) ==
  Configure(c, setting, IF setting.option.type = "list" THEN parse_value_list(t)
                        ELSE parse_value_word(t, setting.option.type))

ParseFirst(c, t, matching) ==
  IF matching = <<>> THEN [t |-> t, conf |-> c, err |-> "EINVAL"] ELSE ParseSetting(c, t, Head(matching))
parser_parse_option(prog, c, t) ==
  ParseFirst(c, t, SelectSeq(AllSettings(prog), LAMBDA s : config_tokenizer_looking_at(t, s.option.name)))

(* All settings; t is at the first token of one. *)
RECURSIVE ParseSettings(_, _, _)
AfterSetting(prog, parsed) ==
  IF parsed.err = "ok" THEN ParseSettings(prog, parsed.conf, config_tokenizer_next(parsed.t))
  ELSE [conf |-> parsed.conf, err |-> parsed.err]
ParseSettings(prog, c, t) ==
  CASE t.type = "eof" -> [conf |-> c, err |-> "ok"]
    [] t.type = "string" -> AfterSetting(prog, parser_parse_option(prog, c, t))
    [] OTHER -> [conf |-> c, err |-> "EINVAL"]

(* The defaults are filled in also after an error. *)
Finalize(prog, parsed) == [conf |-> config_finalize(prog, parsed.conf), err |-> parsed.err]

server_config_parse_string(prog, data, c) ==
  Finalize(prog, ParseSettings(prog, c, config_tokenizer_next(config_tokenizer_init(data))))

(* The built-in configuration: the example of every setting that has one,  *)
(* those about messages first.  Only the last error counts.                *)
ExampleValue(type, t) ==
  CASE type = "list" -> parse_value_list(t)
    [] type = "bool" -> parse_value_bool(config_tokenizer_next(t))
    [] OTHER -> Value(t, 0, config_tokenizer_next(t).token, <<>>, "ok")

WithExample(prog) ==
  SelectSeq(FromTable("werror", werror_config_options) \o FromTable(prog, config_options(prog)),
            LAMBDA s : s.option.example # <<>>)

server_config_parse_example(prog, c) ==
  Finalize(prog, FoldLeft(LAMBDA before, s :
                            config_handler(s.group, before.conf, s.option.key,
                                           ExampleValue(s.option.type, config_tokenizer_init(s.option.example))),
                          Done(c), WithExample(prog)))

(* The file of --config-file, else of the environment, else the default    *)
(* file of the directory of the environment or of the installation.        *)
server_parse_config_file(p) ==
  LET file == IF p.conf.config_file # Nothing THEN p.conf.config_file
              ELSE IF p.env.files[p.prog] # Nothing THEN p.env.files[p.prog]
              ELSE Word(<<p.env.dir, "/", p.prog, "_config">>)
  IN IF file \in DOMAIN ConfigFiles THEN server_config_parse_string(p.prog, ConfigFiles[file], p.conf)
     ELSE [conf |-> p.conf, err |-> "ENOENT"]

WithConfig(p, parsed) ==
  LET q == [p EXCEPT !.conf = parsed.conf]
  IN IF parsed.err # "ok" THEN argp_failure(q) ELSE werror_init(q)

ServerEnd(p) ==
  IF p.conf.config_file # Nothing /\ p.conf.use_example THEN argp_error(p)
  ELSE WithConfig(p, IF p.conf.use_example THEN server_config_parse_example(p.prog, p.conf)
                     ELSE server_parse_config_file(p))

server_argp_parser(p, key, arg) ==
  CASE key = "END" -> ServerEnd(p)
    [] key = "OPT_CONFIG_FILE" -> Set(p, "config_file", arg)
    [] key = "OPT_PRINT_EXAMPLE" -> [p EXCEPT !.exit = "ok"]
    [] key = "OPT_USE_EXAMPLE" -> Set(p, "use_example", TRUE)
    [] OTHER -> Unknown(p)
=============================================================================
