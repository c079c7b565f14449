--------------------------------- MODULE Config ---------------------------------
(***************************************************************************)
(* How the server (server/config/config.go) and the client                  *)
(* (client/config/config.go, client/cli/root.go) find their configuration:  *)
(* built-in values, a JSON file, the environment and flags.                 *)
(*                                                                         *)
(* A source is a function from the options it sets to values.  The list of  *)
(* origins is kept as what it is in the sources: a sequence of texts, each a *)
(* sequence of the words between its commas.                               *)
(***************************************************************************)
EXTENDS Naturals, SequencesExt, TLC

CONSTANTS
    NoPath,         \* no path, where -config names none
    Blank           \* a word of spaces, or of nothing

NoSource == [option \in {} |-> Blank]

Failed == [error |-> TRUE]

\* An argument as package flag reads it: -config with its path, another flag with its
\* option and value, a flag that is unknown or has no valid value, or a word, which
\* ends the flags ("--", a file name, the "false" of "-tls-enabled false").
ConfigArg(path) == [kind |-> "config", path |-> path]
FlagArg(option, value) == [kind |-> "flag", option |-> option, value |-> value]
BadArg == [kind |-> "bad"]
WordArg == [kind |-> "word"]

-------------------------------------------------------------------------------
\* The arguments before the first of a kind in stop.
ArgsUntil(args, stop) ==
    LET first == SelectInSeq(args, LAMBDA a : a.kind \in stop)
    IN  IF first = 0 THEN args ELSE SubSeq(args, 1, first - 1)

\* The flag set knows -config only: the first other flag is an error, which is ignored,
\* and ends it.
preParseConfigPath(args) ==
    LET read == ArgsUntil(args, {"flag", "bad", "word"})
    IN  IF read = <<>> THEN NoPath ELSE Last(read).path

\* The options of a JSON file or of the environment over those of cfg.
Override(cfg, source) == source @@ cfg

\* strings.Join, strings.Split and TrimSpace.
splitCSV(texts) == SelectSeq(FlattenSeq(texts), LAMBDA word : word # Blank)

\* The server has a list of origins, the client has none.
WithOrigins(cfg) ==
    IF "origins" \in DOMAIN cfg THEN [cfg EXCEPT !["origins"] = splitCSV(@)] ELSE cfg

\* A flag that is not given has the value of cfg.
applyFlags(cfg, args) ==
    LET read == ArgsUntil(args, {"word"})
        flags == SelectSeq(read, LAMBDA a : a.kind = "flag")
        set == FoldLeft(LAMBDA c, a : [c EXCEPT ![a.option] = a.value], cfg, flags)
    IN  IF \E i \in DOMAIN read : read[i].kind = "bad"
        THEN Failed
        ELSE WithOrigins(set)

\* Load: a file that is named must be readable; an error leaves no configuration.
Load(default, files, env, args) ==
    LET path == preParseConfigPath(args)
        file == IF path = NoPath THEN NoSource ELSE files[path]
    IN  IF Failed \in {file, env}
        THEN Failed
        ELSE applyFlags(Override(Override(default, file), env), args)

\* NewRootCmd: Load gets no arguments, and cobra puts the flags of the command over the
\* result.  No -config is registered, so cobra stops at one as at any unknown flag.
ClientConfig(default, files, env, args) ==
    LET cfg == Load(default, files, env, <<>>)
        set == FoldLeft(LAMBDA c, a : [c EXCEPT ![a.option] = a.value], cfg, args)
    IN  IF cfg = Failed \/ \E i \in DOMAIN args : args[i].kind # "flag" THEN Failed ELSE set

-------------------------------------------------------------------------------
(* What the repository says of the order: "defaults, JSON file (-config),   *)
(* env, flags, the same for the client and the server" (README.md:148-149). *)

\* The file that is named: by the last -config before the first word, whatever flags
\* stand before it, which "are ignored and parsed later" (config.go:143-144).
NamedFile(args, files) ==
    LET named == SelectSeq(ArgsUntil(args, {"word"}), LAMBDA a : a.kind = "config")
    IN  IF named = <<>> THEN NoSource ELSE files[Last(named).path]

\* The value of option in the strongest source that sets it.
Strongest(option, default, file, env, args) ==
    LET given == SelectSeq(ArgsUntil(args, {"word"}),
                           LAMBDA a : a.kind = "flag" /\ a.option = option)
    IN  IF given # <<>> THEN Last(given).value ELSE (env @@ file @@ default)[option]

\* cfg has every option from the strongest source that sets it, the origins as words of
\* which none is blank; and there is a configuration unless a source is faulty.
Layered(cfg, default, files, env, args) ==
    LET file == NamedFile(args, files)
        read == ArgsUntil(args, {"word"})
        faulty == Failed \in {file, env} \/ \E i \in DOMAIN read : read[i].kind = "bad"
    IN  IF faulty
        THEN cfg = Failed
        ELSE cfg = WithOrigins([o \in DOMAIN default |->
                                   Strongest(o, default, file, env, args)])
===============================================================================
