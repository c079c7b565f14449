------------------------------- MODULE MCConfig -------------------------------
(* Config on inputs that are chosen one at a time.                          *)
EXTENDS Config

CONSTANT Paths      \* the paths -config can name

VARIABLE input

\* One option beside the server's origins; a file that sets the one or both or cannot be
\* read; an environment that does the same with values of its own; up to three arguments.
Defaults == [address |-> "default", origins |-> <<<<"default">>>>]

Sources(name) ==
    {NoSource, Failed, [address |-> name],
     [address |-> name, origins |-> <<<<name>>, <<Blank>>, <<"b", "c">>>>]}

Files == {f \in [Paths -> UNION {Sources(p) : p \in Paths}] : \A p \in Paths : f[p] \in Sources(p)}

Args ==
    {ConfigArg(path) : path \in Paths} \union {BadArg, WordArg}
    \union {FlagArg("address", v) : v \in {"flag", "other"}}
    \union {FlagArg("origins", <<<<Blank, "flag">>>>)}

ServerInputs ==
    [of: {"server"}, files: Files, env: Sources("env"), args: BoundedSeq(Args, 3)]

\* The client has no origins and, here, no words: cobra takes flags on either side of them.
ClientDefaults == [address |-> "default"]

ClientSources(name) == {NoSource, Failed, [address |-> name]}

ClientArgs ==
    {ConfigArg(path) : path \in Paths} \union {BadArg, FlagArg("address", "flag")}

ClientInputs ==
    [of: {"client"}, files: {f \in Files : \A p \in Paths : f[p] \in ClientSources(p)},
     env: ClientSources("env"), args: BoundedSeq(ClientArgs, 2)]

NoInput == [of |-> "nothing"]

Init == input = NoInput

\* A program is started.
Start == input = NoInput /\ input' \in ServerInputs \union ClientInputs

Spec == Init /\ [][Start]_input

\* Every option of the server and of the client has the value of the strongest source
\* that sets it, as src/README.md:148-149 says of both, and a -config counts whatever
\* flags stand before it, as the comment of preParseConfigPath says (config.go:143-144).
ConfigLayers ==
    /\ input.of = "server" =>
           Layered(Load(Defaults, input.files, input.env, input.args),
                   Defaults, input.files, input.env, input.args)
    /\ input.of = "client" =>
           Layered(ClientConfig(ClientDefaults, input.files, input.env, input.args),
                   ClientDefaults, input.files, input.env, input.args)
===============================================================================
