------------------------------ MODULE Process -------------------------------
(***************************************************************************)
(* What a process of the repository is made of beside the engine: the seed *)
(* node (SeedNode), the shutdown handlers (Interrupt), the quit channels   *)
(* (QuitChannels) and the options (CommandLine).  They share no state: a   *)
(* behaviour is one of the part that is chosen at the start.               *)
(***************************************************************************)
EXTENDS QuitChannels

CONSTANTS Clients, MaxRuns, Fails,
          Adders, Requesters, Restarters, MaxSignals,
          Root, ConfigFile, HomePaths, DataPaths, MaxStarts

VARIABLES part,
          proc, disk, runs,
          ch, callbacks, listener, adder, requester, flags, ran, signals, process,
          line, env, files, dataDir, settings, phase, parse, opened, run, starts

seedVars == <<proc, disk, runs>>
intVars == <<ch, callbacks, listener, adder, requester, flags, ran, signals, process>>
cliVars == <<line, env, files, dataDir, settings, phase, parse, opened, run,
             starts>>

\* A key given, another than the one on disk, a key file that is not there,
\* and no key, with a tunnel or without.
MCStarts == [key : {"k", "other", "bad", "none"}, tun : BOOLEAN]

\* A quit channel without room and one with room for a signal.
MCCapacity == [t |-> 0, s |-> 1]

\* An application of three levels, with options of every kind.
W(w) == [kind |-> "word", word |-> w, option |-> "none"]
O(o) == [kind |-> "option", word |-> "none", option |-> o]
A(o, w) == [kind |-> "set", word |-> w, option |-> o]

MCChildren == [app |-> <<"node", "help">>, node |-> <<"drop">>,
               drop |-> <<>>, help |-> <<>>]
MCOptionsOf == [app |-> {"ConfigFile", "LogFilePath", "LogLevel", "LogToFile"},
                node |-> {"limit", "wait", "rate"}, drop |-> {"from", "to"}, help |-> {}]
MCTypeOf == [ConfigFile |-> "Path", LogFilePath |-> "LogFilePath",
             LogLevel |-> "LogLevel", LogToFile |-> "LogToFile",
             limit |-> "Integer", wait |-> "Duration", rate |-> "Float",
             from |-> "Integer", to |-> "Integer"]
MCDefaultOf == [ConfigFile |-> "~cfg", LogFilePath |-> "~log",
             LogLevel |-> "info", LogToFile |-> "false",
             limit |-> "1", wait |-> "5m", rate |-> "0.5",
             from |-> "1", to |-> "2"]
MCReads == [Integer |-> {"1", "2"}, Duration |-> {"5m", "9m"},
            Float |-> {"0.5", "1", "2"},
            LogToFile |-> {"true", "false"}, LogLevel |-> {"info", "debug"}]
MCLines == {
    <<>>,
    <<W("node")>>,
    <<W("node"), W("drop"), A("to", "1")>>,
    <<W("help"), W("node")>>,
    <<O("ConfigFile"), W("~x")>>,
    <<O("ConfigFile"), W("node")>>,
    <<A("ConfigFile", "~x"), W("node"), O("limit"), W("2")>>,
    <<A("ConfigFile", "/x"), W("node")>>,
    <<O("LogLevel"), W("debug"), W("node"), O("wait"), W("9m"), O("rate"), W("2")>>,
    <<O("LogLevel"), W("loud"), W("node")>>,
    <<A("LogLevel", "loud")>>,
    <<O("LogToFile"), W("node"), A("limit", "2")>>,
    <<O("LogToFile"), O("LogLevel"), W("debug"), W("node")>>,
    <<A("LogToFile", "true"), W("node")>>,
    <<O("LogToFile"), A("LogFilePath", "~y"), W("node")>>,
    <<O("LogFilePath"), W("~y"), W("node"), O("limit"), W("x")>>,
    <<A("LogFilePath", "~y"), W("node")>>,
    <<W("node"), O("limit"), O("wait"), O("limit"), W("2")>>,
    <<W("node"), O("limit"), W("2"), O("limit"), W("x"), O("wait"), W("9m")>>,
    <<W("node"), O("limit")>>,
    <<W("node"), O("to"), W("2")>>,
    <<W("node"), A("to", "2")>>,
    <<W("node"), W("stray")>>,
    <<W("node"), W("drop"), O("from"), W("2"), O("to"), W("x")>>}
Quiet == [o \in DOMAIN MCTypeOf |-> "none"]
MCEnvironments == {
    Quiet,
    [Quiet EXCEPT !["ConfigFile"] = "~x", !["limit"] = "2"],
    [Quiet EXCEPT !["LogFilePath"] = "~z", !["wait"] = "9m"],
    [Quiet EXCEPT !["LogToFile"] = "true", !["from"] = "2"],
    [Quiet EXCEPT !["limit"] = "x"],
    [Quiet EXCEPT !["LogLevel"] = "loud"]}
MCEnvOrder == <<"ConfigFile", "LogFilePath", "LogLevel", "LogToFile",
                "limit", "rate", "wait", "from", "to">>
MCDefault == <<"node">>
MCUserFile == {
    [table |-> <<"app">>, option |-> "ConfigFile", value |-> "~x"],
    [table |-> <<"app">>, option |-> "LogFilePath", value |-> "~y"],
    [table |-> <<"app">>, option |-> "LogToFile", value |-> "true"],
    [table |-> <<"app", "node">>, option |-> "limit", value |-> "2"],
    [table |-> <<"app", "node">>, option |-> "rate", value |-> "1"],
    [table |-> <<"app", "node">>, option |-> "wait", value |-> "9m"],
    [table |-> <<"app">>, option |-> "to", value |-> "1"]}

S == INSTANCE SeedNode WITH Starts <- MCStarts
I == INSTANCE Interrupt
L == INSTANCE CommandLine WITH
        Children <- MCChildren, OptionsOf <- MCOptionsOf, TypeOf <- MCTypeOf,
        DefaultOf <- MCDefaultOf, Reads <- MCReads, DefaultCommand <- MCDefault,
        Lines <- MCLines, Environments <- MCEnvironments,
        EnvOrder <- MCEnvOrder, UserFile <- MCUserFile

\* The parts that are not chosen stay in one of their initial states.
ProcessInit ==
  /\ part \in {"seed", "interrupt", "quit", "options"}
  /\ S!SeedInit /\ I!InterruptInit /\ QuInit /\ L!CliInit
  /\ part # "seed" => proc.start = [key |-> "k", tun |-> FALSE] /\ disk.key = "k"
  /\ part # "options" => line = <<>> /\ env = Quiet /\ dataDir
ProcessNext ==
  \/ /\ part = "seed" /\ S!SeedNext
     /\ UNCHANGED <<part, intVars, quVars, cliVars>>
  \/ /\ part = "interrupt" /\ I!InterruptNext
     /\ UNCHANGED <<part, seedVars, quVars, cliVars>>
  \/ /\ part = "quit" /\ QuNext
     /\ UNCHANGED <<part, seedVars, intVars, cliVars>>
  \/ /\ part = "options" /\ L!CliNext
     /\ UNCHANGED <<part, seedVars, intVars, quVars>>
ProcessSpec ==
  /\ ProcessInit
  /\ [][ProcessNext]_<<part, seedVars, intVars, quVars, cliVars>>
  /\ WF_seedVars(part = "seed" /\ proc.end = "" /\ S!Goroutines)
  /\ WF_intVars(part = "interrupt" /\ I!Goes)

-----------------------------------------------------------------------------

\* A seed with a key to start from becomes ready or says why it cannot.
StartSettles == part = "seed" => S!StartSettles


\* Every AddHandler returns, or else every shutdown asked for is finished.
AddersOrShutdown == I!AddersOrShutdown

=============================================================================
