----------------------------- MODULE CommandLine -----------------------------
(***************************************************************************)
(* How an application gets its options (src/pkg/proc/app, cmds, opts and   *)
(* log): app.New reads the command line, then the configuration file the   *)
(* command line may have named, which it creates when there is none, then  *)
(* the environment, then the command line again, and Launch runs the       *)
(* command that was named.  The files outlive the process, which may be    *)
(* started again with another line.                                        *)
(*                                                                         *)
(* An argument is a word, an option ("-o", its value being the next        *)
(* argument) or an assignment ("-o=v").  Case, aliases and the text of     *)
(* values are left out: an option type is the set of strings it reads.     *)
(***************************************************************************)
EXTENDS FiniteSets, Naturals, SequencesExt

CONSTANTS
    Root, Children,     \* the commands: the root and the children of each
    OptionsOf,          \* the options of each command
    TypeOf, DefaultOf,  \* the type and the default of each option
    Reads,              \* the strings that each type reads without error
    ConfigFile,         \* the option of the root that names the file
    HomePaths,          \* the paths that begin with "~"
    DataPaths,          \* those of them that lie in the data directory
    DefaultCommand,     \* Default of the root
    Lines,              \* command lines, without the name of the program
    Environments,       \* values of environment variables, by option
    EnvOrder,           \* the options in the order of Envs.Less
    UserFile,           \* entries a user may have written in the file
    MaxStarts           \* bound on the starts of the program

VARIABLES
    line, env,  \* what this start of the program was given
    files,      \* the entries of each file
    dataDir,    \* whether the data directory exists
    settings,   \* the options and the logger
    phase,      \* the step of app.New
    parse,      \* segment, cursor and error of ParseCLIArgs
    opened,     \* the path LoadConfig opened
    run,        \* the command to launch
    starts

cliVars == <<line, env, files, dataDir, settings, phase, parse, opened, run,
             starts>>

None == "none"
NoFile == {None}

Commands == DOMAIN Children
Options == UNION {OptionsOf[c] : c \in Commands}
Owner(o) == CHOOSE c \in Commands : o \in OptionsOf[c]

\* The path of a command from the root: the tree has at most three levels.
Parent(c) == CHOOSE p \in Commands : c \in Range(Children[p])
Path(c) ==
    CASE c = Root -> <<Root>>
      [] c \in Range(Children[Root]) -> <<Root, c>>
      [] OTHER -> <<Root, Parent(c), c>>

(***************************************************************************)
(* Options from strings, and their hooks.  ResolvePath drops a path that   *)
(* does not begin with "~" and gives the data directory instead.           *)
(* SetLogFilePath gets the expansion before it is renewed; while the log   *)
(* is written to a file it calls StopLogToFile with the logger's lock      *)
(* held, which takes the lock again and never returns.  The hook of        *)
(* LogLevel puts the default back when it does not know the level.         *)
(***************************************************************************)
ResolvePath(s) == IF s \in HomePaths THEN s ELSE "dataDir"

NormalizeFilesystemPath(st, o) ==
    [st EXCEPT !.expanded[o] = ResolvePath(st.value[o])]

SetLogFilePath(st, o) ==
    IF st.file THEN [st EXCEPT !.hung = TRUE]
    ELSE [st EXCEPT !.log = st.expanded[o]]

StartLogToFile(st) ==
    LET opens == st.log \in HomePaths /\ (st.log \in DataPaths => dataDir)
    IN [st EXCEPT !.file = opens, !.ok = opens]

StopLogToFile(st) == [st EXCEPT !.file = FALSE]

LogLevel(st, o) ==
    IF st.value[o] \in Reads["LogLevel"] THEN st
    ELSE [st EXCEPT !.value[o] = DefaultOf[o], !.ok = FALSE]

RunHooks(st, o) ==
    CASE TypeOf[o] = "Path" -> NormalizeFilesystemPath(st, o)
      [] TypeOf[o] = "LogFilePath" ->
            NormalizeFilesystemPath(SetLogFilePath(st, o), o)
      [] TypeOf[o] = "LogToFile" ->
            IF st.value[o] = "true" THEN StartLogToFile(st)
            ELSE StopLogToFile(st)
      [] TypeOf[o] = "LogLevel" -> LogLevel(st, o)
      [] OTHER -> st

\* Text and list options store every string and let their hooks judge it.
TextFromString(st, o, s) ==
    RunHooks([st EXCEPT !.value[o] = s, !.ok = TRUE], o)

\* The others store what they can read.
NumberFromString(st, o, s) ==
    IF s \in Reads[TypeOf[o]]
    THEN RunHooks([st EXCEPT !.value[o] = s, !.ok = TRUE], o)
    ELSE [st EXCEPT !.ok = FALSE]

TextTypes == {"Path", "LogFilePath", "LogLevel", "List"}
Toggles == {"Bool", "LogToFile"}

FromString(st, o, s) ==
    IF TypeOf[o] \in TextTypes THEN TextFromString(st, o, s)
    ELSE NumberFromString(st, o, s)

\* A toggle is built false, whatever its default is.
Fresh(o) == IF TypeOf[o] \in Toggles THEN "false" ELSE DefaultOf[o]

\* The options as built, and their hooks as Init runs them.
Init ==
    LET built == [value |-> [o \in Options |-> Fresh(o)],
                  expanded |-> [o \in Options |-> ResolvePath(DefaultOf[o])],
                  log |-> None, file |-> FALSE, hung |-> FALSE, ok |-> TRUE]
    IN FoldSet(LAMBDA o, st : RunHooks(st, o), built, Options)

(***************************************************************************)
(* ParseCLIArgs, first pass: a word that names a child of the command      *)
(* found last begins the segment of that child.                            *)
(***************************************************************************)
Names(arg, c) == arg.kind = "word" /\ arg.word \in Range(Children[c])

Segments ==
    LET Cut(segs, arg) ==
            IF Names(arg, Last(segs).command)
            THEN Append(segs, [command |-> arg.word, args |-> <<>>])
            ELSE Front(segs) \o
                 <<[Last(segs) EXCEPT !.args = Append(@, arg)]>>
    IN FoldLeft(Cut, <<[command |-> Root, args |-> <<>>]>>, line)

\* Default, from the root: the command reached, and the last name found.
DefaultWalk ==
    LET Step(w, i) ==
            IF DefaultCommand[i] \in Range(Children[w.command])
            THEN [command |-> DefaultCommand[i], found |-> i] ELSE w
    IN FoldLeft(Step, [command |-> Root, found |-> 1],
                [i \in DOMAIN DefaultCommand |-> i])

Parsing == phase \in {"first", "second"}

Fail ==
    /\ phase' = IF settings'.hung THEN "hung" ELSE "failed"
    /\ UNCHANGED <<line, env, files, dataDir, parse, opened, run, starts>>

GoOn(st, by, err) ==
    /\ settings' = st
    /\ phase' = IF st.hung THEN "hung" ELSE phase
    /\ parse' = [parse EXCEPT !.cursor = @ + by, !.err = err]
    /\ UNCHANGED <<line, env, files, dataDir, opened, run, starts>>

Segment == Segments[parse.seg]
MoreArgs ==
    /\ parse.seg <= Len(Segments)
    /\ Segment.command # "help"
    /\ parse.cursor <= Len(Segment.args)

(***************************************************************************)
(* ParseCLIArgs, second pass: the arguments of a segment set the options   *)
(* of its command.  A word that is not the value of an option is an error. *)
(***************************************************************************)
ParseWord ==
    /\ Parsing /\ MoreArgs
    /\ Segment.args[parse.cursor].kind = "word"
    /\ UNCHANGED settings
    /\ Fail

\* An assignment: one to an option the command does not have is ignored.
valueInArg ==
    /\ Parsing /\ MoreArgs
    /\ LET arg == Segment.args[parse.cursor]
           known == arg.option \in OptionsOf[Segment.command]
           st == FromString(settings, arg.option, arg.word)
       IN /\ arg.kind = "set"
          /\ \/ ~ known /\ GoOn(settings, 1, FALSE)
             \/ known /\ st.ok /\ GoOn(st, 1, FALSE)
             \/ known /\ ~ st.ok /\ settings' = st /\ Fail

Text(arg) == IF arg.kind = "word" THEN arg.word ELSE "-"


\* A toggle with no truth value after it becomes the opposite of its default.
Toggled(st, o) ==
    LET reset == FromString(st, o, DefaultOf[o])
        v == IF reset.value[o] = "true" THEN "false" ELSE "true"
    IN FromString(reset, o, v)

\* The result of an option before its next argument: what is set, how many
\* arguments that took, and the error.  Text is set twice.
Given(o, next) ==
    LET once == FromString(settings, o, next)
        twice == FromString(once, o, next)
    IN IF TypeOf[o] \in Toggles
       THEN IF once.ok THEN [st |-> once, by |-> 2, err |-> FALSE]
            ELSE [st |-> Toggled(once, o), by |-> 1, err |-> TRUE]
       ELSE IF ~ once.ok THEN [st |-> once, by |-> 2, err |-> TRUE]
            ELSE [st |-> twice, by |-> 2, err |-> ~ twice.ok]

(***************************************************************************)
(* lookAhead runs for every option of the command, in the order of a map,  *)
(* and the error it gives for the option that was named is lost unless     *)
(* that option comes last.                                                 *)
(***************************************************************************)
lookAhead ==
    /\ Parsing /\ MoreArgs
    /\ LET args == Segment.args
           o == args[parse.cursor].option
           options == OptionsOf[Segment.command]
           hasNext == parse.cursor < Len(args)
       IN /\ args[parse.cursor].kind = "option"
          /\ IF o \notin options \/ (~ hasNext /\ TypeOf[o] \notin Toggles)
             THEN UNCHANGED settings /\ Fail
             ELSE IF ~ hasNext
             THEN GoOn(Toggled(settings, o), 1, FALSE)
             ELSE LET given == Given(o, Text(args[parse.cursor + 1]))
                  IN \E last \in options :
                        GoOn(given.st, given.by, given.err /\ last = o)

NextSegment ==
    /\ Parsing /\ ~ MoreArgs
    /\ parse.seg <= Len(Segments)
    /\ parse' = [parse EXCEPT !.cursor = 1,
                    !.seg = IF Segment.command = "help" THEN Len(Segments) + 1
                            ELSE @ + 1]
    /\ UNCHANGED <<line, env, files, dataDir, settings, phase, opened, run,
                   starts>>

ParseDone ==
    /\ Parsing /\ parse.seg > Len(Segments)
    /\ LET none == Len(Segments) = 1
           default == none /\ DefaultCommand # <<>>
           err == parse.err \/ (default /\ DefaultWalk.found # Len(DefaultCommand))
       IN /\ run' = IF default THEN DefaultWalk.command
                    ELSE IF none THEN "nil" ELSE Last(Segments).command
          /\ phase' = CASE err -> "failed"
                        [] phase = "first" -> "load"
                        [] OTHER -> "ready"
    /\ parse' = [seg |-> 1, cursor |-> 1, err |-> FALSE]
    /\ UNCHANGED <<line, env, files, dataDir, settings, opened, starts>>

(***************************************************************************)
(* The configuration file.  MarshalText names the table of a command by    *)
(* the root and the command, and leaves out what lies between; GetOpt      *)
(* finds an option by the whole path.  UnmarshalText runs no hook, and     *)
(* loads no duration, which toml gives as text, and no float that was      *)
(* written as an integer.                                                  *)
(***************************************************************************)
Table(c) == IF c = Root THEN <<Root>> ELSE <<Root, c>>

MarshalText ==
    {[table |-> Table(Owner(o)), option |-> o, value |-> settings.value[o]] :
        o \in Options}

GetOpt(table, o) == o \in Options /\ Path(Owner(o)) = table

Loads(o, v) ==
    CASE TypeOf[o] = "Duration" -> FALSE
      [] TypeOf[o] = "Float" -> v \notin Reads["Integer"]
      [] OTHER -> TRUE

Loaded(entries, o) ==
    {entry \in entries : entry.option = o /\ GetOpt(entry.table, o)
                                          /\ Loads(o, entry.value)}

UnmarshalText(entries) ==
    [settings EXCEPT !.value = [o \in Options |->
        IF Loaded(entries, o) = {} THEN @[o]
        ELSE (CHOOSE entry \in Loaded(entries, o) : TRUE).value]]

\* Creates the file; a path that is the data directory cannot be written.
SaveConfig(path) ==
    /\ dataDir' = TRUE
    /\ IF path = "dataDir"
       THEN phase' = "failed" /\ UNCHANGED files
       ELSE /\ files' = [files EXCEPT ![path] = MarshalText]
            /\ phase' = "env"
    /\ UNCHANGED settings

LoadConfig ==
    /\ phase = "load"
    /\ LET path == settings.expanded[ConfigFile]
       IN /\ opened' = path
          /\ \/ /\ path = "dataDir" /\ dataDir
                /\ phase' = "env"
                /\ UNCHANGED <<files, dataDir, settings>>
             \/ /\ path = "dataDir" /\ ~ dataDir
                /\ SaveConfig(path)
             \/ /\ path # "dataDir" /\ files[path] = NoFile
                /\ SaveConfig(path)
             \/ /\ path # "dataDir" /\ files[path] # NoFile
                /\ settings' = UnmarshalText(files[path])
                /\ phase' = "env"
                /\ UNCHANGED <<files, dataDir>>
    /\ UNCHANGED <<line, env, parse, run, starts>>

(***************************************************************************)
(* The environment.  GetEnvs appends the names of the options of a command *)
(* to one slice, which has room for one more at the third level: there     *)
(* the options share a name, that of the option the map gave last.         *)
(***************************************************************************)
Deep(o) == Len(Path(Owner(o))) > 2

DeepCommands == {Owner(o) : o \in {x \in Options : Deep(x)}}

GetEnvs(last) ==
    [o \in Options |-> IF Deep(o) THEN last[Owner(o)] ELSE o]

\* Stops at the first value that is refused.
LoadFromEnvironment ==
    /\ phase = "env"
    /\ \E last \in [DeepCommands -> Options] :
        LET Apply(st, o) ==
                LET v == env[GetEnvs(last)[o]]
                IN IF v = None \/ ~ st.ok \/ st.hung THEN st
                   ELSE FromString(st, o, v)
        IN /\ \A c \in DeepCommands : last[c] \in OptionsOf[c]
           /\ settings' = FoldLeft(Apply, [settings EXCEPT !.ok = TRUE], EnvOrder)
           /\ phase' = CASE settings'.hung -> "hung"
                         [] ~ settings'.ok -> "failed"
                         [] OTHER -> "second"
    /\ UNCHANGED <<line, env, files, dataDir, parse, opened, run, starts>>

(***************************************************************************)
(* app.New, Launch, and another start of the program.                      *)
(***************************************************************************)
New ==
    /\ phase = "new"
    /\ settings' = Init
    /\ phase' = "first"
    /\ UNCHANGED <<line, env, files, dataDir, parse, opened, run, starts>>

Launch ==
    /\ phase = "ready"
    /\ phase' = IF run = "nil" THEN "crashed" ELSE "launched"
    /\ UNCHANGED <<line, env, files, dataDir, settings, parse, opened, run,
                   starts>>

Restart ==
    /\ phase \in {"failed", "hung", "launched", "crashed"}
    /\ starts < MaxStarts
    /\ starts' = starts + 1
    /\ line' \in Lines
    /\ env' \in Environments
    /\ phase' = "new"
    /\ parse' = [seg |-> 1, cursor |-> 1, err |-> FALSE]
    /\ opened' = None
    /\ run' = "nil"
    /\ settings' = Init
    /\ UNCHANGED <<files, dataDir>>

CliInit ==
    /\ line \in Lines
    /\ env \in Environments
    /\ \/ files = [p \in HomePaths |-> NoFile] /\ dataDir = FALSE
       \/ /\ files = [p \in HomePaths |->
                        IF p = DefaultOf[ConfigFile] THEN UserFile ELSE NoFile]
          /\ dataDir = TRUE
    /\ settings = Init
    /\ phase = "new"
    /\ parse = [seg |-> 1, cursor |-> 1, err |-> FALSE]
    /\ opened = None
    /\ run = "nil"
    /\ starts = 1

CliNext ==
    \/ New \/ ParseWord \/ valueInArg \/ lookAhead \/ NextSegment \/ ParseDone
    \/ LoadConfig \/ LoadFromEnvironment \/ Launch \/ Restart

CliSpec == CliInit /\ [][CliNext]_cliVars

(***************************************************************************)
(* What the command line says, read without its parser: the arguments of a *)
(* segment that are not the value of the argument before them, and the     *)
(* last of them that gives an option a value.                              *)
(***************************************************************************)
ArgsOf(c) ==
    LET segs == SelectSeq(Segments, LAMBDA s : s.command = c)
    IN IF segs = <<>> \/ c = "help" THEN <<>> ELSE segs[1].args

TakesNext(args, i) ==
    /\ args[i].kind = "option"
    /\ i < Len(args)
    /\ TypeOf[args[i].option] \in Toggles =>
            Text(args[i + 1]) \in {"true", "false"}

Heads(args) ==
    LET head[i \in 0 .. Len(args)] ==
            \/ i = 1
            \/ i > 1 /\ head[i - 1] /\ ~ TakesNext(args, i - 1)
            \/ i > 2 /\ head[i - 2] /\ TakesNext(args, i - 2)
    IN {i \in DOMAIN args : head[i]}

Read(o, s) ==
    IF TypeOf[o] = "LogLevel" /\ s \notin Reads["LogLevel"] THEN DefaultOf[o]
    ELSE IF TypeOf[o] \in TextTypes \/ s \in Reads[TypeOf[o]] THEN s
    ELSE None

Opposite(o) == IF DefaultOf[o] = "true" THEN "false" ELSE "true"

ValueAt(o, args, i) ==
    IF args[i].kind = "set" THEN Read(o, args[i].word)
    ELSE IF TakesNext(args, i) THEN Read(o, Text(args[i + 1]))
    ELSE Opposite(o)

CliSays(o) ==
    LET args == ArgsOf(Owner(o))
        given == {i \in Heads(args) : /\ args[i].kind # "word"
                                     /\ args[i].option = o
                                     /\ ValueAt(o, args, i) # None}
    IN IF given = {} THEN None ELSE ValueAt(o, args, Max(given))

FileSays(o) ==
    LET entries == IF opened \in HomePaths THEN Loaded(files[opened], o) ELSE {}
    IN IF entries = {} THEN None ELSE (CHOOSE e \in entries : TRUE).value

(***************************************************************************)
(* An application that app.New made has, in every option, the last value   *)
(* the command line gives it, or else the value of the environment, of the *)
(* file, or its default.  Left out are the options of the third level      *)
(* whose environment variables are mixed up.                               *)
(***************************************************************************)
Mixed(o) == Deep(o) /\ \E x \in OptionsOf[Owner(o)] : env[x] # None

Precedence ==
    phase = "ready" => \A o \in Options : ~ Mixed(o) =>
        settings.value[o] =
            CASE CliSays(o) # None -> CliSays(o)
              [] CliSays(o) = None /\ env[o] # None -> env[o]
              [] CliSays(o) = None /\ env[o] = None /\ FileSays(o) # None ->
                    FileSays(o)
              [] OTHER -> Fresh(o)

(***************************************************************************)
(* The file that is read is the one the command line names, or else the    *)
(* default one, never one that the environment or the file itself names;   *)
(* a path that does not begin with "~" names the data directory.           *)
(***************************************************************************)
ReadsNamedFile ==
    phase = "ready" =>
        opened = ResolvePath(IF CliSays(ConfigFile) # None
                             THEN CliSays(ConfigFile)
                             ELSE DefaultOf[ConfigFile])

(***************************************************************************)
(* A value in the environment that its option refuses ends the start, even *)
(* when the command line gives the option another value.                   *)
(***************************************************************************)
BadEnvironmentStops ==
    phase = "ready" => \A o \in Options :
        ~ Deep(o) /\ env[o] # None /\ TypeOf[o] \notin {"Path", "LogFilePath", "List"}
            => env[o] \in Reads[TypeOf[o]]

(***************************************************************************)
(* app.New never returns only when the command line or the environment     *)
(* sets both LogToFile and LogFilePath: SetLogFilePath then waits for the  *)
(* lock it holds.                                                          *)
(***************************************************************************)
Says(o) == CliSays(o) # None \/ env[o] # None

HangsExplained ==
    phase = "hung" =>
        /\ \E o \in Options : TypeOf[o] = "LogFilePath" /\ Says(o)
        /\ \E o \in Options : TypeOf[o] = "LogToFile" /\ Says(o)

(***************************************************************************)
(* The log file is the one that LogFilePath names, although its hook runs  *)
(* on the previous value: the command line sets it twice.  The environment *)
(* sets it once, and the log file is then another one.                     *)
(***************************************************************************)
LogPathFollows ==
    phase = "ready" => \A o \in Options :
        TypeOf[o] = "LogFilePath" /\ env[o] = None
            => settings.log = settings.expanded[o]

==============================================================================
