------------------------------- MODULE Config -------------------------------
(***************************************************************************)
(* The start of mavlink-routerd: the default configuration file, the files *)
(* of the configuration directory, the command line, and the endpoints     *)
(* they ask for.                                                           *)
(*                                                                         *)
(* A file is a sequence of lines and a flag that says whether its last     *)
(* line ends in a newline.  Empty lines and comments are left out, and so  *)
(* is the case of names, which the code ignores.  "AllowSrcSysOut" stands  *)
(* for the options whose value is a list, "group" for the ones whose value *)
(* is any text.                                                            *)
(***************************************************************************)
EXTENDS Integers, FiniteSets, SequencesExt

CONSTANTS
    ConfFiles,   \* what the default file may be
    ConfDirs,    \* what the directory may hold: files by name, names as numbers
    Argvs,       \* what the command line may be
    FirstPort    \* 14550

VARIABLES
    conf_file, conf_dir, argv,   \* the input, which never changes
    pc,         \* how far main() is
    todo,       \* files of the directory that are not parsed yet
    sections,   \* ConfFile::_sections, the newest first
    config,     \* Configuration
    sniffer     \* Endpoint::sniffer_sysid

input == <<conf_file, conf_dir, argv>>

vars == <<input, pc, todo, sections, config, sniffer>>

Unset == -1        \* ULONG_MAX

NotANumber == -2   \* a text that is no number

General == [kind |-> "general", name |-> ""]

NoSection == [kind |-> "none", name |-> ""]

DefaultBaudrate == <<115200>>

-----------------------------------------------------------------------------
\* ConfFile.  While a file is parsed the state is a record: the sections, the
\* name of the one that options go to, and whether there was an error.
AddSection(st, name) ==
    [st EXCEPT !.s = name,
               !.sections = IF \E i \in DOMAIN @ : @[i].name = name THEN @
                            ELSE <<[name |-> name, configs |-> <<>>]>> \o @]

\* Mutant: the first definition of an option stays.
AddConfigFirst(st, key, value) ==
    [st EXCEPT !.sections = [i \in DOMAIN @ |->
        IF @[i].name = st.s THEN [@[i] EXCEPT !.configs = @ @@ (key :> value)] ELSE @[i]]]

AddConfig(st, key, value) ==
    [st EXCEPT !.sections = [i \in DOMAIN @ |->
        IF @[i].name = st.s THEN [@[i] EXCEPT !.configs = (key :> value) @@ @] ELSE @[i]]]

\* Mutant: an option without a section is skipped.
ParseLineLenient(st, line) ==
    CASE st.ret # "ok" -> st
      [] line.type = "section" -> AddSection(st, line.name)
      [] line.type = "option" ->
            IF st.s = NoSection THEN st ELSE AddConfig(st, line.key, line.value)
      [] line.type = "malformed" -> [st EXCEPT !.ret = "EINVAL"]

ParseLine(st, line) ==
    CASE st.ret # "ok" -> st
      [] line.type = "section" -> AddSection(st, line.name)
      [] line.type = "option" /\ st.s # NoSection -> AddConfig(st, line.key, line.value)
      [] OTHER -> [st EXCEPT !.ret = "EINVAL"]

\* memchr finds only lines that end in a newline.
Terminated(file) == IF file.ended THEN file.lines ELSE Front(file.lines)

\* An empty file cannot be mapped.
Parse(file) ==
    LET st == [sections |-> sections, s |-> NoSection, ret |-> "ok"]
    IN  CASE ~file.exists -> [st EXCEPT !.ret = "ENOENT"]
          [] file.exists /\ file.lines = <<>> -> [st EXCEPT !.ret = "EINVAL"]
          [] OTHER -> FoldLeft(ParseLine, st, Terminated(file))

-----------------------------------------------------------------------------
\* The option tables: the keys of a kind of section, and which are required.
OptionTable(kind) ==
    CASE kind = "general" -> [TcpServerPort |-> FALSE, SnifferSysid |-> FALSE]
      [] kind = "uart" -> [device |-> TRUE, baud |-> FALSE, AllowSrcSysOut |-> FALSE,
                           group |-> FALSE]
      [] kind = "udp" -> [address |-> TRUE, mode |-> TRUE, port |-> FALSE,
                          AllowSrcSysOut |-> FALSE, group |-> FALSE]
      [] kind = "tcp" -> [address |-> TRUE, port |-> TRUE, AllowSrcSysOut |-> FALSE,
                          group |-> FALSE]

\* The value a parser stores.  A list of numbers is stored as bytes.
ParseUint8Vector(list) == [i \in DOMAIN list |-> list[i] % 256]

ParseUdpMode(text) ==
    CASE text = "normal" -> "Client"
      [] text \in {"server", "eavesdropping"} -> "Server"
      [] text = "receiver" -> "Receiver"
      [] OTHER -> "Undefined"

ParserAccepts(key, value) ==
    CASE key \in {"port", "TcpServerPort", "SnifferSysid"} -> value # NotANumber
      [] key = "mode" -> ParseUdpMode(value) # "Undefined"
      [] OTHER -> TRUE

ExtractOptions(configs, table) ==
    \A key \in DOMAIN table :
        IF key \in DOMAIN configs THEN ParserAccepts(key, configs[key]) ELSE ~table[key]

Option(configs, key, default) == IF key \in DOMAIN configs THEN configs[key] ELSE default

\* find_next_udp_port: the loop ends at the first endpoint in the way.
FindNextUdpPort(ip, udp_configs) ==
    IF \E i \in DOMAIN udp_configs :
          udp_configs[i].address = ip /\ udp_configs[i].port = FirstPort
    THEN FirstPort + 1
    ELSE FirstPort

ValidateIp(ip) == ip \notin {"", "not an address"}

ValidPort(port) == port \notin {0, Unset}

Filters(configs) == ParseUint8Vector(Option(configs, "AllowSrcSysOut", <<>>))

UartConfig(name, configs) ==
    [name |-> name, device |-> configs["device"],
     baudrates |-> IF Option(configs, "baud", <<>>) = <<>> THEN DefaultBaudrate
                   ELSE configs["baud"],
     allow_src_sys_out |-> Filters(configs)]

UdpConfig(name, configs, udp_configs) ==
    LET mode == ParseUdpMode(configs["mode"])
        port == Option(configs, "port", Unset)
    IN  [name |-> name, address |-> configs["address"], mode |-> mode,
         port |-> IF mode = "Client" /\ port = Unset
                  THEN FindNextUdpPort(configs["address"], udp_configs) ELSE port,
         allow_src_sys_out |-> Filters(configs)]

TcpConfig(name, configs) ==
    [name |-> name, address |-> configs["address"], port |-> configs["port"],
     allow_src_sys_out |-> Filters(configs)]

ValidIpConfig(c) == ValidateIp(c.address) /\ ValidPort(c.port)

-----------------------------------------------------------------------------
\* get_sections: the sections of a kind, in the order of the list.
GetSections(kind) == SelectSeq(sections, LAMBDA s : s.name.kind = kind)

GeneralOptions ==
    LET found == GetSections("general")
    IN  IF found = <<>> THEN <<>> ELSE found[1].configs

AllUart == LET found == GetSections("uart")
           IN  [i \in DOMAIN found |-> UartConfig(found[i].name.name, found[i].configs)]

AllUdp == FoldLeft(LAMBDA cs, s : Append(cs, UdpConfig(s.name.name, s.configs, cs)),
                   <<>>, GetSections("udp"))

AllTcp == LET found == GetSections("tcp")
          IN  [i \in DOMAIN found |-> TcpConfig(found[i].name.name, found[i].configs)]

AllExtracted ==
    \A i \in DOMAIN sections : sections[i].name.kind # "other" =>
        ExtractOptions(sections[i].configs, OptionTable(sections[i].name.kind))

AllValid(configs) == \A i \in DOMAIN configs : ValidIpConfig(configs[i])

\* A section that asks for no device or mode ends parse_confs before its
\* endpoint is looked at: AllExtracted guards the others.
ParseConfs ==
    /\ pc = "dir" /\ todo = <<>>
    /\ IF AllExtracted /\ AllValid(AllUdp) /\ AllValid(AllTcp)
       THEN /\ config' = [config EXCEPT
                   !.tcp_port = Option(GeneralOptions, "TcpServerPort", @),
                   !.sniffer_sysid = Option(GeneralOptions, "SnifferSysid", @),
                   !.uart = AllUart, !.udp = AllUdp, !.tcp = AllTcp]
            /\ pc' = "argv"
       ELSE pc' = "failed" /\ UNCHANGED config
    /\ UNCHANGED <<input, todo, sections, sniffer>>

-----------------------------------------------------------------------------
\* parse_argv.  One argument changes the configuration or ends the program.
CliUdp(arg, mode, port) ==
    [name |-> "CLI", address |-> arg.base, mode |-> mode, port |-> port,
     allow_src_sys_out |-> <<>>]

AddCli(st, field, c) ==
    IF ValidIpConfig(c) THEN [st EXCEPT !.config[field] = Append(@, c)]
    ELSE [st EXCEPT !.ok = FALSE]

\* The address of the endpoint is not set yet when the next port is looked up.
ParseEndpointArg(st, arg) ==
    AddCli(st, "udp", CliUdp(arg, "Client",
        IF arg.number # Unset THEN arg.number ELSE FindNextUdpPort("", st.config.udp)))

SnifferArg(st, arg) ==
    LET id == arg.number % 65536
    IN  IF id \in 1..255 THEN [st EXCEPT !.config.sniffer_sysid = id]
        ELSE [st EXCEPT !.ok = FALSE]

\* A positional argument is a character device, or an address.
ParsePositional(st, arg) ==
    IF arg.device
    THEN [st EXCEPT !.config.uart = Append(@,
             [name |-> "CLI", device |-> arg.base,
              baudrates |-> IF arg.number = Unset THEN DefaultBaudrate ELSE <<arg.number>>,
              allow_src_sys_out |-> <<>>])]
    ELSE AddCli(st, "udp", CliUdp(arg, "Server", arg.number))

ParseArg(st, arg) ==
    CASE ~st.ok \/ arg.opt \in {"h", "?"} \/ arg.number = NotANumber -> [st EXCEPT !.ok = FALSE]
      [] arg.opt = "e" -> ParseEndpointArg(st, arg)
      [] arg.opt = "t" -> [st EXCEPT !.config.tcp_port = arg.number]
      [] arg.opt = "s" -> SnifferArg(st, arg)
      [] arg.opt = "p" -> AddCli(st, "tcp",
            [name |-> "CLI", address |-> arg.base, port |-> arg.number,
             allow_src_sys_out |-> <<>>])
      [] arg.opt = "" -> ParsePositional(st, arg)

\* getopt_long moves the positional arguments to the end.
Permuted == SelectSeq(argv, LAMBDA a : a.opt # "") \o SelectSeq(argv, LAMBDA a : a.opt = "")

ParseArgv ==
    /\ pc = "argv"
    /\ LET st == FoldLeft(ParseArg, [config |-> config, ok |-> TRUE], Permuted)
       IN  IF st.ok THEN config' = st.config /\ pc' = "add"
           ELSE pc' = "failed" /\ UNCHANGED config
    /\ UNCHANGED <<input, todo, sections, sniffer>>

-----------------------------------------------------------------------------
Init ==
    /\ conf_file \in ConfFiles /\ conf_dir \in ConfDirs /\ argv \in Argvs
    /\ pc = "start"
    /\ todo = <<>>
    /\ sections = <<>>
    /\ config = [tcp_port |-> 5760, sniffer_sysid |-> 0,
                 uart |-> <<>>, udp |-> <<>>, tcp |-> <<>>]
    /\ sniffer = 0

FileOrder == SetToSortSeq(DOMAIN conf_dir, <)

\* There may be no default file, but it must not have errors.
ParseDefault ==
    /\ pc = "start"
    /\ LET st == Parse(conf_file)
       IN  IF st.ret \in {"ok", "ENOENT"}
           THEN /\ pc' = "dir"
                /\ sections' = st.sections
                /\ todo' = [i \in DOMAIN FileOrder |-> conf_dir[FileOrder[i]]]
           ELSE pc' = "failed" /\ UNCHANGED <<sections, todo>>
    /\ UNCHANGED <<input, config, sniffer>>

ParseDirFile ==
    /\ pc = "dir" /\ todo # <<>>
    /\ LET st == Parse(Head(todo))
       IN  IF st.ret = "ok"
           THEN sections' = st.sections /\ todo' = Tail(todo) /\ UNCHANGED pc
           ELSE pc' = "failed" /\ UNCHANGED <<sections, todo>>
    /\ UNCHANGED <<input, config, sniffer>>

\* add_endpoints: every endpoint can be set up, or the program ends.
AddEndpoints ==
    /\ pc = "add"
    /\ sniffer' = IF config.sniffer_sysid # 0 THEN config.sniffer_sysid % 65536 ELSE sniffer
    /\ pc' \in {"loop", "setup failed"}
    /\ UNCHANGED <<input, todo, sections, config>>

Next == ParseDefault \/ ParseDirFile \/ ParseConfs \/ ParseArgv \/ AddEndpoints

Spec == Init /\ [][Next]_vars

-----------------------------------------------------------------------------
\* What the files say, read as a whole.  A place is a file (0 is the default
\* one) and a line of it.
Text(f) == IF f = 0 THEN conf_file ELSE conf_dir[f]

Places ==
    UNION {{<<f, i>> : i \in 1..(Len(Text(f).lines) - IF Text(f).ended THEN 0 ELSE 1)} :
           f \in {0} \cup DOMAIN conf_dir}

Line(p) == Text(p[1]).lines[p[2]]

SectionLines == {p \in Places : Line(p).type = "section"}

Precedes(p, q) == p[1] < q[1] \/ (p[1] = q[1] /\ p[2] < q[2])

Latest(S) == CHOOSE p \in S : \A q \in S \ {p} : Precedes(q, p)

SectionAt(p) ==
    LET above == {q \in SectionLines : q[1] = p[1] /\ q[2] < p[2]}
    IN  IF above = {} THEN NoSection ELSE Line(Latest(above)).name

Named(kind) == {n \in {Line(p).name : p \in SectionLines} : n.kind = kind}

Definitions(name, key) ==
    {p \in Places : Line(p).type = "option" /\ Line(p).key = key /\ SectionAt(p) = name}

Value(name, key, default) ==
    LET found == Definitions(name, key)
    IN  IF found = {} THEN default ELSE Line(Latest(found)).value

ArgsOf(opt) == {i \in DOMAIN argv : argv[i].opt = opt}

LastArg(opt, default) ==
    LET given == ArgsOf(opt)
    IN  IF given = {} THEN default ELSE argv[CHOOSE i \in given : \A j \in given : j <= i].number

\* Every section of kind, however often and in however many files it is
\* opened, has become one endpoint, which agrees with it.
OnePerSection(kind, configs, Agrees(_, _)) ==
    /\ Cardinality({i \in DOMAIN configs : configs[i].name # "CLI"}) = Cardinality(Named(kind))
    /\ \A n \in Named(kind) : \E i \in DOMAIN configs :
          configs[i].name = n.name /\ Agrees(n, configs[i])

\* The program runs with what was said last: the command line over the files,
\* a later file over an earlier one, a later line over an earlier one, option
\* by option, as conf_file.h promises ("the option is overrided by the option
\* from the new file. Other options from sections are not changed").
LaterWins ==
    pc = "loop" =>
        /\ config.tcp_port = LastArg("t", Value(General, "TcpServerPort", 5760))
        /\ sniffer = LastArg("s", Value(General, "SnifferSysid", 0)) % 65536
        /\ OnePerSection("uart", config.uart, LAMBDA n, c : c.device = Value(n, "device", ""))
        /\ OnePerSection("udp", config.udp, LAMBDA n, c :
              /\ c.address = Value(n, "address", "")
              /\ c.mode = ParseUdpMode(Value(n, "mode", ""))
              /\ Value(n, "port", Unset) \in {Unset, c.port})
        /\ OnePerSection("tcp", config.tcp, LAMBDA n, c :
              c.address = Value(n, "address", "") /\ c.port = Value(n, "port", Unset))

WellFormed ==
    /\ \A f \in DOMAIN conf_dir : conf_dir[f].exists
    /\ \A f \in {0} \cup DOMAIN conf_dir : Text(f).exists => Text(f).lines # <<>>
    /\ \A p \in Places :
          /\ Line(p).type # "malformed"
          /\ Line(p).type = "option" => SectionAt(p) # NoSection

NumberGood(n, key) == Value(n, key, Unset) # NotANumber

AddressGood(n) == ValidateIp(Value(n, "address", ""))

SectionsGood ==
    /\ NumberGood(General, "TcpServerPort") /\ NumberGood(General, "SnifferSysid")
    /\ \A n \in Named("uart") : Definitions(n, "device") # {}
    /\ \A n \in Named("udp") :
          /\ AddressGood(n)
          /\ ParseUdpMode(Value(n, "mode", "")) # "Undefined"
          /\ Value(n, "port", Unset) \notin {0, NotANumber}
          /\ Value(n, "mode", "") # "normal" => Value(n, "port", Unset) # Unset
    /\ \A n \in Named("tcp") :
          AddressGood(n) /\ Value(n, "port", Unset) \notin {0, Unset, NotANumber}

ArgGood(a) ==
    /\ a.opt \notin {"h", "?"} /\ a.number # NotANumber
    /\ a.opt \in {"e", "p"} \/ (a.opt = "" /\ ~a.device) => ValidateIp(a.base) /\ a.number # 0
    /\ a.opt = "p" \/ (a.opt = "" /\ ~a.device) => a.number # Unset
    /\ a.opt = "s" => a.number % 65536 \in 1..255

\* The router starts exactly when everything it was given makes sense: an error
\* in any file, in the section of any endpoint or in any argument ends the
\* program before the first endpoint is made, and nothing else does.
StartsIffValid ==
    LET Valid == WellFormed /\ SectionsGood /\ \A i \in DOMAIN argv : ArgGood(argv[i])
    IN  /\ pc \in {"add", "loop", "setup failed"} => Valid
        /\ pc = "failed" => ~Valid

PortChosen(c) ==
    \/ \E n \in Named("udp") : n.name = c.name /\ Value(n, "port", Unset) = Unset
    \/ c.name = "CLI" /\ \E i \in ArgsOf("e") : argv[i].number = Unset /\ argv[i].base = c.address

\* "Optional in <normal> mode, will select the next port not used by
\* mavlink-router starting from 14550 when not speciifed" (config.sample:263):
\* a port that find_next_udp_port chose is not that of an earlier endpoint.
PortsApart ==
    pc = "loop" => \A i, j \in DOMAIN config.udp :
        i < j /\ PortChosen(config.udp[j]) =>
            \/ config.udp[i].address # config.udp[j].address
            \/ config.udp[i].port # config.udp[j].port
=============================================================================
