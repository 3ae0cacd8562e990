------------------------------ MODULE MCConfig ------------------------------
EXTENDS Config

Udp(n) == [kind |-> "udp", name |-> n]

Sec(kind, n) == [type |-> "section", name |-> [kind |-> kind, name |-> n]]

Opt(key, value) == [type |-> "option", key |-> key, value |-> value]

File(lines) == [exists |-> TRUE, ended |-> TRUE, lines |-> lines]

Cut(lines) == [exists |-> TRUE, ended |-> FALSE, lines |-> lines]

Absent == [exists |-> FALSE, ended |-> TRUE, lines |-> <<>>]

Arg(opt, base, number) == [opt |-> opt, base |-> base, number |-> number, device |-> FALSE]

\* Pieces of files: whole sections, parts of one, and errors.
Alfa == <<Sec("udp", "alfa"), Opt("address", "10.0.0.1"), Opt("mode", "normal")>>

Pieces == {
    Alfa,
    <<Sec("udp", "alfa"), Opt("port", 14551)>>,
    <<Sec("udp", "alfa"), Opt("mode", "server"), Opt("address", "10.0.0.2")>>,
    <<Sec("udp", "bravo"), Opt("mode", "normal"), Opt("address", "10.0.0.1"),
      Opt("AllowSrcSysOut", <<1, 257>>)>>,
    <<Sec("tcp", "alfa"), Opt("address", "10.0.0.1"), Opt("port", 5760)>>,
    <<Sec("uart", "alfa"), Opt("device", "ttyS0"), Opt("device", "ttyS1")>>,
    <<Sec("general", ""), Opt("TcpServerPort", 0)>>,
    <<Sec("general", ""), Opt("TcpServerPort", NotANumber), Opt("SnifferSysid", 254)>>,
    <<Sec("other", "")>>,
    <<Opt("mode", "server")>>,
    <<[type |-> "malformed"]>>}

Lines1 == Pieces \cup {p \o q : p, q \in Pieces}

SomeConfFiles == {Absent, File(<<>>)} \cup {File(l) : l \in Lines1}
                    \cup {Cut(l) : l \in Pieces}

SomeConfDirs == {<<>>} \cup {(1 :> File(p)) : p \in Pieces}
                   \cup {(1 :> File(p) @@ 2 :> Cut(q)) : p, q \in Pieces}
                   \cup {(2 :> Absent)}

SomeArgvs == {
    <<>>,
    <<Arg("e", "10.0.0.1", Unset), Arg("t", "", 0)>>,
    <<[Arg("", "ttyS2", 57600) EXCEPT !.device = TRUE], Arg("s", "", 65537)>>,
    <<Arg("", "0.0.0.0", 24550), Arg("p", "10.0.0.3", 5790)>>,
    <<Arg("e", "not an address", 1)>>,
    <<Arg("", "0.0.0.0", Unset)>>,
    <<Arg("t", "", 5761), Arg("h", "", Unset)>>}

\* Three endpoints on one address.
Three == {File(Alfa \o <<Sec("udp", n), Opt("address", "10.0.0.1"), Opt("mode", "normal")>>) :
             n \in {"alfa", "bravo"}}

ThreeDirs == {<<>>} \cup {(1 :> File(<<Sec("udp", n), Opt("address", a), Opt("mode", "normal")>>)) :
             n \in {"alfa", "bravo", "charlie"}, a \in {"10.0.0.1", "10.0.0.2"}}
=============================================================================
