------------------------------- MODULE MCCasebook -------------------------------
(* Three incidents on hosts of one site, with the same root process, the     *)
(* third on the host and with the chain of the first; rules of the corpus    *)
(* and the statistical detectors, with their techniques.                     *)
EXTENDS Casebook

CONSTANTS i1, i2, i3

Plain ==
    [rule |-> "", severity |-> "high", attack |-> {}, user |-> {}, commandLine |-> {},
     other |-> {}, evidence |-> 0, ip |-> "", port |-> 0, hostname |-> "", sha256 |-> "",
     registryKey |-> "", integrity |-> "medium"]

OfficeShell == [Plain EXCEPT !.rule = "SYS-001", !.attack = {"T1566.001", "T1059"},
    !.commandLine = {"powershell"}, !.user = {"alice"}, !.sha256 = "h1"]
Cradle == [Plain EXCEPT !.rule = "SYS-009", !.attack = {"T1059.001", "T1105"},
    !.commandLine = {"powershell"}, !.sha256 = "h1"]
LsassAccess == [Plain EXCEPT !.rule = "SYS-010", !.severity = "critical",
    !.attack = {"T1003.001"}, !.user = {"system"}, !.integrity = "system"]
LsassDump == [Plain EXCEPT !.rule = "SYS-041", !.severity = "critical",
    !.attack = {"T1003.001"}, !.user = {"alice"}]
Mimikatz == [Plain EXCEPT !.rule = "SYS-131", !.severity = "critical",
    !.attack = {"T1003.001"}, !.commandLine = {"mimikatz"}]
Hollowing == [Plain EXCEPT !.rule = "SYS-205", !.attack = {"T1055.012"}]
RunKey == [Plain EXCEPT !.rule = "SYS-030", !.attack = {"T1547.001"}, !.registryKey = "k1"]
Beacon == [Plain EXCEPT !.rule = "BCN-001", !.severity = "high", !.evidence = 43,
    !.attack = {"T1071.001", "T1573"}, !.ip = "a1", !.port = 443, !.hostname = "n1"]
NetworkScan == [Plain EXCEPT !.rule = "SCN-001", !.severity = "medium", !.attack = {"T1046"},
    !.ip = "a2"]

MCCorpus == {OfficeShell, Cradle, LsassAccess, LsassDump, Mimikatz, Hollowing, RunKey}
MCCatalog == MCCorpus \cup {Beacon, NetworkScan}

\* Enough joins the third to repeat the first, or to resemble it.
MCRaisedIn == [c \in {i1, i2, i3} |->
    IF c = i3 THEN {Cradle, RunKey} ELSE MCCatalog \ {RunKey}]

MCHostOf == [c \in {i1, i2, i3} |->
    IF c = i2 THEN {"fin", "fin-srv"} ELSE {"fin", "fin-ws"}]
MCChainOf == [c \in {i1, i2, i3} |->
    IF c = i2 THEN <<"winword", "cmd">> ELSE <<"winword", "powershell">>]

\* The titles' words that other texts have too.
MCTitleWords == [title \in [kind : {"chain", "narrative", "signature", "tactic", "none"}, n : 1..10] |->
    IF title.kind = "chain" /\ title.n = 3 THEN {"powershell"} ELSE {}]

MCIndexes == {{}, {"T1566.001", "T1046", "T1595"}}

Word(key, value) == [key |-> key, value |-> value, text |-> value]
MCWords ==
    {Word("", "powershell"), Word("", "winword"), Word("host", "fin-ws"),
     Word("severity", "critical"), Word("technique", "T1003"),
     Word("actionable", "true"), Word("command_line", "powershell")}
=============================================================================
