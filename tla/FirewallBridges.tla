--------------------------- MODULE FirewallBridges ---------------------------
(***************************************************************************)
(* The three OS bridges of backend/os_adapters.  block_port and            *)
(* unblock_port are two steps each, with the process alive or killed       *)
(* between them: check and insertion, or one deletion per protocol         *)
(* (iptables); one rule per direction (netsh); the rules file and the      *)
(* command that loads it (pf).                                             *)
(*                                                                         *)
(* A step is the set of its results [fw, next, whole]: the firewall it     *)
(* leaves, how the operation goes on ("next", or it has "returned" True,   *)
(* or "raised"), and whether the step did all it is there for.  Without    *)
(* faults there is one result; with faults ("os" \in faults) a command     *)
(* may fail, or time out, whether or not it took effect.                   *)
(***************************************************************************)
EXTENDS Naturals

CONSTANTS
    Ports,      \* port numbers
    Platforms   \* the platforms considered: "linux", "windows", "darwin"

ASSUME BridgeAssumption == Platforms \subseteq {"linux", "windows", "darwin"}

VARIABLE
    faults      \* what may go wrong in this behaviour: "os" (firewall commands),
                \* "db" (database writes), "second" (another instance is
                \* started); chosen at the start

Protos == {"tcp", "udp"}

(* Linux inserts into INPUT, Windows has a rule per direction, and one pf  *)
(* rule of macOS covers both directions.                                   *)
Dirs(platform) ==
    CASE platform = "linux"   -> {"in"}
      [] platform = "windows" -> {"in", "out"}
      [] platform = "darwin"  -> {"both"}

Rule == {"in", "out", "both"} \X Ports \X Protos

(* The firewall: the drop rules in force and, for macOS, the module-level  *)
(* dict _active_rules and the rules file, each one rule per port.          *)
NoRules == [p \in Ports |-> "none"]

RuleTable == [Ports -> Protos \cup {"none"}]

Firewall == [rules : SUBSET Rule, active : RuleTable, file : RuleTable]

RulesOf(fw, p) == {r \in fw.rules : r[2] = p}

Drop(platform, p, proto) == Dirs(platform) \X {p} \X {proto}

OsMayFail == "os" \in faults

Result(fw, next, whole) == [fw |-> fw, next |-> next, whole |-> whole]

WithRules(fw, rules) == [fw EXCEPT !.rules = rules]

(* The results a failing command may have besides the one it should have. *)
OrFails(result, failures) == {result} \cup {f \in failures : OsMayFail}

-----------------------------------------------------------------------------
(* Linux: iptables.                                                        *)

(* -C: a rule that is there ends the operation; any exit code but zero     *)
(* counts as absent.                                                       *)
LinuxCheck(fw, p, proto) ==
    LET there == Drop("linux", p, proto) \subseteq fw.rules
    IN  OrFails(Result(fw, IF there THEN "returned" ELSE "next", TRUE),
                {Result(fw, "next", FALSE), Result(fw, "raised", FALSE)})

(* -I.  A second copy of a rule is the same rule here; IptablesChain has   *)
(* the copies.                                                             *)
LinuxInsert(fw, p, proto) ==
    LET done == WithRules(fw, fw.rules \cup Drop("linux", p, proto))
    IN  OrFails(Result(done, "returned", TRUE),
                {Result(fw, "raised", FALSE), Result(done, "raised", FALSE)})

(* Mutant of LinuxDelete: udp rules are looked for as tcp ones. *)
LinuxDeleteTcp(fw, p, proto, next) ==
    {Result(WithRules(fw, fw.rules \ Drop("linux", p, "tcp")), next, TRUE)}

(* -D, for tcp and then for udp; what it returns is not looked at. *)
LinuxDelete(fw, p, proto, next) ==
    OrFails(Result(WithRules(fw, fw.rules \ Drop("linux", p, proto)), next, TRUE),
            {Result(fw, next, FALSE)})

-----------------------------------------------------------------------------
(* Windows: netsh advfirewall.                                             *)

(* The outbound rule, then the inbound one; the first failure raises and   *)
(* leaves what was added before it.                                        *)
WindowsAdd(fw, p, proto, dir, next) ==
    LET done == WithRules(fw, fw.rules \cup {<<dir, p, proto>>})
    IN  OrFails(Result(done, next, TRUE),
                {Result(fw, "raised", FALSE), Result(done, "raised", FALSE)})

(* Mutant of WindowsDelete: the inbound rule is looked for twice. *)
WindowsDeleteInbound(fw, p, dir, next) ==
    {Result(WithRules(fw, {r \in fw.rules : ~(r[2] = p /\ r[1] = "in")}), next, TRUE)}

(* The rule name has the direction and the port but not the protocol, so   *)
(* one deletion removes the rules of both protocols.                       *)
WindowsDelete(fw, p, dir, next) ==
    OrFails(Result(WithRules(fw, {r \in fw.rules : ~(r[2] = p /\ r[1] = dir)}), next, TRUE),
            {Result(fw, next, FALSE)})

-----------------------------------------------------------------------------
(* macOS: pf.                                                              *)

Loaded(file) == {<<"both", p, file[p]>> : p \in {q \in Ports : file[q] # "none"}}

(* The rules file is emptied and then written: an error, or a kill, in     *)
(* between leaves a part of the dict in it.                                *)
PartlyWritten(fw) ==
    {[fw EXCEPT !.file = [q \in Ports |-> IF q \in part THEN fw.active[q] ELSE "none"]] :
        part \in SUBSET Ports}

(* _write_pf_rules: the whole dict is written; an error is only logged. *)
Written(fw) ==
    OrFails(Result([fw EXCEPT !.file = fw.active], "next", TRUE),
            {Result(g, "next", FALSE) : g \in {fw} \cup PartlyWritten(fw)})

(* pfctl -f replaces the rules of the anchor by those of the file; its     *)
(* return code is not looked at.                                           *)
Reloaded(fw) ==
    OrFails(Result(WithRules(fw, Loaded(fw.file)), "returned", TRUE),
            {Result(fw, "returned", FALSE)})

(* block_port does it itself, and raises on a timeout. *)
ReloadedOrRaised(fw) ==
    Reloaded(fw) \cup {r \in {Result(fw, "raised", FALSE),
                              Result(WithRules(fw, Loaded(fw.file)), "raised", FALSE)} : OsMayFail}

(* The dict has one rule per port: a second protocol replaces the first. *)
Tracking(fw, p, proto) == [fw EXCEPT !.active[p] = proto]

(* Mutant of DarwinKnown: the rules file is not looked at. *)
DarwinKnownByProcess(fw, p) == fw.active

(* A port the process does not know of is looked for in the rules file,    *)
(* whose rules are taken over.                                             *)
DarwinKnown(fw, p) ==
    IF fw.active[p] # "none" THEN fw.active
    ELSE [q \in Ports |-> IF fw.file[q] # "none" THEN fw.file[q] ELSE fw.active[q]]

Forgetting(fw, p) == [fw EXCEPT !.active = [DarwinKnown(fw, p) EXCEPT ![p] = "none"]]

(* A port neither dict nor file has is taken to be open, as is one of a    *)
(* file that cannot be read.                                               *)
DarwinForget(fw, p) ==
    IF DarwinKnown(fw, p)[p] = "none" THEN {Result(Forgetting(fw, p), "returned", TRUE)}
    ELSE Written(Forgetting(fw, p))
             \cup {r \in {Result(fw, "returned", FALSE)} : OsMayFail /\ fw.active[p] = "none"}

-----------------------------------------------------------------------------
(* wire_os_bridge picks the bridge of the platform.                        *)

BlockFirst(platform, fw, p, proto) ==
    CASE platform = "linux"   -> LinuxCheck(fw, p, proto)
      [] platform = "windows" -> WindowsAdd(fw, p, proto, "out", "next")
      [] platform = "darwin"  -> Written(Tracking(fw, p, proto))

BlockSecond(platform, fw, p, proto) ==
    CASE platform = "linux"   -> LinuxInsert(fw, p, proto)
      [] platform = "windows" -> WindowsAdd(fw, p, proto, "in", "returned")
      [] platform = "darwin"  -> ReloadedOrRaised(fw)

UnblockFirst(platform, fw, p) ==
    CASE platform = "linux"   -> LinuxDelete(fw, p, "tcp", "next")
      [] platform = "windows" -> WindowsDelete(fw, p, "out", "next")
      [] platform = "darwin"  -> DarwinForget(fw, p)

UnblockSecond(platform, fw, p) ==
    CASE platform = "linux"   -> LinuxDelete(fw, p, "udp", "returned")
      [] platform = "windows" -> WindowsDelete(fw, p, "in", "returned")
      [] platform = "darwin"  -> Reloaded(fw)

(* What a kill within the first step may leave: only the rules file is     *)
(* written in more than one go.                                            *)
BlockCut(platform, fw, p, proto) ==
    {fw} \cup {g \in PartlyWritten(Tracking(fw, p, proto)) : platform = "darwin"}

UnblockCut(platform, fw, p) ==
    {fw} \cup {g \in PartlyWritten(Forgetting(fw, p)) :
                  platform = "darwin" /\ DarwinKnown(fw, p)[p] # "none"}

-----------------------------------------------------------------------------
(* cleanup_all_rules: every rule listed is deleted on its own; pf flushes  *)
(* its anchor and removes the file.                                        *)

Cleaned(fw) == [rules |-> {}, active |-> NoRules, file |-> NoRules]

(* What a cleanup leaves that is killed, or in which commands fail: some   *)
(* rules (on Windows, those of some names); on macOS rules or file, the    *)
(* dict being cleared first.                                               *)
PartlyCleaned(platform, fw) ==
    CASE platform = "linux"   -> {WithRules(fw, kept) : kept \in SUBSET fw.rules}
      [] platform = "windows" ->
             {WithRules(fw, {r \in fw.rules : <<r[1], r[2]>> \in kept}) :
                 kept \in SUBSET (Dirs(platform) \X Ports)}
      [] platform = "darwin"  ->
             {[rules |-> rules, active |-> NoRules, file |-> file] :
                 rules \in {{}, fw.rules}, file \in {fw.file, NoRules}}

CleanupAllRules(platform, fw) ==
    OrFails(Result(Cleaned(fw), "returned", TRUE),
            {Result(g, "returned", FALSE) : g \in PartlyCleaned(platform, fw)})

(* A port is dropped for a protocol when all its rules are in force. *)
Enforced(platform, fw, p, proto) == Drop(platform, p, proto) \subseteq fw.rules

(* What is left when the process is gone, and when the machine restarts:   *)
(* Windows keeps its rules, iptables and pf do not, and the rules file is  *)
(* in the temporary directory.                                             *)
ProcessGone(fw) == [fw EXCEPT !.active = NoRules]

MachineRestarted(platform, fw) ==
    IF platform = "windows" THEN fw
    ELSE [fw EXCEPT !.rules = {}, !.file = NoRules]
=============================================================================
