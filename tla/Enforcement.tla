----------------------------- MODULE Enforcement -----------------------------
(***************************************************************************)
(* Blocking and unblocking ports: the command handlers                     *)
(* (application/commands/firewall.py), the policy handler                  *)
(* (application/events/handlers.py), the OS bridge, the blocked_ports and  *)
(* audit tables of core/db.py, and the life of the process around them     *)
(* (app.py, container.py): graceful shutdown, crash, restart, reboot and   *)
(* a second instance.                                                      *)
(*                                                                         *)
(* All callers run on the event loop and none of them awaits, so at most   *)
(* one call is in progress; what can come between its steps, which are the *)
(* commands of the bridge, the row and the audit entry, is a failure, the  *)
(* end of the process or another instance of the program.                  *)
(***************************************************************************)
EXTENDS FirewallBridges

CONSTANTS
    Kinds,         \* kinds of calls: subset of {"block", "unblock", "policy"}
    FaultChoices,  \* sets of faults a behaviour may have: subsets of
                   \* {"os", "db", "second"}
    Ends,          \* ends of the process: subset of {"shutdown", "crash", "reboot"}
    MaxStarts      \* bound on the number of starts of the process

ASSUME EnforcementAssumption ==
    /\ Kinds \subseteq {"block", "unblock", "policy"}
    /\ FaultChoices \subseteq SUBSET {"os", "db", "second"}
    /\ Ends \subseteq {"shutdown", "crash", "reboot"}
    /\ MaxStarts \in Nat

VARIABLES
    platform,  \* platform.system() of this installation
    up,        \* is the process running
    starts,    \* how often it was started
    fw,        \* the firewall (and the state of the bridge)
    rows,      \* ports in the table blocked_ports
    call,      \* the call in progress
    reply,     \* the last answer a call gave
    session,   \* history: rows written since the process started
    trail,     \* history: what the audit entry of this process's last call about
               \* a port says
    broken,    \* history: ports whose last call failed in a command or at the
               \* table, or was cut off by a kill before its row was written
    torn       \* history: on macOS, the last reload of the rules failed or was
               \* cut off, and they may not be those of the file

vars == <<faults, platform, up, starts, fw, rows, call, reply, session, trail, broken, torn>>

Call == [kind : {"none", "block", "unblock", "policy"},
         step : {"bridge", "command", "row", "audit"},
         port : Ports \cup {0}, proto : Protos]

Idle == [kind |-> "none", step |-> "bridge", port |-> 0, proto |-> "tcp"]

Reply == [kind : {"none", "block", "unblock", "policy"}, port : Ports \cup {0},
          proto : Protos, status : {"success", "error"}]

NoReply == [kind |-> "none", port |-> 0, proto |-> "tcp", status |-> "error"]

Answer(status) ==
    [kind |-> call.kind, port |-> call.port, proto |-> call.proto, status |-> status]

DbMayFail == "db" \in faults

NoEntries == [p \in Ports |-> "none"]

Init ==
    /\ faults \in FaultChoices
    /\ platform \in Platforms
    /\ up = TRUE
    /\ starts = 1
    /\ fw = [rules |-> {}, active |-> NoRules, file |-> NoRules]
    /\ rows = {}
    /\ call = Idle
    /\ reply = NoReply
    /\ session = {}
    /\ trail = NoEntries
    /\ broken = {}
    /\ torn = FALSE

-----------------------------------------------------------------------------
(* A call is a route (block, unblock) or a triggered policy whose action   *)
(* is "block"; the policy handler leaves the protocol at its default.      *)

Begin(kind, p, proto) ==
    /\ up
    /\ call = Idle
    /\ kind = "policy" => proto = "tcp"
    /\ kind = "unblock" => proto = "tcp"
    /\ call' = [kind |-> kind, step |-> "bridge", port |-> p, proto |-> proto]
    /\ reply' = NoReply
    /\ broken' = broken \ {p}
    /\ UNCHANGED <<faults, platform, up, starts, fw, rows, session, trail, torn>>

(* A step of the bridge goes on to the next, to the table, or raises: an   *)
(* exception ends the call (the routes answer an error, the policy handler *)
(* logs it).                                                               *)
Proceed(r) ==
    /\ fw' = r.fw
    /\ call' = CASE r.next = "next"     -> [call EXCEPT !.step = "command"]
                 [] r.next = "returned" -> [call EXCEPT !.step = "row"]
                 [] r.next = "raised"   -> Idle
    /\ reply' = IF r.next = "raised" THEN Answer("error") ELSE reply
    /\ broken' = IF r.whole THEN broken ELSE broken \cup {call.port}
    /\ UNCHANGED <<faults, platform, up, starts, rows, session, trail>>

FirstCommand ==
    /\ call # Idle
    /\ call.step = "bridge"
    /\ \E r \in IF call.kind = "unblock"
                THEN UnblockFirst(platform, fw, call.port)
                ELSE BlockFirst(platform, fw, call.port, call.proto) : Proceed(r)
    /\ torn' = torn

SecondCommand ==
    /\ call.step = "command"
    /\ \E r \in IF call.kind = "unblock"
                THEN UnblockSecond(platform, fw, call.port)
                ELSE BlockSecond(platform, fw, call.port, call.proto) :
          /\ Proceed(r)
          /\ torn' = (platform = "darwin" /\ ~r.whole)

(* Mutant of WriteRow: unblocking clears the whole table. *)
WriteRowClears ==
    /\ call.step = "row"
    /\ IF call.kind = "unblock"
       THEN rows' = {} /\ session' = session \ {call.port}
       ELSE rows' = rows \cup {call.port} /\ session' = session \cup {call.port}
    /\ call' = [call EXCEPT !.step = "audit"]
    /\ UNCHANGED <<faults, platform, up, starts, fw, reply, trail, broken, torn>>

(* Mutant of WriteRow: unblocking leaves the row. *)
WriteRowKeeps ==
    /\ call.step = "row"
    /\ IF call.kind = "unblock"
       THEN UNCHANGED <<rows, session>>
       ELSE rows' = rows \cup {call.port} /\ session' = session \cup {call.port}
    /\ call' = [call EXCEPT !.step = "audit"]
    /\ UNCHANGED <<faults, platform, up, starts, fw, reply, trail, broken, torn>>

(* add_blocked_port or remove_blocked_port, one transaction; an error of   *)
(* the database ends the call the same way.                                *)
WriteRow ==
    /\ call.step = "row"
    /\ IF call.kind = "unblock"
       THEN rows' = rows \ {call.port} /\ session' = session \ {call.port}
       ELSE rows' = rows \cup {call.port} /\ session' = session \cup {call.port}
    /\ call' = [call EXCEPT !.step = "audit"]
    /\ UNCHANGED <<faults, platform, up, starts, fw, reply, trail, broken, torn>>

WriteRowFails ==
    /\ DbMayFail
    /\ call.step = "row"
    /\ call' = Idle
    /\ reply' = Answer("error")
    /\ broken' = broken \cup {call.port}
    /\ UNCHANGED <<faults, platform, up, starts, fw, rows, session, trail, torn>>

(* What the entry about a call says: a block by a route or by a policy, or *)
(* an unblock.                                                             *)
Entry == IF call.kind = "unblock" THEN "unblock" ELSE "block"

(* Mutant of WriteAudit: unblocking publishes no FirewallUpdated. *)
WriteAuditNotForUnblock ==
    /\ call.step = "audit"
    /\ trail' = IF call.kind = "unblock" THEN trail ELSE [trail EXCEPT ![call.port] = Entry]
    /\ reply' = Answer("success")
    /\ call' = Idle
    /\ UNCHANGED <<faults, platform, up, starts, fw, rows, session, broken, torn>>

(* FirewallUpdated is published and its handler inserts the audit entry;   *)
(* the policy handler inserts its own.  Errors are logged, and the call    *)
(* succeeds, without an entry.                                             *)
WriteAudit ==
    /\ call.step = "audit"
    /\ \E entry \in {Entry} \cup {e \in {"none"} : DbMayFail} :
          trail' = [trail EXCEPT ![call.port] = entry]
    /\ reply' = Answer("success")
    /\ call' = Idle
    /\ UNCHANGED <<faults, platform, up, starts, fw, rows, session, broken, torn>>

-----------------------------------------------------------------------------
(* The end of the process and its restart.                                 *)

(* A cleanup may be cut off by a kill of the process that runs it. *)
CleanupResults(g) ==
    CleanupAllRules(platform, g)
        \cup {Result(h, "raised", FALSE) : h \in {f \in PartlyCleaned(platform, g) : "crash" \in Ends}}

(* Container.shutdown: the rules are removed, an error is only logged; the *)
(* table is left as it is.                                                 *)
Shutdown ==
    /\ "shutdown" \in Ends
    /\ up
    /\ call = Idle
    /\ \E r \in CleanupResults(fw) :
          /\ fw' = ProcessGone(r.fw)
          /\ torn' = (platform = "darwin" /\ ~r.whole)
    /\ up' = FALSE
    /\ reply' = NoReply
    /\ UNCHANGED <<faults, platform, starts, rows, call, session, trail, broken>>

(* What a kill leaves of the firewall: it may fall within the first step   *)
(* of the bridge.                                                          *)
CutOff ==
    CASE call = Idle -> {fw}
      [] call # Idle /\ call.step = "bridge" /\ call.kind = "unblock" ->
             UnblockCut(platform, fw, call.port)
      [] call # Idle /\ call.step = "bridge" /\ call.kind # "unblock" ->
             BlockCut(platform, fw, call.port, call.proto)
      [] OTHER -> {fw}

(* The process is killed, within a call or not.  Nothing cleans up. *)
Crash ==
    /\ "crash" \in Ends
    /\ up
    /\ up' = FALSE
    /\ \E g \in CutOff : fw' = ProcessGone(g)
    /\ broken' = IF call # Idle /\ call.step # "audit" THEN broken \cup {call.port} ELSE broken
    /\ torn' = (torn \/ (platform = "darwin" /\ call # Idle /\ call.step \in {"bridge", "command"}))
    /\ call' = Idle
    /\ reply' = NoReply
    /\ UNCHANGED <<faults, platform, starts, rows, session, trail>>

(* The program is started a second time while it runs.  Its services start *)
(* before the server finds the port of the API in use, and are shut down   *)
(* again: the rules of the first instance are removed, behind its back.    *)
SecondInstance ==
    /\ "second" \in faults
    /\ up
    /\ \E r \in CleanupResults(ProcessGone(fw)) :
          /\ fw' = [r.fw EXCEPT !.active = fw.active]
          /\ torn' = (platform = "darwin" /\ ~r.whole)
    /\ UNCHANGED <<faults, platform, up, starts, rows, call, reply, session, trail, broken>>

(* The machine restarts while the process is down. *)
Reboot ==
    /\ "reboot" \in Ends
    /\ ~up
    /\ fw' = MachineRestarted(platform, fw)
    /\ torn' = FALSE
    /\ UNCHANGED <<faults, platform, up, starts, rows, call, reply, session, trail, broken>>

(* lifespan: nothing reads the table or the firewall. *)
Start ==
    /\ ~up
    /\ starts < MaxStarts
    /\ up' = TRUE
    /\ starts' = starts + 1
    /\ session' = {}
    /\ trail' = NoEntries
    /\ UNCHANGED <<faults, platform, fw, rows, call, reply, broken, torn>>

Next ==
    \/ \E kind \in Kinds, p \in Ports, proto \in Protos : Begin(kind, p, proto)
    \/ FirstCommand
    \/ SecondCommand
    \/ WriteRow
    \/ WriteRowFails
    \/ WriteAudit
    \/ Shutdown
    \/ Crash
    \/ SecondInstance
    \/ Reboot
    \/ Start

Spec == Init /\ [][Next]_vars

-----------------------------------------------------------------------------
(* Properties.                                                             *)

TypeOK ==
    /\ faults \in FaultChoices
    /\ platform \in Platforms
    /\ up \in BOOLEAN
    /\ starts \in 1 .. (MaxStarts + 1)
    /\ fw \in Firewall
    /\ rows \subseteq Ports
    /\ call \in Call
    /\ reply \in Reply
    /\ session \subseteq rows
    /\ trail \in [Ports -> {"none", "block", "unblock"}]
    /\ broken \subseteq Ports
    /\ torn \in BOOLEAN

Quiet == up /\ call = Idle

Blocked(p) == \E proto \in Protos : Enforced(platform, fw, p, proto)

(* iptables and netsh report what they did, pfctl is not listened to. *)
Reported == platform = "darwin" => "os" \notin faults

Alone == "second" \notin faults

(* A row this process wrote stands for rules that are in force, whatever   *)
(* commands failed, timed out or took half effect (on macOS: as long as    *)
(* pfctl does not fail): what is still listed between two calls is still   *)
(* blocked.  Only a failing database, in an unblock, and a second instance *)
(* break this.                                                             *)
RecordedIsBlocked ==
    Quiet /\ Reported /\ Alone /\ "db" \notin faults => \A p \in session : Blocked(p)

(* Every rule in force belongs to a port the table names, so that it can   *)
(* be seen and undone, or to one whose last call failed or was killed part *)
(* way; whatever fails, however often the process is killed and restarted, *)
(* and though macOS takes over rules from its file.  Excepted is macOS     *)
(* while its rules may not be those of the file: an unblock then answers   *)
(* that a rule is gone that the file no longer has.                        *)
RulesAreAccounted ==
    Quiet /\ ~torn => \A r \in fw.rules : r[2] \in rows \cup broken

(* What the audit trail of this process says last of a port is what table  *)
(* and firewall say, unless that call failed part way: an entry for a      *)
(* block that is in force, or for an unblock that left neither row nor     *)
(* rule.  macOS: while pfctl does not fail, and, for an unblock after a    *)
(* kill, once the rules are those of the file.                             *)
TrailTellsRules ==
    Quiet /\ Alone /\ Reported => \A p \in Ports \ broken :
        /\ trail[p] = "block" => p \in rows /\ Blocked(p)
        /\ trail[p] = "unblock" => p \notin rows /\ (RulesOf(fw, p) = {} \/ torn)

(* What a call that answered success says is so: the table was changed,    *)
(* whatever failed before; a block has all its rules in force              *)
(* (base_bridge.py:68: "True if the rule was created successfully"), also  *)
(* where a check failed; an unblock leaves no rule of the port, of either  *)
(* protocol (base_bridge.py:84: "True if the rule was removed"), unless a  *)
(* deletion failed, or the rules of macOS may not be those of the file     *)
(* since a kill.                                                           *)
AnswersAreTrue ==
    reply.status = "success" =>
        /\ reply.port \in rows <=> reply.kind # "unblock"
        /\ reply.kind # "unblock" /\ Alone /\ (Reported \/ reply.port \notin broken)
              => Enforced(platform, fw, reply.port, reply.proto)
        /\ reply.kind = "unblock" /\ reply.port \notin broken /\ ~torn
              => RulesOf(fw, reply.port) = {}

-----------------------------------------------------------------------------
(* What the documents say.                                                 *)

(* docs/API.md:114: GET /api/blocked is the "list of ports currently       *)
(* blocked by Vigilant".                                                   *)
ListedIsBlocked == Quiet => \A p \in rows : Blocked(p)

(* base_bridge.py:61: block_port is to "add a firewall rule": whatever the *)
(* platform, it removes none.                                              *)
BlockOnlyAdds ==
    [][call.kind # "unblock" /\ (FirstCommand \/ SecondCommand)
           => fw.rules \subseteq fw'.rules]_vars
=============================================================================
