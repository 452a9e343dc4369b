--------------------------- MODULE EnforcementProofs ---------------------------
(***************************************************************************)
(* The firewall, the table of blocked ports, the audit trail and the       *)
(* answers agree as far as Enforcement says they do, for any ports and     *)
(* whichever platforms, faults and ends of the process there are, also     *)
(* when it is killed between two commands of the bridge; and without       *)
(* faults they implement a list of blocked ports.                          *)
(***************************************************************************)
EXTENDS BlockListRefinement, TLAPS

(* A call is answered once it is over, and none survives the process.      *)
(* Where no command fails none is broken.                                  *)
CallOK ==
    /\ call # Idle => /\ up
                      /\ call.kind \in {"block", "unblock", "policy"}
                      /\ call.port \in Ports
                      /\ "os" \notin faults => call.port \notin broken
    /\ reply.status = "success" => up /\ call = Idle

(* What a call has achieved once its bridge has returned. *)
BridgeDone == call.step \in {"row", "audit"}

(* The anchor of macOS has what the file says, unless a reload is due or   *)
(* was cut off; and without failing commands, or a second instance that    *)
(* empties both, the dict has nothing that the file has not.  The other    *)
(* bridges keep no state, and a process that is down has none.             *)
BridgeOK ==
    /\ ~up => fw.active = NoRules
    /\ platform # "darwin" =>
           /\ fw.active = NoRules /\ fw.file = NoRules /\ torn = FALSE
           /\ \A r \in fw.rules : r[1] \in Dirs(platform)
    /\ platform = "darwin" =>
           /\ ~torn /\ call.step # "command" => fw.rules = Loaded(fw.file)
           /\ "os" \notin faults /\ Alone =>
                  \A p \in Ports : fw.active[p] # "none" => fw.file[p] = fw.active[p]

Tracked(p) == platform = "darwin" => fw.active[p] # "none"

Gone(p) ==
    /\ fw.active[p] = "none" /\ fw.file[p] = "none"
    /\ torn \/ RulesOf(fw, p) = {}

(* What the first step of a bridge has done for the second. *)
HalfBlocked(p, proto) ==
    /\ platform = "windows" => <<"out", p, proto>> \in fw.rules
    /\ platform = "darwin" => fw.active[p] = proto /\ (p \notin broken => fw.file[p] = proto)

HalfGone(g, p) ==
    /\ platform = "linux" => \A r \in RulesOf(g, p) : r[3] = "udp"
    /\ platform = "windows" => \A r \in RulesOf(g, p) : r[1] = "in"
    /\ platform = "darwin" => g.active[p] = "none" /\ g.file[p] = "none"

ProgressOK ==
    /\ call.step = "command" /\ call.kind # "unblock" /\ Alone => HalfBlocked(call.port, call.proto)
    /\ call.step = "command" /\ call.kind = "unblock" =>
           HalfGone(fw, call.port) \/ call.port \in broken
    /\ call.step = "audit" => (call.port \in rows <=> call.kind # "unblock")
    /\ BridgeDone /\ call.kind # "unblock" /\ Alone /\ (Reported \/ call.port \notin broken) =>
           Enforced(platform, fw, call.port, call.proto) /\ Tracked(call.port)
    /\ BridgeDone /\ call.kind = "unblock" => Gone(call.port) \/ call.port \in broken

(* Whatever a rule, or a rule to come, is there for. *)
Accounted(p) == p \in rows \cup broken \/ (call # Idle /\ p = call.port)

AccountsOK ==
    /\ ~torn => \A r \in fw.rules : Accounted(r[2])
    /\ \A p \in Ports : fw.active[p] # "none" \/ fw.file[p] # "none" => Accounted(p)

(* A port this process blocked stays blocked until its row goes. *)
SessionOK ==
    up /\ Reported /\ Alone /\ "db" \notin faults =>
        \A p \in session :
            \/ Blocked(p) /\ Tracked(p)
            \/ call.kind = "unblock" /\ call.step \in {"command", "row"} /\ call.port = p

(* What the trail says of a port no call is about. *)
Told(p) ==
    /\ trail[p] = "block" => p \in rows /\ Blocked(p) /\ Tracked(p)
    /\ trail[p] = "unblock" => p \notin rows /\ Gone(p)

TrailOK ==
    up /\ Reported /\ Alone =>
        \A p \in Ports \ broken : (call # Idle => p # call.port) => Told(p)

(* After a kill, rules and file agree once this process has blocked a port. *)
TornOK ==
    up /\ torn /\ Alone /\ "os" \notin faults =>
        session = {} /\ (BridgeDone => call.kind = "unblock")

Inv ==
    /\ TypeOK
    /\ CallOK
    /\ BridgeOK
    /\ ProgressOK
    /\ AnswersAreTrue
    /\ AccountsOK
    /\ SessionOK
    /\ TrailOK
    /\ TornOK

-----------------------------------------------------------------------------
(* What the commands of iptables and netsh do.                             *)

LEMMA PlatformKnown ==
    ASSUME TypeOK PROVE platform \in {"linux", "windows", "darwin"}
BY BridgeAssumption DEF TypeOK

(* The result of a step is one of its kind, and a step that raises has not *)
(* done all it is for; without failing commands each step does.            *)
IsResult(r) ==
    /\ r.fw \in Firewall
    /\ r.next \in {"next", "returned", "raised"}
    /\ r.whole \in BOOLEAN
    /\ r.next = "raised" => r.whole = FALSE
    /\ "os" \notin faults => r.whole = TRUE

(* Between g and h only rules of a port are added, or only such removed. *)
OnlyAdds(g, h, added) ==
    /\ h.active = g.active /\ h.file = g.file
    /\ g.rules \subseteq h.rules /\ h.rules \subseteq g.rules \cup added

OnlyRemoves(g, h, p) ==
    /\ h.active = g.active /\ h.file = g.file
    /\ h.rules \subseteq g.rules
    /\ \A r \in g.rules : r[2] # p => r \in h.rules

LEMMA WithRulesFields ==
    ASSUME NEW g \in Firewall, NEW rules \in SUBSET Rule
    PROVE  /\ WithRules(g, rules) \in Firewall
           /\ WithRules(g, rules).rules = rules
           /\ WithRules(g, rules).active = g.active /\ WithRules(g, rules).file = g.file
BY DEF WithRules, Firewall

LEMMA DropIsRules ==
    ASSUME platform \in {"linux", "windows", "darwin"}, NEW p \in Ports, NEW proto \in Protos
    PROVE  /\ Drop(platform, p, proto) \subseteq Rule
           /\ Drop(platform, p, proto) # {}
           /\ \A r \in Drop(platform, p, proto) :
                  r[1] \in Dirs(platform) /\ r[2] = p /\ r[3] = proto
<1>1. Dirs(platform) # {} /\ Dirs(platform) \subseteq {"in", "out", "both"}
  BY DEF Dirs
<1>2. PICK d : d \in Dirs(platform)
  BY <1>1
<1>3. <<d, p, proto>> \in Drop(platform, p, proto)
  BY <1>2 DEF Drop
<1> QED BY <1>1, <1>3 DEF Drop, Rule

(* A step that adds a set of rules or nothing, or raises. *)
Adds(g, r, added) ==
    /\ IsResult(r)
    /\ OnlyAdds(g, r.fw, added)

AddResults(g, added, next) ==
    OrFails(Result(WithRules(g, g.rules \cup added), next, TRUE),
            {Result(g, "raised", FALSE),
             Result(WithRules(g, g.rules \cup added), "raised", FALSE)})

LEMMA AddResult ==
    ASSUME NEW g \in Firewall, NEW added \in SUBSET Rule, NEW next \in {"next", "returned"},
           NEW r \in AddResults(g, added, next)
    PROVE  /\ Adds(g, r, added)
           /\ r.next \in {next, "raised"}
           /\ r.next # "raised" => added \subseteq r.fw.rules
<1> DEFINE done == WithRules(g, g.rules \cup added)
<1>1. /\ done \in Firewall /\ done.rules = g.rules \cup added
      /\ done.active = g.active /\ done.file = g.file
  <2>1. g.rules \cup added \in SUBSET Rule
    BY DEF Firewall
  <2> QED BY <2>1, WithRulesFields
<1>2. \/ r = Result(done, next, TRUE)
      \/ OsMayFail /\ r \in {Result(g, "raised", FALSE), Result(done, "raised", FALSE)}
  BY DEF AddResults, OrFails
<1> HIDE DEF done
<1>3. CASE r = Result(done, next, TRUE)
  <2>1. r.fw = done /\ r.next = next /\ r.whole = TRUE
    BY <1>3 DEF Result
  <2> QED BY <1>1, <2>1 DEF Adds, IsResult, OnlyAdds
<1>4. ASSUME OsMayFail, NEW f \in {g, done}, r = Result(f, "raised", FALSE)
      PROVE  Adds(g, r, added) /\ r.next = "raised"
  <2>1. r.fw = f /\ r.next = "raised" /\ r.whole = FALSE
    BY <1>4 DEF Result
  <2>2. "os" \in faults
    BY <1>4 DEF OsMayFail
  <2>3. f \in Firewall /\ OnlyAdds(g, f, added)
    BY <1>1 DEF OnlyAdds
  <2> QED BY <2>1, <2>2, <2>3 DEF Adds, IsResult
<1> QED BY <1>2, <1>3, <1>4

(* A step that removes those rules of a port that answer a description. *)
Removal(g, p, kept, next, r) ==
    /\ kept \subseteq g.rules
    /\ \A q \in g.rules : q[2] # p => q \in kept
    /\ next \in {"next", "returned"}
    /\ r \in OrFails(Result(WithRules(g, kept), next, TRUE), {Result(g, next, FALSE)})

Removes(g, p, kept, next, r) ==
    /\ IsResult(r)
    /\ OnlyRemoves(g, r.fw, p)
    /\ r.next = next
    /\ r.whole = TRUE => r.fw.rules = kept

LEMMA RemoveResult ==
    ASSUME NEW g \in Firewall, NEW p, NEW kept, NEW next, NEW r, Removal(g, p, kept, next, r)
    PROVE  Removes(g, p, kept, next, r)
<1>1. /\ WithRules(g, kept) \in Firewall /\ WithRules(g, kept).rules = kept
      /\ WithRules(g, kept).active = g.active /\ WithRules(g, kept).file = g.file
  <2>1. kept \in SUBSET Rule
    BY DEF Firewall, Removal
  <2> QED BY <2>1, WithRulesFields
<1>2. CASE r = Result(WithRules(g, kept), next, TRUE)
  <2>1. r.fw = WithRules(g, kept) /\ r.next = next /\ r.whole = TRUE
    BY <1>2 DEF Result
  <2> QED BY <1>1, <2>1 DEF IsResult, OnlyRemoves, Removal, Removes
<1>3. CASE OsMayFail /\ r = Result(g, next, FALSE)
  <2>1. r.fw = g /\ r.next = next /\ r.whole = FALSE
    BY <1>3 DEF Result
  <2> QED BY <1>3, <2>1 DEF IsResult, OnlyRemoves, OsMayFail, Removal, Removes
<1> QED BY <1>2, <1>3 DEF Removal, OrFails

(* The first step of a block returns only when the rules are there; that   *)
(* of Windows goes on only when the outbound one is.                       *)
FirstBlocks(g, p, proto, r) ==
    /\ IsResult(r)
    /\ OnlyAdds(g, r.fw, Drop(platform, p, proto))
    /\ r.next = "returned" => r.fw = g /\ Enforced(platform, r.fw, p, proto)
    /\ r.next = "next" /\ platform = "windows" => <<"out", p, proto>> \in r.fw.rules

LEMMA FirstBlockResult ==
    ASSUME platform \in {"linux", "windows"}, NEW g \in Firewall,
           NEW p \in Ports, NEW proto \in Protos, NEW r \in BlockFirst(platform, g, p, proto)
    PROVE  FirstBlocks(g, p, proto, r)
<1>1. CASE platform = "linux"
  <2> DEFINE there == Drop("linux", p, proto) \subseteq g.rules
             next  == IF there THEN "returned" ELSE "next"
  <2>1. r \in LinuxCheck(g, p, proto)
    BY <1>1 DEF BlockFirst
  <2>2. \/ r = Result(g, next, TRUE)
        \/ OsMayFail /\ r \in {Result(g, "next", FALSE), Result(g, "raised", FALSE)}
    BY <2>1 DEF LinuxCheck, OrFails
  <2>3. \/ r.fw = g /\ r.next = next /\ r.whole = TRUE
        \/ "os" \in faults /\ r.fw = g /\ r.next \in {"next", "raised"} /\ r.whole = FALSE
    BY <2>2 DEF Result, OsMayFail
  <2> QED BY <1>1, <2>3 DEF FirstBlocks, IsResult, OnlyAdds, Enforced
<1>2. CASE platform = "windows"
  <2> DEFINE out == {<<"out", p, proto>>}
  <2>1. out \subseteq Drop(platform, p, proto) /\ out \in SUBSET Rule
    BY <1>2 DEF Drop, Dirs, Rule
  <2>2. r \in WindowsAdd(g, p, proto, "out", "next")
    BY <1>2 DEF BlockFirst
  <2>3. r \in AddResults(g, out, "next")
    BY <2>2 DEF WindowsAdd, AddResults
  <2>4. /\ Adds(g, r, out)
        /\ r.next \in {"next", "raised"}
        /\ r.next # "raised" => out \subseteq r.fw.rules
    BY <2>1, <2>3, AddResult
  <2> QED BY <2>1, <2>4 DEF Adds, OnlyAdds, FirstBlocks
<1> QED BY <1>1, <1>2

(* The second step returns only when all rules are there.                  *)
SecondBlocks(g, p, proto, r) ==
    /\ IsResult(r)
    /\ OnlyAdds(g, r.fw, Drop(platform, p, proto))
    /\ r.next \in {"returned", "raised"}
    /\ r.next = "returned" /\ (platform = "windows" => <<"out", p, proto>> \in g.rules) =>
           Enforced(platform, r.fw, p, proto)

LEMMA SecondBlockResult ==
    ASSUME platform \in {"linux", "windows"}, NEW g \in Firewall,
           NEW p \in Ports, NEW proto \in Protos, NEW r \in BlockSecond(platform, g, p, proto)
    PROVE  SecondBlocks(g, p, proto, r)
<1>1. CASE platform = "linux"
  <2> DEFINE all == Drop("linux", p, proto)
  <2>1. all \in SUBSET Rule
    BY <1>1, DropIsRules
  <2>2. r \in LinuxInsert(g, p, proto)
    BY <1>1 DEF BlockSecond
  <2>3. r \in AddResults(g, all, "returned")
    BY <2>2 DEF LinuxInsert, AddResults
  <2>4. /\ Adds(g, r, all)
        /\ r.next \in {"returned", "raised"}
        /\ r.next # "raised" => all \subseteq r.fw.rules
    BY <2>1, <2>3, AddResult
  <2> QED BY <1>1, <2>4 DEF Adds, SecondBlocks, Enforced
<1>2. CASE platform = "windows"
  <2> DEFINE in == {<<"in", p, proto>>}
  <2>1. /\ in \subseteq Drop(platform, p, proto) /\ in \in SUBSET Rule
        /\ Drop(platform, p, proto) = in \cup {<<"out", p, proto>>}
    BY <1>2 DEF Drop, Dirs, Rule
  <2>2. r \in WindowsAdd(g, p, proto, "in", "returned")
    BY <1>2 DEF BlockSecond
  <2>3. r \in AddResults(g, in, "returned")
    BY <2>2 DEF WindowsAdd, AddResults
  <2>4. /\ Adds(g, r, in)
        /\ r.next \in {"returned", "raised"}
        /\ r.next # "raised" => in \subseteq r.fw.rules
    BY <2>1, <2>3, AddResult
  <2> QED BY <1>2, <2>1, <2>4 DEF Adds, OnlyAdds, SecondBlocks, Enforced
<1> QED BY <1>1, <1>2

(* Each step of an unblock takes its part of the rules of the port. *)
FirstUnblocks(g, p, r) ==
    /\ IsResult(r)
    /\ OnlyRemoves(g, r.fw, p)
    /\ r.next = "next"
    /\ r.whole = TRUE => HalfGone(r.fw, p)

SecondUnblocks(g, p, r) ==
    /\ IsResult(r)
    /\ OnlyRemoves(g, r.fw, p)
    /\ r.next = "returned"
    /\ r.whole = TRUE /\ HalfGone(g, p) => RulesOf(r.fw, p) = {}

LEMMA UnblockResult ==
    ASSUME platform \in {"linux", "windows"}, NEW g \in Firewall, NEW p \in Ports,
           \A q \in g.rules : q[1] \in Dirs(platform)
    PROVE  /\ \A r \in UnblockFirst(platform, g, p) : FirstUnblocks(g, p, r)
           /\ \A r \in UnblockSecond(platform, g, p) : SecondUnblocks(g, p, r)
<1> DEFINE NotOf(proto) == g.rules \ Drop("linux", p, proto)
           NotTo(dir)   == {q \in g.rules : ~(q[2] = p /\ q[1] = dir)}
<1>1. CASE platform = "linux"
  <2>1. \A proto \in Protos : \A q \in g.rules :
            q \in NotOf(proto) <=> ~(q[2] = p /\ q[3] = proto)
    <3>1. \A q \in g.rules : q \in Rule /\ q[1] = "in"
      BY <1>1 DEF Firewall, Dirs
    <3> QED BY <3>1 DEF Drop, Dirs, Rule
  <2>2. \A q \in g.rules : q[3] \in {"tcp", "udp"}
    BY DEF Firewall, Rule, Protos
  <2>3. ASSUME NEW r \in UnblockFirst(platform, g, p) PROVE FirstUnblocks(g, p, r)
    <3>1. PICK kept : kept = NotOf("tcp")
      OBVIOUS
    <3>2. Removal(g, p, kept, "next", r)
      BY <2>1, <3>1, <1>1, <2>3 DEF Protos, UnblockFirst, LinuxDelete, OrFails, Removal
    <3>3. Removes(g, p, kept, "next", r)
      BY <3>2, RemoveResult
    <3> QED BY <1>1, <2>1, <2>2, <3>1, <3>3 DEF Removes, FirstUnblocks, HalfGone, RulesOf, Protos
  <2>4. ASSUME NEW r \in UnblockSecond(platform, g, p) PROVE SecondUnblocks(g, p, r)
    <3>1. PICK kept : kept = NotOf("udp")
      OBVIOUS
    <3>2. Removal(g, p, kept, "returned", r)
      BY <2>1, <3>1, <1>1, <2>4 DEF Protos, UnblockSecond, LinuxDelete, OrFails, Removal
    <3>3. Removes(g, p, kept, "returned", r)
      BY <3>2, RemoveResult
    <3> QED BY <1>1, <2>1, <3>1, <3>3 DEF Removes, SecondUnblocks, HalfGone, RulesOf, Protos
  <2> QED BY <2>3, <2>4
<1>2. CASE platform = "windows"
  <2>1. \A q \in g.rules : q[1] \in {"in", "out"}
    BY <1>2 DEF Dirs
  <2>2. ASSUME NEW r \in UnblockFirst(platform, g, p) PROVE FirstUnblocks(g, p, r)
    <3>1. PICK kept : kept = NotTo("out")
      OBVIOUS
    <3>2. Removal(g, p, kept, "next", r)
      BY <3>1, <1>2, <2>2 DEF Protos, UnblockFirst, WindowsDelete, OrFails, Removal
    <3>3. Removes(g, p, kept, "next", r)
      BY <3>2, RemoveResult
    <3> QED BY <1>2, <2>1, <3>1, <3>3 DEF Removes, FirstUnblocks, HalfGone, RulesOf
  <2>3. ASSUME NEW r \in UnblockSecond(platform, g, p) PROVE SecondUnblocks(g, p, r)
    <3>1. PICK kept : kept = NotTo("in")
      OBVIOUS
    <3>2. Removal(g, p, kept, "returned", r)
      BY <3>1, <1>2, <2>3 DEF Protos, UnblockSecond, WindowsDelete, OrFails, Removal
    <3>3. Removes(g, p, kept, "returned", r)
      BY <3>2, RemoveResult
    <3> QED BY <1>2, <3>1, <3>3 DEF Removes, SecondUnblocks, HalfGone, RulesOf
  <2> QED BY <2>2, <2>3
<1> QED BY <1>1, <1>2

-----------------------------------------------------------------------------
(* What pf does.                                                           *)

LEMMA LoadedType ==
    ASSUME NEW file \in RuleTable PROVE Loaded(file) \subseteq Rule
BY DEF Loaded, RuleTable, Rule, Protos

(* What the file of macOS has is in force once it is loaded, and nothing   *)
(* else is.                                                                *)
LEMMA LoadedIsEnforced ==
    ASSUME NEW file \in RuleTable, NEW p \in Ports, file[p] # "none"
    PROVE  file[p] \in Protos /\ Drop("darwin", p, file[p]) \subseteq Loaded(file)
<1>1. file[p] \in Protos
  BY DEF RuleTable
<1>2. Drop("darwin", p, file[p]) = {<<"both", p, file[p]>>}
  BY DEF Drop, Dirs
<1> QED BY <1>1, <1>2 DEF Loaded

LEMMA LoadedPorts ==
    ASSUME NEW file \in RuleTable, NEW p \in Ports
    PROVE  (\E r \in Loaded(file) : r[2] = p) <=> file[p] # "none"
<1>1. ASSUME NEW r \in Loaded(file), r[2] = p PROVE file[p] # "none"
  <2>1. PICK q \in Ports : file[q] # "none" /\ r = <<"both", q, file[q]>>
    BY DEF Loaded
  <2> QED BY <1>1, <2>1
<1>2. ASSUME file[p] # "none" PROVE \E r \in Loaded(file) : r[2] = p
  <2>1. <<"both", p, file[p]>> \in Loaded(file)
    BY <1>2 DEF Loaded
  <2>2. <<"both", p, file[p]>>[2] = p
    OBVIOUS
  <2> QED BY <2>1, <2>2
<1> QED BY <1>1, <1>2

LEMMA NothingLoaded == Loaded(NoRules) = {} /\ NoRules \in RuleTable
BY DEF Loaded, NoRules, RuleTable

(* Between g and h the dict becomes a, and the file gets none but its own  *)
(* rules and those of a.                                                   *)
Rewrites(g, h, a) ==
    /\ h \in Firewall
    /\ h.rules = g.rules /\ h.active = a
    /\ \A q \in Ports : h.file[q] \in {"none", g.file[q], a[q]}

LEMMA PartResult ==
    ASSUME NEW g \in Firewall, NEW h \in PartlyWritten(g)
    PROVE  Rewrites(g, h, g.active)
<1>1. PICK part \in SUBSET Ports :
          h = [g EXCEPT !.file = [q \in Ports |-> IF q \in part THEN g.active[q] ELSE "none"]]
  BY DEF PartlyWritten
<1> DEFINE file == [q \in Ports |-> IF q \in part THEN g.active[q] ELSE "none"]
<1>2. file \in RuleTable
  BY DEF RuleTable, Firewall
<1>3. \A q \in Ports : file[q] \in {"none", g.active[q]}
  OBVIOUS
<1> HIDE DEF file
<1>4. h = [g EXCEPT !.file = file]
  BY <1>1 DEF file
<1> QED BY <1>2, <1>3, <1>4 DEF Rewrites, Firewall

Writes(g, r) ==
    /\ IsResult(r)
    /\ Rewrites(g, r.fw, g.active)
    /\ r.next = "next"
    /\ r.whole = TRUE => r.fw.file = g.active

LEMMA WriteResult ==
    ASSUME NEW g \in Firewall, NEW r \in Written(g)
    PROVE  Writes(g, r)
<1>1. CASE r = Result([g EXCEPT !.file = g.active], "next", TRUE)
  <2>1. r.fw = [g EXCEPT !.file = g.active] /\ r.next = "next" /\ r.whole = TRUE
    BY <1>1 DEF Result
  <2> QED BY <2>1 DEF Writes, IsResult, Rewrites, Firewall
<1>2. ASSUME OsMayFail, NEW h \in {g} \cup PartlyWritten(g), r = Result(h, "next", FALSE)
      PROVE  Writes(g, r)
  <2>1. r.fw = h /\ r.next = "next" /\ r.whole = FALSE
    BY <1>2 DEF Result
  <2>2. Rewrites(g, h, g.active)
    BY <1>2, PartResult DEF Rewrites
  <2> QED BY <1>2, <2>1, <2>2 DEF Writes, IsResult, OsMayFail, Rewrites
<1> QED BY <1>1, <1>2 DEF Written, OrFails

(* A reload that has not failed puts the file in force. *)
Loads(g, r) ==
    /\ IsResult(r)
    /\ r.fw.active = g.active /\ r.fw.file = g.file
    /\ r.next \in {"returned", "raised"}
    /\ r.fw.rules \in {g.rules, Loaded(g.file)}
    /\ r.whole = TRUE => r.fw.rules = Loaded(g.file) /\ r.next = "returned"

LEMMA ReloadResult ==
    ASSUME NEW g \in Firewall
    PROVE  /\ \A r \in Reloaded(g) : Loads(g, r) /\ r.next = "returned"
           /\ \A r \in ReloadedOrRaised(g) : Loads(g, r)
<1> DEFINE done == WithRules(g, Loaded(g.file))
<1>1. /\ done \in Firewall /\ done.rules = Loaded(g.file)
      /\ done.active = g.active /\ done.file = g.file
  <2>1. Loaded(g.file) \in SUBSET Rule
    BY LoadedType DEF Firewall
  <2> QED BY <2>1, WithRulesFields
<1> HIDE DEF done
<1>2. ASSUME NEW r, r = Result(done, "returned", TRUE) PROVE Loads(g, r) /\ r.next = "returned"
  <2>1. r.fw = done /\ r.next = "returned" /\ r.whole = TRUE
    BY <1>2 DEF Result
  <2> QED BY <1>1, <2>1 DEF Loads, IsResult
<1>3. ASSUME NEW r, OsMayFail, NEW f \in {g, done}, NEW next \in {"returned", "raised"},
             r = Result(f, next, FALSE)
      PROVE  Loads(g, r) /\ r.next = next
  <2>1. r.fw = f /\ r.next = next /\ r.whole = FALSE
    BY <1>3 DEF Result
  <2> QED BY <1>1, <1>3, <2>1 DEF Loads, IsResult, OsMayFail
<1>4. ASSUME NEW r \in Reloaded(g) PROVE Loads(g, r) /\ r.next = "returned"
  BY <1>2, <1>3, <1>4 DEF Reloaded, OrFails, done
<1>5. ASSUME NEW r \in ReloadedOrRaised(g) PROVE Loads(g, r)
  BY <1>3, <1>4, <1>5 DEF ReloadedOrRaised, done
<1> QED BY <1>4, <1>5

(* What the bridge of macOS takes over from the file.                      *)
LEMMA KnownRules ==
    ASSUME NEW g \in Firewall, NEW p \in Ports, NEW known, known = DarwinKnown(g, p)
    PROVE  /\ known \in RuleTable
           /\ \A q \in Ports : known[q] \in {g.active[q], g.file[q]}
           /\ \A q \in Ports : g.active[q] # "none" => known[q] # "none"
           /\ known[p] = "none" => g.active[p] = "none" /\ g.file[p] = "none"
           /\ (\A q \in Ports : g.active[q] # "none" => g.file[q] = g.active[q])
                  => \A q \in Ports : known[q] # "none" => g.file[q] = known[q]
BY DEF DarwinKnown, Firewall, RuleTable

(* The first step of an unblock on macOS: nothing to do, the file cannot   *)
(* be read, or it is rewritten without the port.                           *)
Forgets(g, p, r) ==
    LET known == DarwinKnown(g, p)
        left  == [known EXCEPT ![p] = "none"]
    IN  /\ IsResult(r)
        /\ \/ /\ r.next = "returned" /\ r.whole = TRUE /\ known[p] = "none"
              /\ r.fw.rules = g.rules /\ r.fw.active = known /\ r.fw.file = g.file
           \/ r.next = "returned" /\ r.whole = FALSE /\ r.fw = g
           \/ /\ r.next = "next"
              /\ Rewrites(g, r.fw, left)
              /\ r.whole = TRUE => r.fw.file = left

LEMMA ForgettingFields ==
    ASSUME NEW g \in Firewall, NEW p \in Ports
    PROVE  /\ Forgetting(g, p) \in Firewall
           /\ Forgetting(g, p).rules = g.rules /\ Forgetting(g, p).file = g.file
           /\ Forgetting(g, p).active = [DarwinKnown(g, p) EXCEPT ![p] = "none"]
<1>1. DarwinKnown(g, p) \in RuleTable
  BY KnownRules
<1> DEFINE left == [DarwinKnown(g, p) EXCEPT ![p] = "none"]
<1>2. left \in RuleTable
  BY <1>1 DEF RuleTable
<1> HIDE DEF left
<1>3. Forgetting(g, p) = [g EXCEPT !.active = left]
  BY DEF Forgetting, left
<1>4. /\ Forgetting(g, p) \in Firewall
      /\ Forgetting(g, p).rules = g.rules /\ Forgetting(g, p).file = g.file
      /\ Forgetting(g, p).active = left
  BY <1>2, <1>3 DEF Firewall
<1> QED BY <1>4 DEF left

LEMMA ForgetResult ==
    ASSUME NEW g \in Firewall, NEW p \in Ports, NEW r \in DarwinForget(g, p)
    PROVE  Forgets(g, p, r)
<1> DEFINE known == DarwinKnown(g, p)
           left  == [known EXCEPT ![p] = "none"]
           h     == Forgetting(g, p)
<1>1. /\ h \in Firewall
      /\ h.rules = g.rules /\ h.file = g.file /\ h.active = left
  BY ForgettingFields
<1>2. CASE known[p] = "none"
  <2>1. r = Result(h, "returned", TRUE)
    BY <1>2 DEF DarwinForget
  <2>2. r.fw = h /\ r.next = "returned" /\ r.whole = TRUE
    BY <2>1 DEF Result
  <2>3. known \in RuleTable
    BY KnownRules
  <2>4. left = known
    BY <1>2, <2>3 DEF RuleTable
  <2> QED BY <1>1, <1>2, <2>2, <2>4 DEF Forgets, IsResult
<1>3. CASE known[p] # "none" /\ r \in Written(h)
  <2>1. Writes(h, r)
    BY <1>1, <1>3, WriteResult
  <2> QED BY <1>1, <2>1 DEF Forgets, Writes, Rewrites
<1>4. CASE OsMayFail /\ r = Result(g, "returned", FALSE)
  <2>1. r.fw = g /\ r.next = "returned" /\ r.whole = FALSE
    BY <1>4 DEF Result
  <2> QED BY <1>4, <2>1 DEF Forgets, IsResult, OsMayFail
<1> QED BY <1>2, <1>3, <1>4 DEF DarwinForget

LEMMA TrackingFields ==
    ASSUME NEW g \in Firewall, NEW p \in Ports, NEW proto \in Protos
    PROVE  /\ Tracking(g, p, proto) \in Firewall
           /\ Tracking(g, p, proto).rules = g.rules /\ Tracking(g, p, proto).file = g.file
           /\ Tracking(g, p, proto).active = [g.active EXCEPT ![p] = proto]
BY DEF Tracking, Firewall, RuleTable, Protos

-----------------------------------------------------------------------------
(* Cleanups, and what a kill leaves.                                       *)

(* A cleanup only removes, and unless it is cut short, everything. *)
CleansUp(g, r) ==
    /\ r.fw \in Firewall
    /\ r.whole \in BOOLEAN
    /\ r.fw.rules \subseteq g.rules
    /\ r.fw.active \in {g.active, NoRules}
    /\ r.fw.file \in {g.file, NoRules}
    /\ r.whole = TRUE => r.fw.rules = {} /\ r.fw.file = NoRules
    /\ r.whole = FALSE => OsMayFail \/ "crash" \in Ends

LEMMA PartlyCleanedResult ==
    ASSUME platform \in {"linux", "windows", "darwin"}, NEW g \in Firewall,
           NEW h \in PartlyCleaned(platform, g)
    PROVE  /\ h \in Firewall
           /\ h.rules \subseteq g.rules
           /\ h.active \in {g.active, NoRules}
           /\ h.file \in {g.file, NoRules}
<1>1. CASE platform = "linux"
  <2>1. PICK kept \in SUBSET g.rules : h = WithRules(g, kept)
    BY <1>1 DEF PartlyCleaned
  <2>2. kept \in SUBSET Rule
    BY DEF Firewall
  <2> QED BY <2>1, <2>2, WithRulesFields
<1>2. CASE platform = "windows"
  <2> DEFINE names == Dirs(platform) \X Ports
             Rest(kept) == {r \in g.rules : <<r[1], r[2]>> \in kept}
  <2>0. h \in {WithRules(g, Rest(kept)) : kept \in SUBSET names}
    BY <1>2 DEF PartlyCleaned
  <2> HIDE DEF names
  <2>1. PICK kept \in SUBSET names : h = WithRules(g, Rest(kept))
    BY <2>0
  <2>2. PICK rest : rest = Rest(kept)
    OBVIOUS
  <2>3. rest \subseteq g.rules /\ rest \in SUBSET Rule
    BY <2>2 DEF Firewall
  <2> QED BY <2>1, <2>2, <2>3, WithRulesFields
<1>3. CASE platform = "darwin"
  <2>1. PICK rules \in {{}, g.rules}, file \in {g.file, NoRules} :
            h = [rules |-> rules, active |-> NoRules, file |-> file]
    BY <1>3 DEF PartlyCleaned
  <2> QED BY <2>1, NothingLoaded DEF Firewall
<1> QED BY <1>1, <1>2, <1>3

LEMMA CleanupResult ==
    ASSUME platform \in {"linux", "windows", "darwin"}, NEW g \in Firewall,
           NEW r \in CleanupResults(g)
    PROVE  CleansUp(g, r)
<1>1. CASE r = Result(Cleaned(g), "returned", TRUE)
  <2>1. r.fw = Cleaned(g) /\ r.whole = TRUE
    BY <1>1 DEF Result
  <2>2. /\ Cleaned(g) \in Firewall
        /\ Cleaned(g).rules = {} /\ Cleaned(g).active = NoRules /\ Cleaned(g).file = NoRules
    BY NothingLoaded DEF Cleaned, Firewall
  <2> QED BY <2>1, <2>2 DEF CleansUp
<1>2. ASSUME NEW h \in PartlyCleaned(platform, g), NEW next, r = Result(h, next, FALSE),
             OsMayFail \/ "crash" \in Ends
      PROVE  CleansUp(g, r)
  <2>1. r.fw = h /\ r.whole = FALSE
    BY <1>2 DEF Result
  <2> QED BY <1>2, <2>1, PartlyCleanedResult DEF CleansUp
<1> QED BY <1>1, <1>2 DEF CleanupResults, CleanupAllRules, OrFails

LEMMA GoneFields ==
    ASSUME NEW g \in Firewall
    PROVE  /\ ProcessGone(g) \in Firewall
           /\ ProcessGone(g).rules = g.rules /\ ProcessGone(g).file = g.file
           /\ ProcessGone(g).active = NoRules
BY NothingLoaded DEF ProcessGone, Firewall

(* A kill leaves the rules as they are, and of the file what there was or  *)
(* the call has put there; and that only in the first step of macOS.       *)
LEMMA CutOffResult ==
    ASSUME TypeOK, call # Idle => call.port \in Ports, NEW g \in CutOff
    PROVE  /\ g \in Firewall
           /\ g.rules = fw.rules
           /\ \A q \in Ports : g.file[q] # "none" =>
                  fw.file[q] # "none" \/ fw.active[q] # "none" \/ (call # Idle /\ q = call.port)
           /\ g.file = fw.file \/ (platform = "darwin" /\ call # Idle /\ call.step = "bridge")
           /\ call # Idle /\ call.kind = "unblock" =>
                  g.file = fw.file \/ g.file[call.port] = "none"
<1>1. fw \in Firewall /\ call \in Call
  BY DEF TypeOK
<1>2. CASE g = fw
  BY <1>1, <1>2
<1>3. ASSUME call # Idle, call.step = "bridge", platform = "darwin", call.kind # "unblock",
             NEW h, h = Tracking(fw, call.port, call.proto), g \in PartlyWritten(h)
      PROVE  /\ Rewrites(h, g, h.active)
             /\ h.rules = fw.rules
             /\ h.file = fw.file
             /\ \A q \in Ports : q # call.port => h.active[q] = fw.active[q]
  <2>1. call.port \in Ports /\ call.proto \in Protos
    BY <1>1, <1>3 DEF Call
  <2>2. /\ h \in Firewall /\ h.rules = fw.rules /\ h.file = fw.file
        /\ h.active = [fw.active EXCEPT ![call.port] = call.proto]
    BY <1>1, <1>3, <2>1, TrackingFields
  <2>3. \A q \in Ports : q # call.port => h.active[q] = fw.active[q]
    BY <1>1, <2>1, <2>2 DEF Firewall, RuleTable
  <2>4. Rewrites(h, g, h.active)
    BY <1>3, <2>2, PartResult
  <2> QED BY <2>2, <2>3, <2>4
<1>4. ASSUME call # Idle, call.step = "bridge", platform = "darwin", call.kind = "unblock",
             g \in PartlyWritten(Forgetting(fw, call.port))
      PROVE  /\ Rewrites(Forgetting(fw, call.port), g, Forgetting(fw, call.port).active)
             /\ Forgetting(fw, call.port).rules = fw.rules
             /\ Forgetting(fw, call.port).file = fw.file
             /\ \A q \in Ports : Forgetting(fw, call.port).active[q]
                                     \in {"none", fw.active[q], fw.file[q]}
             /\ g.file[call.port] = "none"
  <2>1. call.port \in Ports
    BY <1>4
  <2>2. /\ Forgetting(fw, call.port) \in Firewall
        /\ Forgetting(fw, call.port).rules = fw.rules /\ Forgetting(fw, call.port).file = fw.file
        /\ Forgetting(fw, call.port).active = [DarwinKnown(fw, call.port) EXCEPT ![call.port] = "none"]
    BY <1>1, <2>1, ForgettingFields
  <2>3. /\ DarwinKnown(fw, call.port) \in RuleTable
        /\ \A q \in Ports : DarwinKnown(fw, call.port)[q] \in {fw.active[q], fw.file[q]}
    BY <1>1, <2>1, KnownRules
  <2>4. PICK part \in SUBSET Ports :
            g = [Forgetting(fw, call.port) EXCEPT !.file =
                    [q \in Ports |-> IF q \in part THEN Forgetting(fw, call.port).active[q]
                                     ELSE "none"]]
    BY <1>4 DEF PartlyWritten
  <2>5. Forgetting(fw, call.port).active[call.port] = "none"
    BY <2>1, <2>2, <2>3 DEF RuleTable
  <2>6. g.file[call.port] = "none"
    BY <2>1, <2>2, <2>4, <2>5 DEF Firewall
  <2> QED BY <1>4, <2>1, <2>2, <2>3, <2>6, PartResult DEF RuleTable
<1>5. \/ g = fw
      \/ /\ call # Idle /\ call.step = "bridge" /\ platform = "darwin" /\ call.kind # "unblock"
         /\ g \in PartlyWritten(Tracking(fw, call.port, call.proto))
      \/ /\ call # Idle /\ call.step = "bridge" /\ platform = "darwin" /\ call.kind = "unblock"
         /\ g \in PartlyWritten(Forgetting(fw, call.port))
  BY DEF CutOff, BlockCut, UnblockCut
<1> QED BY <1>2, <1>3, <1>4, <1>5 DEF Rewrites


-----------------------------------------------------------------------------
(* Every step keeps the invariant.                                         *)

LEMMA Initially == Init => Inv
<1> SUFFICES ASSUME Init PROVE Inv
  OBVIOUS
<1>1. TypeOK
  <2>1. fw \in Firewall
    BY NothingLoaded DEF Init, Firewall
  <2>2. call \in Call /\ reply \in Reply
    BY DEF Init, Call, Idle, Reply, NoReply, Protos
  <2>3. starts \in 1 .. (MaxStarts + 1)
    BY EnforcementAssumption DEF Init
  <2>4. trail \in [Ports -> {"none", "block", "unblock"}]
    BY DEF Init, NoEntries
  <2> QED BY <2>1, <2>2, <2>3, <2>4 DEF Init, TypeOK
<1>2. CallOK /\ ProgressOK /\ AnswersAreTrue
  BY DEF Init, CallOK, ProgressOK, BridgeDone, AnswersAreTrue, Idle, NoReply
<1>3. BridgeOK /\ AccountsOK /\ SessionOK
  BY DEF Init, BridgeOK, AccountsOK, SessionOK, NoRules, Loaded
<1>4. TrailOK /\ TornOK
  BY DEF Init, TrailOK, Told, NoEntries, TornOK
<1> QED BY <1>1, <1>2, <1>3, <1>4 DEF Inv

(* A call begins with nothing done, and forgets that an earlier one of its *)
(* port has failed.                                                        *)
LEMMA BeginKeeps ==
    ASSUME Inv, NEW kind \in Kinds, NEW p \in Ports, NEW proto \in Protos, Begin(kind, p, proto)
    PROVE  Inv'
<1>1. /\ call' = [kind |-> kind, step |-> "bridge", port |-> p, proto |-> proto]
      /\ kind \in {"block", "unblock", "policy"}
      /\ call = Idle /\ up /\ call' # Idle /\ call'.port = p
      /\ reply' = NoReply
      /\ broken' = broken \ {p}
      /\ UNCHANGED <<faults, platform, up, starts, fw, rows, session, trail, torn>>
  BY EnforcementAssumption DEF Begin, Idle
<1>2. TypeOK'
  BY <1>1 DEF Inv, TypeOK, Call, Reply, NoReply, Protos
<1>3. CallOK' /\ ProgressOK' /\ AnswersAreTrue'
  BY <1>1 DEF CallOK, ProgressOK, BridgeDone, AnswersAreTrue, NoReply
<1>4. BridgeOK'
  BY <1>1 DEF Inv, BridgeOK, Idle, Alone
<1>5. AccountsOK'
  <2>1. \A q : Accounted(q) => Accounted(q)'
    BY <1>1 DEF Accounted, Idle
  <2> QED BY <1>1, <2>1 DEF Inv, AccountsOK
<1>6. SessionOK'
  BY <1>1 DEF Inv, SessionOK, Idle, Reported, Alone, Blocked, Tracked
<1>7. TrailOK'
  <2> SUFFICES ASSUME Reported, Alone, NEW q \in Ports \ broken, q # p
               PROVE  Told(q)'
    BY <1>1 DEF TrailOK, Reported, Alone
  <2>1. Told(q)
    BY <1>1 DEF Inv, TrailOK
  <2> QED BY <1>1, <2>1 DEF Told, Blocked, Tracked, Gone, RulesOf
<1>8. TornOK'
  BY <1>1 DEF Inv, TornOK, BridgeDone, Alone
<1> QED BY <1>2, <1>3, <1>4, <1>5, <1>6, <1>7, <1>8 DEF Inv

(* How a call goes on after a step of its bridge. *)
Proceeds(r) ==
    /\ fw' = r.fw
    /\ faults' = faults /\ platform' = platform /\ up' = TRUE /\ starts' = starts
    /\ rows' = rows /\ session' = session /\ trail' = trail
    /\ reply'.status # "success"
    /\ r.next # "raised" =>
           /\ call' # Idle
           /\ call'.kind = call.kind /\ call'.port = call.port /\ call'.proto = call.proto
    /\ r.next = "next" => call'.step = "command"
    /\ r.next = "returned" => call'.step = "row"
    /\ r.next = "raised" => call' = Idle /\ call'.step = "bridge" /\ r.whole = FALSE
    /\ r.whole = TRUE => broken' = broken
    /\ r.whole = FALSE => broken' = broken \cup {call.port}

LEMMA ProceedResult ==
    ASSUME Inv, call # Idle, NEW r, IsResult(r), Proceed(r), torn' \in BOOLEAN
    PROVE  TypeOK' /\ CallOK' /\ AnswersAreTrue' /\ Proceeds(r)
<1>1. /\ call.port \in Ports /\ call \in Call /\ reply \in Reply
      /\ call.kind \in {"block", "unblock", "policy"}
      /\ up = TRUE /\ reply.status # "success"
      /\ "os" \notin faults => call.port \notin broken
  BY DEF Inv, TypeOK, CallOK
<1>2. /\ fw' = r.fw
      /\ faults' = faults /\ platform' = platform /\ up' = up /\ starts' = starts
      /\ rows' = rows /\ session' = session /\ trail' = trail
      /\ broken' = IF r.whole THEN broken ELSE broken \cup {call.port}
  BY DEF Proceed
<1>3. \/ r.next = "next" /\ call' = [call EXCEPT !.step = "command"] /\ reply' = reply
      \/ r.next = "returned" /\ call' = [call EXCEPT !.step = "row"] /\ reply' = reply
      \/ r.next = "raised" /\ r.whole = FALSE /\ call' = Idle /\ reply' = Answer("error")
  BY DEF Proceed, IsResult
<1>4. call' \in Call /\ reply' \in Reply
  BY <1>1, <1>3 DEF Call, Reply, Idle, Answer, Protos
<1>5. r.whole = TRUE \/ r.whole = FALSE
  BY DEF IsResult
<1>6. Proceeds(r)
  <2>1. reply'.status # "success"
    BY <1>1, <1>3 DEF Answer
  <2>2. CASE r.next # "raised"
    <3>1. PICK step \in {"command", "row"} :
              /\ call' = [call EXCEPT !.step = step]
              /\ step = "command" <=> r.next = "next"
              /\ step = "row" <=> r.next = "returned"
      BY <1>3, <2>2
    <3>2. /\ call'.kind = call.kind /\ call'.port = call.port /\ call'.proto = call.proto
          /\ call'.step = step
      BY <1>1, <3>1 DEF Call
    <3>3. call' # Idle
      BY <3>1, <3>2 DEF Idle
    <3> QED BY <1>1, <1>2, <1>5, <2>1, <2>2, <3>1, <3>2, <3>3 DEF Proceeds
  <2>3. CASE r.next = "raised"
    <3>1. call'.step = "bridge"
      BY <1>3, <2>3 DEF Idle
    <3> QED BY <1>1, <1>2, <1>3, <1>5, <2>1, <2>3, <3>1 DEF Proceeds
  <2> QED BY <2>2, <2>3
<1>7. TypeOK'
  <2>1. broken' \subseteq Ports
    BY <1>1, <1>2 DEF Inv, TypeOK
  <2> QED BY <1>2, <1>4, <2>1 DEF Inv, TypeOK, IsResult
<1>8. CallOK'
  BY <1>1, <1>2, <1>6 DEF CallOK, IsResult, Proceeds
<1>9. AnswersAreTrue'
  BY <1>6 DEF AnswersAreTrue, Proceeds
<1> QED BY <1>6, <1>7, <1>8, <1>9

(* What is accounted for stays so, as a call that raises is remembered. *)
LEMMA AccountedStays ==
    ASSUME NEW r, Proceeds(r), IsResult(r), call # Idle
    PROVE  \A q : Accounted(q) \/ q = call.port => Accounted(q)'
<1>1. rows' = rows /\ broken \subseteq broken'
  BY DEF Proceeds, IsResult
<1>2. (call' # Idle /\ call'.port = call.port) \/ call.port \in broken'
  BY DEF Proceeds, IsResult
<1> QED BY <1>1, <1>2 DEF Accounted

(* What the trail says of another port stays true. *)
LEMMA ToldStays ==
    ASSUME Inv, NEW r, Proceeds(r), IsResult(r), call # Idle,
           Reported /\ Alone =>
               \A q \in Ports \ broken : q # call.port /\ Told(q) => Told(q)'
    PROVE  TrailOK'
<1> SUFFICES ASSUME Reported, Alone, NEW q \in Ports, q \notin broken',
                    call' # Idle => q # call'.port
             PROVE  Told(q)'
  BY DEF TrailOK, Reported, Alone, Proceeds
<1>1. q \notin broken /\ q # call.port
  BY DEF Proceeds, IsResult
<1>2. up
  BY DEF Inv, CallOK
<1> QED BY <1>1, <1>2 DEF Inv, TrailOK

(* On Linux and Windows a block only adds rules of its port.               *)
Blocks(r) ==
    /\ IsResult(r)
    /\ OnlyAdds(fw, r.fw, Drop(platform, call.port, call.proto))
    /\ r.next = "returned" /\ Alone => Enforced(platform, r.fw, call.port, call.proto)
    /\ r.next = "next" /\ platform = "windows" =>
           <<"out", call.port, call.proto>> \in r.fw.rules

LEMMA BlockStepKeeps ==
    ASSUME Inv, platform # "darwin", call # Idle, call.kind # "unblock",
           NEW r, Blocks(r), Proceed(r), torn' = FALSE
    PROVE  Inv'
<1>1. IsResult(r) /\ TypeOK' /\ CallOK' /\ AnswersAreTrue' /\ Proceeds(r)
  BY ProceedResult DEF Blocks
<1>2. /\ fw' = r.fw /\ faults' = faults /\ platform' = platform /\ up' = TRUE
      /\ rows' = rows /\ session' = session /\ trail' = trail
  BY <1>1 DEF Proceeds
<1>3. /\ fw'.active = fw.active /\ fw'.file = fw.file
      /\ fw.rules \subseteq fw'.rules
      /\ fw'.rules \subseteq fw.rules \cup Drop(platform, call.port, call.proto)
  BY <1>2 DEF Blocks, OnlyAdds
<1>4. \A q \in Drop(platform, call.port, call.proto) : q[1] \in Dirs(platform) /\ q[2] = call.port
  BY DEF Drop
<1>5. fw.active = NoRules /\ fw.file = NoRules /\ \A q \in fw.rules : q[1] \in Dirs(platform)
  BY DEF Inv, BridgeOK
<1>6. up = TRUE /\ torn = FALSE
  BY DEF Inv, CallOK, TypeOK, BridgeOK
<1>7. BridgeOK'
  BY <1>2, <1>3, <1>4, <1>5 DEF BridgeOK
<1>8. ProgressOK'
  <2>1. CASE r.next = "next"
    BY <1>1, <1>2, <2>1 DEF ProgressOK, BridgeDone, Proceeds, Blocks, HalfBlocked
  <2>2. CASE r.next = "returned"
    BY <1>1, <1>2, <2>2 DEF ProgressOK, BridgeDone, Proceeds, Blocks, Tracked, Alone
  <2>3. CASE r.next = "raised"
    BY <1>1, <2>3 DEF ProgressOK, BridgeDone, Proceeds
  <2> QED BY <1>1, <2>1, <2>2, <2>3 DEF IsResult
<1>9. AccountsOK'
  <2>1. \A q : Accounted(q) \/ q = call.port => Accounted(q)'
    BY <1>1, AccountedStays
  <2>2. \A q \in fw.rules : Accounted(q[2])
    BY <1>6 DEF Inv, AccountsOK
  <2>3. \A q \in Ports : fw'.active[q] = "none" /\ fw'.file[q] = "none"
    BY <1>3, <1>5 DEF NoRules
  <2>4. ASSUME NEW q \in fw'.rules PROVE Accounted(q[2])'
    <3>1. CASE q \in fw.rules
      BY <2>1, <2>2, <3>1
    <3>2. CASE q[2] = call.port
      BY <2>1, <3>2
    <3> QED BY <1>3, <1>4, <3>1, <3>2
  <2> QED BY <2>3, <2>4 DEF AccountsOK
<1>10. \A q : Blocked(q) => Blocked(q)'
  BY <1>2, <1>3 DEF Blocked, Enforced
<1>11. SessionOK'
  <2> SUFFICES ASSUME Reported, Alone, "db" \notin faults, NEW q \in session
               PROVE  Blocked(q)' /\ Tracked(q)'
    BY <1>2 DEF SessionOK, Reported, Alone
  <2>1. Blocked(q)
    BY <1>6 DEF Inv, SessionOK
  <2> QED BY <1>2, <1>10, <2>1 DEF Tracked
<1>12. TrailOK'
  <2>1. ASSUME NEW q \in Ports, q # call.port, Told(q) PROVE Told(q)'
    <3>1. RulesOf(fw, q) = {} => RulesOf(fw', q) = {}
      BY <1>3, <1>4, <2>1 DEF RulesOf
    <3>2. Gone(q) => Gone(q)'
      BY <1>3, <1>6, <3>1 DEF Gone
    <3> QED BY <1>2, <1>10, <2>1, <3>2 DEF Told, Tracked
  <2> QED BY <1>1, <2>1, ToldStays
<1>13. TornOK'
  BY DEF TornOK
<1> QED BY <1>1, <1>7, <1>8, <1>9, <1>11, <1>12, <1>13 DEF Inv

(* On Linux and Windows an unblock only takes rules of its port away.      *)
Unblocks(r) ==
    /\ IsResult(r)
    /\ OnlyRemoves(fw, r.fw, call.port)
    /\ r.next # "raised"
    /\ r.next = "next" /\ r.whole = TRUE => HalfGone(r.fw, call.port)
    /\ r.next = "returned" /\ r.whole = TRUE =>
           RulesOf(r.fw, call.port) = {} \/ call.port \in broken

LEMMA UnblockStepKeeps ==
    ASSUME Inv, platform # "darwin", call # Idle, call.kind = "unblock",
           NEW r, Unblocks(r), Proceed(r), torn' = FALSE
    PROVE  Inv'
<1>1. IsResult(r) /\ TypeOK' /\ CallOK' /\ AnswersAreTrue' /\ Proceeds(r)
  BY ProceedResult DEF Unblocks
<1>2. /\ fw' = r.fw /\ faults' = faults /\ platform' = platform /\ up' = TRUE
      /\ rows' = rows /\ session' = session /\ trail' = trail
      /\ call' # Idle /\ call'.kind = "unblock" /\ call'.port = call.port
      /\ call'.step \in {"command", "row"}
      /\ call.port \in broken => call.port \in broken'
      /\ r.whole = FALSE => call.port \in broken'
  BY <1>1 DEF Proceeds, Unblocks, IsResult
<1>3. /\ fw'.active = fw.active /\ fw'.file = fw.file
      /\ fw'.rules \subseteq fw.rules
      /\ \A q \in fw.rules : q[2] # call.port => q \in fw'.rules
  BY <1>2 DEF Unblocks, OnlyRemoves
<1>4. fw.active = NoRules /\ fw.file = NoRules /\ \A q \in fw.rules : q[1] \in Dirs(platform)
  BY DEF Inv, BridgeOK
<1>5. up = TRUE /\ torn = FALSE /\ call.port \in Ports
  BY DEF Inv, CallOK, TypeOK, BridgeOK
<1>6. BridgeOK'
  BY <1>2, <1>3, <1>4 DEF BridgeOK
<1>7. ProgressOK'
  <2>1. fw'.active[call.port] = "none" /\ fw'.file[call.port] = "none"
    BY <1>3, <1>4, <1>5 DEF NoRules
  <2>2. CASE r.next = "next"
    <3>1. HalfGone(fw', call.port) \/ call.port \in broken'
      BY <1>1, <1>2, <2>2 DEF Unblocks, IsResult
    <3>2. call'.step = "command"
      BY <1>1, <2>2 DEF Proceeds
    <3>3. HalfGone(fw', call.port) <=> HalfGone(fw, call.port)'
      BY <1>2 DEF HalfGone
    <3> QED BY <1>2, <3>1, <3>2, <3>3 DEF ProgressOK, BridgeDone
  <2>3. CASE r.next = "returned"
    <3>1. RulesOf(fw', call.port) = {} \/ call.port \in broken'
      BY <1>1, <1>2, <2>3 DEF Unblocks, IsResult
    <3>2. call'.step = "row"
      BY <1>1, <2>3 DEF Proceeds
    <3> QED BY <1>2, <2>1, <3>1, <3>2 DEF ProgressOK, BridgeDone, Gone
  <2> QED BY <2>2, <2>3 DEF Unblocks, IsResult
<1>8. AccountsOK'
  <2>1. \A q : Accounted(q) => Accounted(q)'
    BY <1>1, AccountedStays
  <2>2. \A q \in fw.rules : Accounted(q[2])
    BY <1>5 DEF Inv, AccountsOK
  <2>3. \A q \in Ports : fw'.active[q] = "none" /\ fw'.file[q] = "none"
    BY <1>3, <1>4 DEF NoRules
  <2> QED BY <1>3, <2>1, <2>2, <2>3 DEF AccountsOK
<1>9. ASSUME NEW q, q # call.port, Blocked(q) PROVE Blocked(q)'
  <2>1. PICK proto \in Protos : Drop(platform, q, proto) \subseteq fw.rules
    BY <1>9 DEF Blocked, Enforced
  <2>2. \A d \in Drop(platform, q, proto) : d[2] = q
    BY DEF Drop
  <2>3. Drop(platform, q, proto) \subseteq fw'.rules
    BY <1>3, <1>9, <2>1, <2>2
  <2> QED BY <1>2, <2>3 DEF Blocked, Enforced
<1>10. SessionOK'
  <2> SUFFICES ASSUME Reported, Alone, "db" \notin faults, NEW q \in session, q # call.port
               PROVE  Blocked(q)' /\ Tracked(q)'
    BY <1>2 DEF SessionOK, Reported, Alone
  <2>1. Blocked(q)
    BY <1>5 DEF Inv, SessionOK
  <2> QED BY <1>2, <1>9, <2>1 DEF Tracked
<1>11. TrailOK'
  <2>1. ASSUME NEW q \in Ports, q # call.port, Told(q) PROVE Told(q)'
    <3>1. RulesOf(fw, q) = {} => RulesOf(fw', q) = {}
      BY <1>3 DEF RulesOf
    <3>2. Gone(q) => Gone(q)'
      BY <1>3, <1>5, <3>1 DEF Gone
    <3> QED BY <1>2, <1>9, <2>1, <3>2 DEF Told, Tracked
  <2> QED BY <1>1, <2>1, ToldStays
<1>12. TornOK'
  BY DEF TornOK
<1> QED BY <1>1, <1>6, <1>7, <1>8, <1>10, <1>11, <1>12 DEF Inv

(* Linux and Windows: a command of a call, and what has come before it.    *)
CommandDone(r) ==
    /\ Proceed(r)
    /\ torn' = FALSE
    /\ call.kind # "unblock" => Blocks(r)
    /\ call.kind = "unblock" => Unblocks(r)
    /\ call.step = "bridge" /\ r.next = "returned" => r.fw = fw
    /\ call.step = "command" => r.next # "next"

LEMMA CommandResult ==
    ASSUME Inv, platform # "darwin", FirstCommand \/ SecondCommand
    PROVE  call # Idle /\ \E r : CommandDone(r)
<1>1. /\ call # Idle /\ call.port \in Ports /\ call.proto \in Protos /\ fw \in Firewall
      /\ platform \in {"linux", "windows"}
  <2>1. call # Idle
    BY DEF FirstCommand, SecondCommand, Idle
  <2>2. platform \in {"linux", "windows", "darwin"}
    BY PlatformKnown DEF Inv
  <2> QED BY <2>1, <2>2 DEF Inv, TypeOK, CallOK, Call
<1>2. /\ torn = FALSE
      /\ \A q \in fw.rules : q[1] \in Dirs(platform)
      /\ call.step = "command" /\ call.kind # "unblock" /\ Alone =>
             HalfBlocked(call.port, call.proto)
      /\ call.step = "command" /\ call.kind = "unblock" =>
             HalfGone(fw, call.port) \/ call.port \in broken
  BY DEF Inv, BridgeOK, ProgressOK
<1>3. ASSUME FirstCommand, call.kind # "unblock" PROVE \E r : CommandDone(r)
  <2>1. PICK r \in BlockFirst(platform, fw, call.port, call.proto) : Proceed(r)
    BY <1>3 DEF FirstCommand
  <2>2. FirstBlocks(fw, call.port, call.proto, r)
    BY <1>1, FirstBlockResult
  <2>3. Blocks(r) /\ (r.next = "returned" => r.fw = fw)
    BY <2>2 DEF FirstBlocks, Blocks
  <2>4. torn' = FALSE /\ call.step = "bridge"
    BY <1>2, <1>3 DEF FirstCommand
  <2>5. CommandDone(r)
    BY <1>3, <2>1, <2>3, <2>4 DEF CommandDone
  <2> QED BY <2>5
<1>4. ASSUME FirstCommand, call.kind = "unblock" PROVE \E r : CommandDone(r)
  <2>1. PICK r \in UnblockFirst(platform, fw, call.port) : Proceed(r)
    BY <1>4 DEF FirstCommand
  <2>2. FirstUnblocks(fw, call.port, r)
    BY <1>1, <1>2, UnblockResult
  <2>3. Unblocks(r) /\ r.next = "next"
    BY <2>2 DEF FirstUnblocks, Unblocks
  <2>4. torn' = FALSE /\ call.step = "bridge"
    BY <1>2, <1>4 DEF FirstCommand
  <2>5. CommandDone(r)
    BY <1>4, <2>1, <2>3, <2>4 DEF CommandDone
  <2> QED BY <2>5
<1>5. ASSUME SecondCommand, call.kind # "unblock" PROVE \E r : CommandDone(r)
  <2>1. PICK r \in BlockSecond(platform, fw, call.port, call.proto) :
            Proceed(r) /\ torn' = (platform = "darwin" /\ ~r.whole)
    BY <1>5 DEF SecondCommand
  <2>2. SecondBlocks(fw, call.port, call.proto, r)
    BY <1>1, SecondBlockResult
  <2>3. Blocks(r) /\ r.next # "next" /\ call.step = "command"
    <3>1. Alone /\ platform = "windows" => <<"out", call.port, call.proto>> \in fw.rules
      BY <1>2, <1>5 DEF SecondCommand, HalfBlocked
    <3> QED BY <1>5, <2>2, <3>1 DEF SecondBlocks, Blocks, SecondCommand
  <2>4. CommandDone(r)
    BY <1>5, <2>1, <2>3 DEF CommandDone
  <2> QED BY <2>4
<1>6. ASSUME SecondCommand, call.kind = "unblock" PROVE \E r : CommandDone(r)
  <2>1. PICK r \in UnblockSecond(platform, fw, call.port) :
            Proceed(r) /\ torn' = (platform = "darwin" /\ ~r.whole)
    BY <1>6 DEF SecondCommand
  <2>2. SecondUnblocks(fw, call.port, r)
    BY <1>1, <1>2, UnblockResult
  <2>3. Unblocks(r) /\ r.next # "next" /\ call.step = "command"
    <3>1. HalfGone(fw, call.port) \/ call.port \in broken
      BY <1>2, <1>6 DEF SecondCommand
    <3> QED BY <1>6, <2>2, <3>1 DEF SecondUnblocks, Unblocks, SecondCommand
  <2>4. CommandDone(r)
    BY <1>6, <2>1, <2>3 DEF CommandDone
  <2> QED BY <2>4
<1> QED BY <1>1, <1>3, <1>4, <1>5, <1>6

LEMMA CommandKeeps ==
    ASSUME Inv, platform # "darwin", FirstCommand \/ SecondCommand
    PROVE  Inv'
<1>1. call # Idle
  BY CommandResult
<1>2. PICK r : CommandDone(r)
  BY CommandResult
<1>3. /\ Proceed(r) /\ torn' = FALSE
      /\ call.kind # "unblock" => Blocks(r)
      /\ call.kind = "unblock" => Unblocks(r)
  BY <1>2 DEF CommandDone
<1> QED BY <1>1, <1>3, BlockStepKeeps, UnblockStepKeeps

(* The first step of macOS leaves the rules alone.  Dict and file lose no  *)
(* port but the one of the call, and get none but that one.                *)
Prepares(r) ==
    /\ IsResult(r)
    /\ r.next # "raised"
    /\ r.fw.rules = fw.rules
    /\ \A q \in Ports : q # call.port =>
           /\ fw.active[q] # "none" => r.fw.active[q] # "none"
           /\ r.fw.active[q] # "none" \/ r.fw.file[q] # "none" =>
                  fw.active[q] # "none" \/ fw.file[q] # "none"
    /\ \/ r.next = "next" /\ (r.whole = TRUE => r.fw.file = r.fw.active)
       \/ /\ r.next = "returned" /\ call.kind = "unblock"
          /\ r.fw.file = fw.file
          /\ (\A q \in Ports : fw.active[q] # "none" => fw.file[q] = fw.active[q])
                 => \A q \in Ports : r.fw.active[q] # "none" => r.fw.file[q] = r.fw.active[q]
    /\ call.kind # "unblock" => r.fw.active[call.port] = call.proto
    /\ call.kind = "unblock" /\ r.whole = TRUE =>
           r.fw.active[call.port] = "none" /\ r.fw.file[call.port] = "none"

LEMMA PrepareKeeps ==
    ASSUME Inv, platform = "darwin", call # Idle, call.step = "bridge",
           NEW r, Prepares(r), Proceed(r), torn' = torn
    PROVE  Inv'
<1>1. torn' \in BOOLEAN
  BY DEF Inv, TypeOK
<1>2. IsResult(r) /\ TypeOK' /\ CallOK' /\ AnswersAreTrue' /\ Proceeds(r)
  BY <1>1, ProceedResult DEF Prepares
<1>3. /\ fw' = r.fw /\ faults' = faults /\ platform' = platform /\ up' = TRUE
      /\ rows' = rows /\ session' = session /\ trail' = trail
      /\ call' # Idle /\ call'.kind = call.kind /\ call'.port = call.port
      /\ call'.proto = call.proto
      /\ r.next = "next" => call'.step = "command"
      /\ r.next = "returned" => call'.step = "row"
      /\ r.whole = FALSE => call.port \in broken'
      /\ r.whole = TRUE \/ r.whole = FALSE
  BY <1>2 DEF Proceeds, Prepares, IsResult
<1>4. PICK p \in Ports : p = call.port
  BY DEF Inv, CallOK
<1>5. /\ fw'.rules = fw.rules
      /\ \A q \in Ports : q # p =>
             /\ fw.active[q] # "none" => fw'.active[q] # "none"
             /\ fw'.active[q] # "none" \/ fw'.file[q] # "none" =>
                    fw.active[q] # "none" \/ fw.file[q] # "none"
  BY <1>3, <1>4 DEF Prepares
<1>6. up = TRUE /\ (~torn => fw.rules = Loaded(fw.file))
  BY DEF Inv, CallOK, TypeOK, BridgeOK
<1>7. BridgeOK'
  <2>1. CASE r.next = "next"
    BY <1>2, <1>3, <2>1 DEF BridgeOK, Prepares, IsResult
  <2>2. CASE r.next = "returned"
    <3>1. "os" \notin faults /\ Alone =>
              \A q \in Ports : fw.active[q] # "none" => fw.file[q] = fw.active[q]
      BY DEF Inv, BridgeOK
    <3>2. "os" \notin faults /\ Alone =>
              \A q \in Ports : fw'.active[q] # "none" => fw'.file[q] = fw'.active[q]
      BY <1>3, <2>2, <3>1 DEF Prepares
    <3>3. ~torn' => fw'.rules = Loaded(fw'.file)
      BY <1>3, <1>5, <1>6, <2>2 DEF Prepares
    <3> QED BY <1>3, <3>2, <3>3 DEF BridgeOK, Alone
  <2> QED BY <2>1, <2>2 DEF Prepares
<1>8. call.kind = "unblock" /\ call.port \notin broken' =>
          fw'.active[p] = "none" /\ fw'.file[p] = "none"
  BY <1>3, <1>4 DEF Prepares
<1>9. ProgressOK'
  <2>1. CASE r.next = "next" /\ call.kind # "unblock"
    <3>1. fw'.active[p] = call.proto /\ (p \notin broken' => fw'.file[p] = call.proto)
      BY <1>3, <1>4, <2>1 DEF Prepares
    <3> QED BY <1>3, <1>4, <2>1, <3>1 DEF ProgressOK, BridgeDone, HalfBlocked
  <2>2. CASE r.next = "next" /\ call.kind = "unblock"
    <3>1. call'.step = "command" /\ call'.kind = "unblock" /\ call'.port = p
      BY <1>3, <1>4, <2>2
    <3>2. p \notin broken' => fw'.active[p] = "none" /\ fw'.file[p] = "none"
      BY <1>4, <1>8, <2>2
    <3> QED BY <1>3, <3>1, <3>2 DEF ProgressOK, BridgeDone, HalfGone
  <2>3. CASE r.next = "returned"
    <3>1. call'.step = "row" /\ call'.kind = "unblock" /\ call'.port = p
      BY <1>3, <1>4, <2>3 DEF Prepares
    <3>2. fw'.file = fw.file /\ fw.file \in RuleTable
      BY <1>3, <2>3 DEF Prepares, Inv, TypeOK, Firewall
    <3>3. ~torn /\ fw'.file[p] = "none" => RulesOf(fw', p) = {}
      BY <1>5, <1>6, <3>2, LoadedPorts DEF RulesOf
    <3>4. p \notin broken' => Gone(p)'
      BY <1>4, <1>8, <3>1, <3>3, <1>3 DEF Gone
    <3> QED BY <3>1, <3>4 DEF ProgressOK, BridgeDone, Gone
  <2> QED BY <2>1, <2>2, <2>3 DEF Prepares
<1>10. AccountsOK'
  <2>1. \A q : Accounted(q) \/ q = p => Accounted(q)'
    BY <1>2, <1>4, AccountedStays
  <2>2. ~torn => \A q \in fw.rules : Accounted(q[2])
    BY DEF Inv, AccountsOK
  <2>3. \A q \in Ports : fw.active[q] # "none" \/ fw.file[q] # "none" => Accounted(q)
    BY DEF Inv, AccountsOK
  <2>4. \A q \in Ports : fw'.active[q] # "none" \/ fw'.file[q] # "none" => Accounted(q)'
    BY <1>5, <2>1, <2>3
  <2> QED BY <1>5, <2>1, <2>2, <2>4 DEF AccountsOK
<1>11. \A q : Blocked(q) => Blocked(q)'
  BY <1>3, <1>5 DEF Blocked, Enforced
<1>12. \A q \in Ports : q # p /\ Tracked(q) => Tracked(q)'
  BY <1>3, <1>5 DEF Tracked
<1>13. SessionOK'
  <2> SUFFICES ASSUME Reported, Alone, "db" \notin faults, NEW q \in session,
                      ~(call.kind = "unblock" /\ q = p)
               PROVE  Blocked(q)' /\ Tracked(q)'
    BY <1>3, <1>4 DEF SessionOK, Reported, Alone, Prepares
  <2>1. Blocked(q) /\ Tracked(q) /\ q \in Ports
    BY <1>6 DEF Inv, SessionOK, TypeOK
  <2>2. CASE q = p
    <3>1. call.kind # "unblock" /\ call.proto \in Protos
      BY <2>2 DEF Inv, TypeOK, Call
    <3>2. fw'.active[p] # "none"
      BY <1>3, <1>4, <3>1 DEF Prepares, Protos
    <3> QED BY <1>11, <2>1, <2>2, <3>2 DEF Tracked
  <2>3. CASE q # p
    BY <1>11, <1>12, <2>1, <2>3
  <2> QED BY <2>2, <2>3
<1>14. TrailOK'
  <2>1. ASSUME NEW q \in Ports, q # call.port, Told(q) PROVE Told(q)'
    <3>1. Gone(q) => Gone(q)'
      BY <1>4, <1>5, <2>1 DEF Gone, RulesOf
    <3>2. Tracked(q) => Tracked(q)'
      BY <1>4, <1>12, <2>1
    <3> QED BY <1>3, <1>11, <2>1, <3>1, <3>2 DEF Told
  <2> QED BY <1>2, <2>1, ToldStays
<1>15. TornOK'
  <2>1. r.next = "returned" => call'.kind = "unblock"
    BY <1>3 DEF Prepares
  <2> QED BY <1>3, <1>6, <2>1 DEF Inv, TornOK, BridgeDone, Alone, Prepares
<1> QED BY <1>2, <1>7, <1>9, <1>10, <1>13, <1>14, <1>15 DEF Inv

(* macOS: dict and file. *)
LEMMA DarwinFirstResult ==
    ASSUME Inv, platform = "darwin", FirstCommand
    PROVE  \E r : Proceed(r) /\ Prepares(r)
<1>1. /\ call # Idle /\ call.step = "bridge"
      /\ call.proto \in Protos /\ fw \in Firewall
  BY DEF FirstCommand, Inv, TypeOK, Call
<1>2. PICK p \in Ports : p = call.port
  BY <1>1 DEF Inv, CallOK
<1>3. ASSUME call.kind # "unblock" PROVE \E r : Proceed(r) /\ Prepares(r)
  <2>1. PICK r \in BlockFirst(platform, fw, p, call.proto) : Proceed(r)
    BY <1>2, <1>3 DEF FirstCommand
  <2>2. PICK g : g = Tracking(fw, p, call.proto)
    OBVIOUS
  <2>3. /\ g \in Firewall /\ g.rules = fw.rules /\ g.file = fw.file
        /\ g.active = [fw.active EXCEPT ![p] = call.proto]
    BY <1>1, <2>2, TrackingFields
  <2>4. g.active[p] = call.proto /\ \A q \in Ports : q # p => g.active[q] = fw.active[q]
    BY <1>1, <2>3 DEF Firewall, RuleTable
  <2>5. Writes(g, r)
    BY <2>1, <2>2, <2>3, WriteResult DEF BlockFirst
  <2>6. Prepares(r)
    BY <1>2, <1>3, <2>3, <2>4, <2>5 DEF Writes, Rewrites, Prepares
  <2> QED BY <2>1, <2>6
<1>4. ASSUME call.kind = "unblock" PROVE \E r : Proceed(r) /\ Prepares(r)
  <2>1. PICK r \in UnblockFirst(platform, fw, p) : Proceed(r)
    BY <1>2, <1>4 DEF FirstCommand
  <2>2. Forgets(fw, p, r)
    BY <1>1, <2>1, ForgetResult DEF UnblockFirst
  <2>3. PICK known, left : known = DarwinKnown(fw, p) /\ left = [known EXCEPT ![p] = "none"]
    OBVIOUS
  <2>4. /\ known \in RuleTable
        /\ \A q \in Ports : known[q] \in {fw.active[q], fw.file[q]}
        /\ \A q \in Ports : fw.active[q] # "none" => known[q] # "none"
        /\ known[p] = "none" => fw.active[p] = "none" /\ fw.file[p] = "none"
        /\ (\A q \in Ports : fw.active[q] # "none" => fw.file[q] = fw.active[q])
               => \A q \in Ports : known[q] # "none" => fw.file[q] = known[q]
    BY <1>1, <2>3, KnownRules
  <2>5. left[p] = "none" /\ \A q \in Ports : q # p => left[q] = known[q]
    BY <2>3, <2>4 DEF RuleTable
  <2>6. IsResult(r)
    BY <2>2 DEF Forgets
  <2>7. \/ /\ r.next = "returned" /\ r.whole = TRUE /\ known[p] = "none"
           /\ r.fw.rules = fw.rules /\ r.fw.active = known /\ r.fw.file = fw.file
        \/ r.next = "returned" /\ r.whole = FALSE /\ r.fw = fw
        \/ /\ r.next = "next"
           /\ Rewrites(fw, r.fw, left)
           /\ r.whole = TRUE => r.fw.file = left
    BY <2>2, <2>3 DEF Forgets
  <2>8. ASSUME r.next = "returned", r.whole = TRUE, known[p] = "none",
               r.fw.rules = fw.rules, r.fw.active = known, r.fw.file = fw.file
        PROVE  Prepares(r)
    BY <1>2, <1>4, <2>4, <2>6, <2>8 DEF Prepares
  <2>9. ASSUME r.next = "returned", r.whole = FALSE, r.fw = fw PROVE Prepares(r)
    BY <1>2, <1>4, <2>6, <2>9 DEF Prepares
  <2>10. ASSUME r.next = "next", Rewrites(fw, r.fw, left), r.whole = TRUE => r.fw.file = left
         PROVE  Prepares(r)
    BY <1>2, <1>4, <2>4, <2>5, <2>6, <2>10 DEF Prepares, Rewrites
  <2>11. Prepares(r)
    BY <2>7, <2>8, <2>9, <2>10
  <2> QED BY <2>1, <2>11
<1> QED BY <1>3, <1>4

LEMMA DarwinFirstKeeps ==
    ASSUME Inv, platform = "darwin", FirstCommand
    PROVE  Inv'
<1>1. PICK r : Proceed(r) /\ Prepares(r)
  BY DarwinFirstResult
<1>2. call # Idle /\ call.step = "bridge" /\ torn' = torn
  BY DEF FirstCommand
<1> QED BY <1>1, <1>2, PrepareKeeps

(* macOS: the file is loaded, and with it the ports of the dict. *)
Reloads(r) ==
    /\ Proceed(r)
    /\ torn' = (~r.whole)
    /\ Loads(fw, r)
    /\ call.kind = "unblock" => r.next = "returned"

LEMMA DarwinSecondResult ==
    ASSUME Inv, platform = "darwin", SecondCommand
    PROVE  \E r : Reloads(r)
<1>1. fw \in Firewall
  BY DEF Inv, TypeOK
<1>2. CASE call.kind # "unblock"
  <2>1. PICK r \in BlockSecond(platform, fw, call.port, call.proto) :
            Proceed(r) /\ torn' = (platform = "darwin" /\ ~r.whole)
    BY <1>2 DEF SecondCommand
  <2>2. Loads(fw, r)
    BY <1>1, <2>1, ReloadResult DEF BlockSecond
  <2>3. Reloads(r)
    BY <1>2, <2>1, <2>2 DEF Reloads
  <2> QED BY <2>3
<1>3. CASE call.kind = "unblock"
  <2>1. PICK r \in UnblockSecond(platform, fw, call.port) :
            Proceed(r) /\ torn' = (platform = "darwin" /\ ~r.whole)
    BY <1>3 DEF SecondCommand
  <2>2. Loads(fw, r) /\ r.next = "returned"
    BY <1>1, <2>1, ReloadResult DEF UnblockSecond
  <2>3. Reloads(r)
    BY <2>1, <2>2 DEF Reloads
  <2> QED BY <2>3
<1> QED BY <1>2, <1>3

LEMMA DarwinSecondKeeps ==
    ASSUME Inv, platform = "darwin", SecondCommand
    PROVE  Inv'
<1>1. /\ call # Idle /\ call.step = "command"
      /\ call \in Call /\ call.proto \in Protos /\ fw \in Firewall
      /\ fw.active \in RuleTable /\ fw.file \in RuleTable
      /\ up = TRUE
  BY DEF SecondCommand, Idle, Inv, TypeOK, CallOK, Call, Firewall
<1>2. PICK p \in Ports : p = call.port
  BY <1>1 DEF Inv, CallOK
<1>3. PICK r : /\ Proceed(r)
               /\ torn' = (~r.whole)
               /\ Loads(fw, r)
               /\ call.kind = "unblock" => r.next = "returned"
  <2>1. PICK r : Reloads(r)
    BY DarwinSecondResult
  <2> QED BY <2>1 DEF Reloads
<1>4. IsResult(r) /\ TypeOK' /\ CallOK' /\ AnswersAreTrue' /\ Proceeds(r)
  <2>1. IsResult(r) /\ torn' \in BOOLEAN
    BY <1>3 DEF Loads, IsResult
  <2> QED BY <1>1, <1>3, <2>1, ProceedResult
<1>5. /\ fw' = r.fw /\ faults' = faults /\ platform' = platform /\ up' = TRUE
      /\ rows' = rows /\ session' = session /\ trail' = trail
      /\ fw'.active = fw.active /\ fw'.file = fw.file
      /\ r.next \in {"returned", "raised"}
      /\ r.next = "returned" => /\ call'.step = "row" /\ call'.kind = call.kind
                                /\ call'.port = p /\ call'.proto = call.proto
      /\ r.next = "raised" => call'.step = "bridge" /\ r.whole = FALSE
      /\ r.whole = TRUE \/ r.whole = FALSE
      /\ r.whole = TRUE => broken' = broken /\ r.next = "returned"
      /\ r.whole = FALSE => p \in broken'
      /\ "os" \notin faults => r.whole = TRUE
  BY <1>2, <1>3, <1>4 DEF Proceeds, Loads, IsResult
<1>6. r.whole = TRUE => fw'.rules = Loaded(fw.file) /\ torn' = FALSE
  BY <1>3, <1>5 DEF Loads
<1>7. "os" \notin faults /\ Alone =>
          \A q \in Ports : fw.active[q] # "none" => fw.file[q] = fw.active[q]
  BY DEF Inv, BridgeOK
<1>8. ~torn' => r.whole = TRUE
  BY <1>3, <1>5
<1>9. BridgeOK'
  BY <1>5, <1>6, <1>7, <1>8 DEF BridgeOK, Alone
<1>10. ASSUME NEW q \in Ports, r.whole = TRUE, fw.file[q] # "none" PROVE Blocked(q)'
  <2>1. fw.file[q] \in Protos /\ Drop("darwin", q, fw.file[q]) \subseteq Loaded(fw.file)
    BY <1>1, <1>10, LoadedIsEnforced
  <2> QED BY <1>5, <1>6, <1>10, <2>1 DEF Blocked, Enforced
<1>11. ASSUME NEW q \in Ports, r.whole = TRUE, fw.file[q] = "none" PROVE RulesOf(fw', q) = {}
  BY <1>1, <1>6, <1>11, LoadedPorts DEF RulesOf
<1>12. ProgressOK'
  <2>1. CASE r.next = "raised"
    BY <1>5, <2>1 DEF ProgressOK, BridgeDone
  <2>2. CASE r.next = "returned" /\ call.kind = "unblock"
    <3>1. HalfGone(fw, p) \/ p \in broken
      BY <1>1, <1>2, <2>2 DEF Inv, ProgressOK
    <3>2. p \notin broken' => r.whole = TRUE /\ fw'.active[p] = "none" /\ fw'.file[p] = "none"
      BY <1>5, <3>1 DEF HalfGone
    <3>3. p \notin broken' => Gone(p)'
      BY <1>5, <1>11, <3>2 DEF Gone
    <3> QED BY <1>5, <2>2, <3>3 DEF ProgressOK, BridgeDone, Gone
  <2>3. CASE r.next = "returned" /\ call.kind # "unblock"
    <3> SUFFICES ASSUME Alone, Reported \/ p \notin broken'
                 PROVE  Enforced(platform, fw', p, call.proto) /\ fw'.active[p] # "none"
      BY <1>5, <2>3 DEF ProgressOK, BridgeDone, Tracked, Alone, Reported
    <3>1. HalfBlocked(p, call.proto)
      BY <1>1, <1>2, <2>3 DEF Inv, ProgressOK
    <3>2. r.whole = TRUE /\ p \notin broken
      BY <1>1, <1>2, <1>5 DEF Reported, Inv, CallOK
    <3>3. fw.file[p] = call.proto /\ fw.active[p] = call.proto /\ call.proto # "none"
      BY <1>1, <3>1, <3>2 DEF HalfBlocked, Protos
    <3>4. Drop("darwin", p, call.proto) \subseteq Loaded(fw.file)
      BY <1>1, <3>3, LoadedIsEnforced
    <3> QED BY <1>5, <1>6, <3>2, <3>3, <3>4 DEF Enforced
  <2> QED BY <1>5, <2>1, <2>2, <2>3
<1>13. AccountsOK'
  <2>1. \A q : Accounted(q) => Accounted(q)'
    BY <1>1, <1>4, AccountedStays
  <2>2. \A q \in Ports : fw.active[q] # "none" \/ fw.file[q] # "none" => Accounted(q)'
    BY <2>1 DEF Inv, AccountsOK
  <2>3. ASSUME NEW q \in Loaded(fw.file) PROVE Accounted(q[2])'
    <3>1. q[2] \in Ports /\ fw.file[q[2]] # "none"
      BY DEF Loaded
    <3> QED BY <2>2, <3>1
  <2>4. ~torn' => \A q \in fw'.rules : Accounted(q[2])'
    BY <1>6, <1>8, <2>3
  <2>5. \A q \in Ports : fw'.active[q] # "none" \/ fw'.file[q] # "none" => Accounted(q)'
    BY <1>5, <2>2
  <2> QED BY <2>4, <2>5 DEF AccountsOK
<1>14. ASSUME NEW q \in Ports, Reported, Alone, Tracked(q) PROVE Blocked(q)' /\ Tracked(q)'
  <2>1. r.whole = TRUE /\ fw.active[q] # "none" /\ fw.file[q] = fw.active[q]
    BY <1>5, <1>7, <1>14 DEF Reported, Tracked
  <2> QED BY <1>5, <1>10, <2>1 DEF Tracked
<1>15. SessionOK'
  <2> SUFFICES ASSUME Reported, Alone, "db" \notin faults, NEW q \in session,
                      ~(call.kind = "unblock" /\ q = p)
               PROVE  Blocked(q)' /\ Tracked(q)'
    BY <1>3, <1>5 DEF SessionOK, Reported, Alone
  <2>1. Tracked(q) /\ q \in Ports
    BY <1>1, <1>2 DEF Inv, SessionOK, TypeOK
  <2> QED BY <1>14, <2>1
<1>16. TrailOK'
  <2>1. ASSUME Reported, Alone, NEW q \in Ports, q # call.port, Told(q) PROVE Told(q)'
    <3>1. Gone(q) => Gone(q)'
      BY <1>5, <1>11, <2>1 DEF Gone, Reported
    <3> QED BY <1>5, <1>14, <2>1, <3>1 DEF Told
  <2> QED BY <1>1, <1>4, <2>1, ToldStays
<1>17. TornOK'
  BY <1>3, <1>5, <1>8 DEF TornOK
<1> QED BY <1>4, <1>9, <1>12, <1>13, <1>15, <1>16, <1>17 DEF Inv

(* The row follows what the bridge has done.                               *)
LEMMA WriteRowStepKeeps ==
    ASSUME Inv, WriteRow PROVE Inv'
<1>1. /\ call.step = "row" /\ call # Idle
      /\ call' = [call EXCEPT !.step = "audit"]
      /\ faults' = faults /\ platform' = platform /\ up' = up /\ starts' = starts
      /\ fw' = fw /\ reply' = reply /\ trail' = trail /\ broken' = broken /\ torn' = torn
  BY DEF WriteRow, Idle
<1>2. /\ call \in Call /\ call.port \in Ports /\ call.proto \in Protos
      /\ call.kind \in {"block", "unblock", "policy"}
      /\ up = TRUE /\ reply.status # "success"
      /\ rows \subseteq Ports /\ session \subseteq rows
  BY <1>1 DEF Inv, TypeOK, CallOK, Call
<1>3. PICK p \in Ports, proto \in Protos : p = call.port /\ proto = call.proto
  BY <1>2
<1>4. /\ call' \in Call /\ call' # Idle
      /\ call'.step = "audit" /\ call'.kind = call.kind
      /\ call'.port = p /\ call'.proto = proto
  BY <1>1, <1>2, <1>3 DEF Call, Idle
<1>5. /\ call.kind # "unblock" => rows' = rows \cup {p} /\ session' = session \cup {p}
      /\ call.kind = "unblock" => rows' = rows \ {p} /\ session' = session \ {p}
  BY <1>3 DEF WriteRow
<1>6. call.kind # "unblock" /\ Alone /\ (Reported \/ p \notin broken) =>
          Enforced(platform, fw, p, proto) /\ Tracked(p)
  BY <1>1, <1>3 DEF Inv, ProgressOK, BridgeDone
<1>7. call.kind = "unblock" => Gone(p) \/ p \in broken
  BY <1>1, <1>3 DEF Inv, ProgressOK, BridgeDone
<1>8. (Reported' <=> Reported) /\ (Alone' <=> Alone)
  BY <1>1 DEF Reported, Alone
<1>9. TypeOK'
  BY <1>1, <1>2, <1>4, <1>5 DEF Inv, TypeOK
<1>10. CallOK' /\ AnswersAreTrue'
  BY <1>1, <1>2, <1>3, <1>4 DEF Inv, CallOK, AnswersAreTrue
<1>11. BridgeOK'
  BY <1>1, <1>4 DEF Inv, BridgeOK, Alone
<1>12. ProgressOK'
  <2>1. (Gone(p)' <=> Gone(p)) /\ (Tracked(p)' <=> Tracked(p))
    BY <1>1 DEF Gone, RulesOf, Tracked
  <2>2. p \in rows' <=> call.kind # "unblock"
    BY <1>2, <1>5
  <2> QED BY <1>1, <1>4, <1>6, <1>7, <1>8, <2>1, <2>2 DEF ProgressOK, Enforced, Gone, Tracked
<1>13. AccountsOK'
  <2>1. \A q : Accounted(q) => Accounted(q)'
    BY <1>1, <1>3, <1>4, <1>5 DEF Accounted
  <2> QED BY <1>1, <2>1 DEF Inv, AccountsOK
<1>14. SessionOK'
  <2> SUFFICES ASSUME Reported, Alone, "db" \notin faults, NEW q \in session'
               PROVE  Blocked(q) /\ Tracked(q)
    BY <1>1 DEF SessionOK, Reported, Alone, Blocked, Tracked
  <2>1. CASE q = p /\ call.kind # "unblock"
    BY <1>6, <2>1 DEF Blocked
  <2>2. CASE q \in session /\ ~(q = p /\ call.kind = "unblock")
    BY <1>2, <1>3, <2>2 DEF Inv, SessionOK
  <2> QED BY <1>5, <2>1, <2>2
<1>15. TrailOK'
  <2> SUFFICES ASSUME Reported, Alone, NEW q \in Ports \ broken, q # p PROVE Told(q)'
    BY <1>1, <1>4, <1>8 DEF TrailOK
  <2>1. Told(q)
    BY <1>2, <1>3 DEF Inv, TrailOK
  <2> QED BY <1>1, <1>5, <2>1 DEF Told, Blocked, Tracked, Gone, RulesOf
<1>16. TornOK'
  <2>1. torn /\ Alone /\ "os" \notin faults => session = {} /\ call.kind = "unblock"
    BY <1>1, <1>2 DEF Inv, TornOK, BridgeDone
  <2> QED BY <1>1, <1>4, <1>5, <1>8, <2>1 DEF TornOK
<1> QED BY <1>9, <1>10, <1>11, <1>12, <1>13, <1>14, <1>15, <1>16 DEF Inv

(* Where the database fails, nothing is promised of rows and rules.        *)
LEMMA WriteRowFailsKeeps ==
    ASSUME Inv, WriteRowFails PROVE Inv'
<1>1. /\ "db" \in faults /\ call.step = "row" /\ call # Idle
      /\ call' = Idle /\ call'.step = "bridge" /\ reply' = Answer("error")
      /\ broken' = broken \cup {call.port}
      /\ faults' = faults /\ platform' = platform /\ up' = up /\ starts' = starts
      /\ fw' = fw /\ rows' = rows /\ session' = session /\ trail' = trail /\ torn' = torn
  BY DEF WriteRowFails, DbMayFail, Idle
<1>2. call \in Call /\ call.port \in Ports /\ up
  BY <1>1 DEF Inv, TypeOK, CallOK
<1>3. TypeOK'
  <2>1. call' \in Call /\ reply' \in Reply
    BY <1>1, <1>2 DEF Call, Reply, Idle, Answer, Protos
  <2> QED BY <1>1, <1>2, <2>1 DEF Inv, TypeOK
<1>4. CallOK' /\ ProgressOK' /\ AnswersAreTrue'
  BY <1>1 DEF CallOK, ProgressOK, BridgeDone, AnswersAreTrue, Answer
<1>5. BridgeOK'
  BY <1>1 DEF Inv, BridgeOK, Alone
<1>6. AccountsOK'
  <2>1. \A q : Accounted(q) => Accounted(q)'
    BY <1>1 DEF Accounted
  <2> QED BY <1>1, <2>1 DEF Inv, AccountsOK
<1>7. SessionOK'
  BY <1>1 DEF SessionOK
<1>8. TrailOK'
  <2> SUFFICES ASSUME Reported, Alone, NEW q \in Ports \ broken, q # call.port PROVE Told(q)'
    BY <1>1 DEF TrailOK, Reported, Alone
  <2>1. Told(q)
    BY <1>2 DEF Inv, TrailOK
  <2> QED BY <1>1, <2>1 DEF Told, Blocked, Tracked, Gone, RulesOf
<1>9. TornOK'
  BY <1>1 DEF Inv, TornOK, BridgeDone, Alone
<1> QED BY <1>3, <1>4, <1>5, <1>6, <1>7, <1>8, <1>9 DEF Inv

(* The answer, and the entry of the port, say what bridge and table have   *)
(* done.                                                                   *)
LEMMA WriteAuditKeeps ==
    ASSUME Inv, WriteAudit PROVE Inv'
<1>1. /\ call.step = "audit" /\ call # Idle
      /\ call' = Idle /\ call'.step = "bridge" /\ reply' = Answer("success")
      /\ faults' = faults /\ platform' = platform /\ up' = up /\ starts' = starts
      /\ fw' = fw /\ rows' = rows /\ session' = session /\ broken' = broken /\ torn' = torn
  BY DEF WriteAudit, Idle
<1>2. /\ call \in Call /\ call.port \in Ports /\ call.proto \in Protos
      /\ call.kind \in {"block", "unblock", "policy"} /\ up = TRUE
      /\ trail \in [Ports -> {"none", "block", "unblock"}]
  BY <1>1 DEF Inv, TypeOK, CallOK, Call
<1>3. PICK p \in Ports : p = call.port
  BY <1>2
<1>4. PICK entry \in {Entry, "none"} : trail' = [trail EXCEPT ![p] = entry]
  BY <1>3 DEF WriteAudit
<1>5. /\ reply'.kind = call.kind /\ reply'.port = p /\ reply'.proto = call.proto
      /\ reply'.status = "success"
      /\ reply' \in Reply /\ call' \in Call
  BY <1>1, <1>2, <1>3 DEF Answer, Reply, Call, Idle, Protos
<1>6. /\ p \in rows <=> call.kind # "unblock"
      /\ call.kind # "unblock" /\ Alone /\ (Reported \/ p \notin broken) =>
             Enforced(platform, fw, p, call.proto) /\ Tracked(p)
      /\ call.kind = "unblock" => Gone(p) \/ p \in broken
  BY <1>1, <1>3 DEF Inv, ProgressOK, BridgeDone
<1>7. (Reported' <=> Reported) /\ (Alone' <=> Alone)
  BY <1>1 DEF Reported, Alone
<1>8. TypeOK'
  <2>1. trail' \in [Ports -> {"none", "block", "unblock"}]
    BY <1>2, <1>4 DEF Entry
  <2> QED BY <1>1, <1>5, <2>1 DEF Inv, TypeOK
<1>9. CallOK' /\ ProgressOK'
  BY <1>1, <1>2 DEF CallOK, ProgressOK, BridgeDone
<1>10. BridgeOK'
  BY <1>1 DEF Inv, BridgeOK, Alone
<1>11. AnswersAreTrue'
  BY <1>1, <1>5, <1>6, <1>7 DEF AnswersAreTrue, Gone
<1>12. AccountsOK'
  <2>1. \A q : Accounted(q) /\ (q = p => p \in rows \cup broken) => Accounted(q)'
    BY <1>1, <1>3 DEF Accounted
  <2>2. /\ ~torn => \A r \in fw.rules : Accounted(r[2])
        /\ \A q \in Ports : fw.active[q] # "none" \/ fw.file[q] # "none" => Accounted(q)
    BY DEF Inv, AccountsOK
  <2>3. CASE p \in rows \cup broken
    BY <1>1, <2>1, <2>2, <2>3 DEF AccountsOK
  <2>4. CASE p \notin rows \cup broken
    <3>1. fw.active[p] = "none" /\ fw.file[p] = "none" /\ (torn \/ RulesOf(fw, p) = {})
      BY <1>6, <2>4 DEF Gone
    <3>2. ~torn => \A r \in fw.rules : r[2] # p
      BY <3>1 DEF RulesOf
    <3>3. ~torn => \A r \in fw.rules : Accounted(r[2])'
      BY <2>1, <2>2, <3>2
    <3>4. \A q \in Ports : fw.active[q] # "none" \/ fw.file[q] # "none" => Accounted(q)'
      BY <2>1, <2>2, <3>1
    <3> QED BY <1>1, <3>3, <3>4 DEF AccountsOK
  <2> QED BY <2>3, <2>4
<1>13. SessionOK'
  <2> SUFFICES ASSUME Reported, Alone, "db" \notin faults, NEW q \in session
               PROVE  Blocked(q) /\ Tracked(q)
    BY <1>1 DEF SessionOK, Reported, Alone, Blocked, Tracked
  <2> QED BY <1>1, <1>2 DEF Inv, SessionOK
<1>14. TrailOK'
  <2> SUFFICES ASSUME Reported, Alone, NEW q \in Ports \ broken PROVE Told(q)'
    BY <1>1, <1>7 DEF TrailOK
  <2>1. CASE q # p
    <3>1. Told(q) /\ trail'[q] = trail[q]
      BY <1>2, <1>3, <1>4, <2>1 DEF Inv, TrailOK
    <3> QED BY <1>1, <3>1 DEF Told, Blocked, Tracked, Gone, RulesOf
  <2>2. CASE q = p
    <3>1. trail'[q] = entry
      BY <1>2, <1>4, <2>2
    <3>2. /\ entry = "block" => p \in rows /\ Blocked(p) /\ Tracked(p)
          /\ entry = "unblock" => p \notin rows /\ Gone(p)
      BY <1>2, <1>6, <2>2 DEF Entry, Blocked
    <3> QED BY <1>1, <2>2, <3>1, <3>2 DEF Told, Blocked, Tracked, Gone, RulesOf
  <2> QED BY <2>1, <2>2
<1>15. TornOK'
  BY <1>1 DEF Inv, TornOK, BridgeDone, Alone
<1> QED BY <1>8, <1>9, <1>10, <1>11, <1>12, <1>13, <1>14, <1>15 DEF Inv

(* A shutdown takes rules, dict and file away, or, killed, some of them.   *)
LEMMA ShutdownKeeps ==
    ASSUME Inv, Shutdown PROVE Inv'
<1>1. /\ platform \in {"linux", "windows", "darwin"}
      /\ fw \in Firewall /\ call = Idle /\ call.step = "bridge"
  BY PlatformKnown DEF Inv, TypeOK, Shutdown, Idle
<1>2. /\ up' = FALSE /\ reply' = NoReply /\ call' = call
      /\ faults' = faults /\ platform' = platform /\ starts' = starts
      /\ rows' = rows /\ session' = session /\ trail' = trail /\ broken' = broken
  BY DEF Shutdown
<1>3. PICK r \in CleanupResults(fw) :
          fw' = ProcessGone(r.fw) /\ torn' = (platform = "darwin" /\ ~r.whole)
  BY DEF Shutdown
<1>4. CleansUp(fw, r)
  BY <1>1, CleanupResult
<1>5. /\ fw' \in Firewall /\ torn' \in BOOLEAN
      /\ fw'.rules \subseteq fw.rules /\ fw'.active = NoRules /\ fw'.file \in {fw.file, NoRules}
      /\ platform = "darwin" /\ ~torn' => fw'.rules = {} /\ fw'.file = NoRules
      /\ platform # "darwin" => torn' = FALSE
  BY <1>3, <1>4, GoneFields DEF CleansUp
<1>6. platform # "darwin" =>
          fw.file = NoRules /\ torn = FALSE /\ \A q \in fw.rules : q[1] \in Dirs(platform)
  BY DEF Inv, BridgeOK
<1>7. TypeOK'
  BY <1>2, <1>5 DEF Inv, TypeOK, Reply, NoReply, Protos
<1>8. CallOK' /\ ProgressOK' /\ AnswersAreTrue'
  BY <1>1, <1>2 DEF CallOK, ProgressOK, BridgeDone, AnswersAreTrue, NoReply
<1>9. BridgeOK'
  <2>1. CASE platform # "darwin"
    BY <1>2, <1>5, <1>6, <2>1 DEF BridgeOK
  <2>2. CASE platform = "darwin"
    BY <1>2, <1>5, <2>2, NothingLoaded DEF BridgeOK, NoRules
  <2> QED BY <2>1, <2>2
<1>10. AccountsOK'
  <2>1. \A q : Accounted(q) => Accounted(q)'
    BY <1>2 DEF Accounted
  <2>2. ~torn' => \A q \in fw'.rules : Accounted(q[2])
    BY <1>5, <1>6 DEF Inv, AccountsOK
  <2>3. \A q \in Ports : fw'.active[q] # "none" \/ fw'.file[q] # "none" => Accounted(q)
    BY <1>5 DEF Inv, AccountsOK, NoRules
  <2> QED BY <2>1, <2>2, <2>3 DEF AccountsOK
<1>11. SessionOK' /\ TrailOK' /\ TornOK'
  BY <1>2 DEF SessionOK, TrailOK, TornOK
<1> QED BY <1>7, <1>8, <1>9, <1>10, <1>11 DEF Inv

(* A kill leaves rules and file as they are between two steps of a call;   *)
(* within the first step of macOS it leaves a part of what is written.     *)
LEMMA CrashKeeps ==
    ASSUME Inv, Crash PROVE Inv'
<1>1. /\ up' = FALSE /\ reply' = NoReply /\ call' = Idle /\ call'.step = "bridge"
      /\ broken' = IF call # Idle /\ call.step # "audit" THEN broken \cup {call.port} ELSE broken
      /\ torn' = (torn \/ (platform = "darwin" /\ call # Idle /\ call.step \in {"bridge", "command"}))
      /\ faults' = faults /\ platform' = platform /\ starts' = starts
      /\ rows' = rows /\ session' = session /\ trail' = trail
  BY DEF Crash, Idle
<1>2. PICK g \in CutOff : fw' = ProcessGone(g)
  BY DEF Crash
<1>3. /\ TypeOK /\ fw \in Firewall /\ call \in Call /\ torn \in BOOLEAN
      /\ call # Idle => call.port \in Ports
      /\ call = Idle => call.step = "bridge"
  BY DEF Inv, TypeOK, CallOK, Idle
<1>4. /\ g \in Firewall
      /\ g.rules = fw.rules
      /\ \A q \in Ports : g.file[q] # "none" =>
             fw.file[q] # "none" \/ fw.active[q] # "none" \/ (call # Idle /\ q = call.port)
      /\ g.file = fw.file \/ (platform = "darwin" /\ call # Idle /\ call.step = "bridge")
  BY <1>3, CutOffResult
<1>5. /\ fw' \in Firewall
      /\ fw'.rules = fw.rules /\ fw'.active = NoRules /\ fw'.file = g.file
  BY <1>2, <1>4, GoneFields
<1>6. TypeOK'
  <2>1. reply' \in Reply /\ call' \in Call
    BY <1>1 DEF Reply, NoReply, Call, Idle, Protos
  <2>2. torn' \in BOOLEAN /\ broken' \subseteq Ports
    BY <1>1, <1>3 DEF TypeOK
  <2> QED BY <1>1, <1>5, <2>1, <2>2 DEF Inv, TypeOK
<1>7. CallOK' /\ ProgressOK' /\ AnswersAreTrue'
  BY <1>1 DEF CallOK, ProgressOK, BridgeDone, AnswersAreTrue, NoReply
<1>8. BridgeOK'
  <2>1. CASE platform # "darwin"
    BY <1>1, <1>4, <1>5, <2>1 DEF Inv, BridgeOK
  <2>2. CASE platform = "darwin"
    <3>1. ~torn' => fw.rules = Loaded(fw.file) /\ g.file = fw.file
      BY <1>1, <1>3, <1>4, <2>2 DEF Inv, BridgeOK
    <3>2. \A q \in Ports : fw'.active[q] = "none"
      BY <1>5 DEF NoRules
    <3> QED BY <1>1, <1>5, <2>2, <3>1, <3>2 DEF BridgeOK
  <2> QED BY <2>1, <2>2
<1>9. AccountsOK'
  <2>1. \A q : Accounted(q) => Accounted(q)' \/ (call # Idle /\ call.step = "audit" /\ q = call.port)
    BY <1>1 DEF Accounted
  <2>2. call # Idle => Accounted(call.port)
    BY DEF Accounted
  <2>3. /\ ~torn => \A r \in fw.rules : Accounted(r[2])
        /\ \A q \in Ports : fw.active[q] # "none" \/ fw.file[q] # "none" => Accounted(q)
    BY DEF Inv, AccountsOK
  <2>4. \A q \in Ports : g.file[q] # "none" => Accounted(q)
    BY <1>4, <2>2, <2>3
  <2>5. \A q \in Ports : fw'.active[q] = "none"
    BY <1>5 DEF NoRules
  <2>6. CASE call # Idle /\ call.step = "audit"
    <3>1. PICK p \in Ports : p = call.port
      BY <1>3, <2>6
    <3>2. p \in rows \cup broken \/ Gone(p)
      BY <2>6, <3>1 DEF Inv, ProgressOK, BridgeDone
    <3>3. g.file = fw.file /\ torn' = torn /\ broken' = broken
      BY <1>1, <1>3, <1>4, <2>6
    <3>4. CASE p \in rows \cup broken
      <4>1. \A q : Accounted(q) => Accounted(q)'
        BY <1>1, <2>1, <3>1, <3>3, <3>4 DEF Accounted
      <4> QED BY <1>5, <2>3, <2>4, <2>5, <3>3, <4>1 DEF AccountsOK
    <3>5. CASE Gone(p)
      <4>1. fw.file[p] = "none" /\ (~torn => \A r \in fw.rules : r[2] # p)
        BY <3>5 DEF Gone, RulesOf
      <4>2. ~torn => \A r \in fw.rules : Accounted(r[2])'
        BY <2>1, <2>3, <3>1, <4>1
      <4>3. \A q \in Ports : fw'.file[q] # "none" => Accounted(q)'
        BY <1>5, <2>1, <2>4, <3>1, <3>3, <4>1
      <4> QED BY <1>5, <2>5, <3>3, <4>2, <4>3 DEF AccountsOK
    <3> QED BY <3>2, <3>4, <3>5
  <2>7. CASE ~(call # Idle /\ call.step = "audit")
    <3>1. \A q : Accounted(q) => Accounted(q)'
      BY <2>1, <2>7
    <3>2. ~torn' => ~torn
      BY <1>1, <1>3
    <3> QED BY <1>5, <2>3, <2>4, <2>5, <3>1, <3>2 DEF AccountsOK
  <2> QED BY <2>6, <2>7
<1>10. SessionOK' /\ TrailOK' /\ TornOK'
  BY <1>1 DEF SessionOK, TrailOK, TornOK
<1> QED BY <1>6, <1>7, <1>8, <1>9, <1>10 DEF Inv

(* A second instance only takes rules away, and leaves the dict.           *)
LEMMA SecondInstanceKeeps ==
    ASSUME Inv, SecondInstance PROVE Inv'
<1>1. /\ "second" \in faults /\ up
      /\ faults' = faults /\ platform' = platform /\ up' = up /\ starts' = starts
      /\ rows' = rows /\ call' = call /\ reply' = reply /\ session' = session
      /\ trail' = trail /\ broken' = broken
  BY DEF SecondInstance
<1>2. /\ platform \in {"linux", "windows", "darwin"} /\ fw \in Firewall
  BY PlatformKnown DEF Inv, TypeOK
<1>3. PICK g : g = ProcessGone(fw)
  OBVIOUS
<1>4. g \in Firewall /\ g.rules = fw.rules /\ g.file = fw.file
  BY <1>2, <1>3, GoneFields
<1>5. PICK r \in CleanupResults(g) :
          /\ fw' = [r.fw EXCEPT !.active = fw.active]
          /\ torn' = (platform = "darwin" /\ ~r.whole)
  BY <1>3 DEF SecondInstance
<1>6. CleansUp(g, r)
  BY <1>2, <1>4, CleanupResult
<1>7. /\ fw' \in Firewall
      /\ fw'.rules = r.fw.rules /\ fw'.active = fw.active /\ fw'.file = r.fw.file
  BY <1>2, <1>5, <1>6 DEF Firewall, CleansUp
<1>8. /\ fw'.rules \subseteq fw.rules /\ fw'.file \in {fw.file, NoRules} /\ torn' \in BOOLEAN
      /\ platform = "darwin" /\ ~torn' => fw'.rules = {} /\ fw'.file = NoRules
      /\ platform # "darwin" => torn' = FALSE /\ torn = FALSE /\ fw.file = NoRules
  BY <1>4, <1>5, <1>6, <1>7 DEF CleansUp, Inv, BridgeOK
<1>9. \A p : RulesOf(fw', p) \subseteq RulesOf(fw, p)
  BY <1>8 DEF RulesOf
<1>10. ~torn' /\ platform = "darwin" => \A p : RulesOf(fw', p) = {}
  BY <1>8 DEF RulesOf
<1>11. TypeOK' /\ CallOK'
  BY <1>1, <1>7, <1>8 DEF Inv, TypeOK, CallOK
<1>12. BridgeOK'
  <2>1. CASE platform # "darwin"
    BY <1>1, <1>7, <1>8, <2>1 DEF Inv, BridgeOK
  <2>2. CASE platform = "darwin"
    BY <1>1, <1>7, <1>8, <2>2, NothingLoaded DEF Inv, BridgeOK, Alone
  <2> QED BY <2>1, <2>2
<1>13. Alone' = FALSE /\ Alone = FALSE
  BY <1>1 DEF Alone
<1>14. ProgressOK'
  <2>1. call.step \in {"command", "row", "audit"} => call.port \in Ports
    BY DEF Inv, CallOK, Idle
  <2>2. call.port \in Ports /\ Gone(call.port) => Gone(call.port)'
    <3> SUFFICES ASSUME NEW p \in Ports, Gone(p) PROVE Gone(p)'
      BY <1>1
    <3>1. fw'.active[p] = "none" /\ fw'.file[p] = "none"
      BY <1>7, <1>8 DEF Gone, NoRules
    <3>2. torn' \/ RulesOf(fw', p) = {}
      BY <1>8, <1>9, <1>10 DEF Gone
    <3> QED BY <3>1, <3>2 DEF Gone
  <2>3. call.port \in Ports /\ HalfGone(fw, call.port) => HalfGone(fw, call.port)'
    BY <1>1, <1>7, <1>8 DEF HalfGone, RulesOf, NoRules
  <2> QED BY <1>1, <1>13, <2>1, <2>2, <2>3 DEF Inv, ProgressOK, BridgeDone
<1>15. AnswersAreTrue'
  <2>1. ~torn' /\ (~torn => RulesOf(fw, reply.port) = {}) => RulesOf(fw', reply.port) = {}
    BY <1>8, <1>9, <1>10
  <2>2. ~torn' => torn = FALSE \/ RulesOf(fw', reply.port) = {}
    BY <1>8, <1>10
  <2> QED BY <1>1, <1>13, <2>1, <2>2 DEF Inv, AnswersAreTrue
<1>16. AccountsOK'
  <2>1. \A q : Accounted(q) => Accounted(q)'
    BY <1>1 DEF Accounted
  <2>2. ~torn' => \A q \in fw'.rules : Accounted(q[2])
    BY <1>8 DEF Inv, AccountsOK
  <2>3. \A q \in Ports : fw'.active[q] # "none" \/ fw'.file[q] # "none" => Accounted(q)
    BY <1>7, <1>8 DEF Inv, AccountsOK, NoRules
  <2> QED BY <2>1, <2>2, <2>3 DEF AccountsOK
<1>17. SessionOK' /\ TrailOK' /\ TornOK'
  BY <1>13 DEF SessionOK, TrailOK, TornOK
<1> QED BY <1>11, <1>12, <1>14, <1>15, <1>16, <1>17 DEF Inv

(* A reboot finds the process down, with an empty dict.                    *)
LEMMA RebootKeeps ==
    ASSUME Inv, Reboot PROVE Inv'
<1>1. /\ up = FALSE /\ torn' = FALSE
      /\ faults' = faults /\ platform' = platform /\ up' = up /\ starts' = starts
      /\ rows' = rows /\ call' = call /\ reply' = reply /\ session' = session
      /\ trail' = trail /\ broken' = broken
  BY DEF Reboot, Inv, TypeOK
<1>2. /\ fw \in Firewall /\ fw.active = NoRules
      /\ call = Idle /\ call.step = "bridge" /\ reply.status # "success"
  BY <1>1 DEF Inv, TypeOK, BridgeOK, CallOK, Idle
<1>3. /\ fw' \in Firewall /\ fw'.active = NoRules
      /\ \/ platform = "windows" /\ fw' = fw /\ torn = FALSE
         \/ platform # "windows" /\ fw'.rules = {} /\ fw'.file = NoRules
  <2>1. CASE platform = "windows"
    BY <1>2, <2>1 DEF Reboot, MachineRestarted, Inv, BridgeOK
  <2>2. CASE platform # "windows"
    <3>1. fw' = [fw EXCEPT !.rules = {}, !.file = NoRules]
      BY <2>2 DEF Reboot, MachineRestarted
    <3> QED BY <1>2, <2>2, <3>1, NothingLoaded DEF Firewall
  <2> QED BY <2>1, <2>2
<1>4. TypeOK'
  BY <1>1, <1>3 DEF Inv, TypeOK
<1>5. CallOK' /\ ProgressOK' /\ AnswersAreTrue'
  BY <1>1, <1>2 DEF CallOK, ProgressOK, BridgeDone, AnswersAreTrue
<1>6. BridgeOK'
  <2>1. CASE platform = "windows"
    BY <1>1, <1>3, <2>1 DEF Inv, BridgeOK
  <2>2. CASE platform # "windows"
    BY <1>1, <1>3, <2>2, NothingLoaded DEF BridgeOK, NoRules
  <2> QED BY <2>1, <2>2
<1>7. AccountsOK'
  <2>1. \A q : Accounted(q) => Accounted(q)'
    BY <1>1 DEF Accounted
  <2> QED BY <1>1, <1>2, <1>3, <2>1 DEF Inv, AccountsOK, NoRules
<1>8. SessionOK' /\ TrailOK' /\ TornOK'
  BY <1>1 DEF SessionOK, TrailOK, TornOK
<1> QED BY <1>4, <1>5, <1>6, <1>7, <1>8 DEF Inv

(* A process that starts has written no row and no entry yet.              *)
LEMMA StartKeeps ==
    ASSUME Inv, Start PROVE Inv'
<1>1. /\ ~up /\ up' = TRUE /\ starts' = starts + 1 /\ starts < MaxStarts
      /\ session' = {} /\ trail' = NoEntries
      /\ faults' = faults /\ platform' = platform /\ fw' = fw /\ rows' = rows
      /\ call' = call /\ reply' = reply /\ broken' = broken /\ torn' = torn
  BY DEF Start
<1>2. call = Idle /\ call.step = "bridge" /\ reply.status # "success"
  BY <1>1 DEF Inv, CallOK, Idle
<1>3. TypeOK'
  BY <1>1, EnforcementAssumption DEF Inv, TypeOK, NoEntries
<1>4. CallOK' /\ ProgressOK' /\ AnswersAreTrue'
  BY <1>1, <1>2 DEF CallOK, ProgressOK, BridgeDone, AnswersAreTrue
<1>5. BridgeOK'
  BY <1>1 DEF Inv, BridgeOK, Alone
<1>6. AccountsOK'
  BY <1>1 DEF Inv, AccountsOK, Accounted
<1>7. SessionOK' /\ TrailOK' /\ TornOK'
  BY <1>1, <1>2 DEF SessionOK, TrailOK, Told, NoEntries, TornOK, BridgeDone
<1> QED BY <1>3, <1>4, <1>5, <1>6, <1>7 DEF Inv

LEMMA StepKeeps == Inv /\ [Next]_vars => Inv'
<1> SUFFICES ASSUME Inv, [Next]_vars PROVE Inv'
  OBVIOUS
<1>1. ASSUME NEW kind \in Kinds, NEW p \in Ports, NEW proto \in Protos, Begin(kind, p, proto)
      PROVE  Inv'
  BY <1>1, BeginKeeps
<1>2. CASE FirstCommand
  BY <1>2, CommandKeeps, DarwinFirstKeeps
<1>3. CASE SecondCommand
  BY <1>3, CommandKeeps, DarwinSecondKeeps
<1>4. CASE WriteRow
  BY <1>4, WriteRowStepKeeps
<1>5. CASE WriteRowFails
  BY <1>5, WriteRowFailsKeeps
<1>6. CASE WriteAudit
  BY <1>6, WriteAuditKeeps
<1>7. CASE Shutdown
  BY <1>7, ShutdownKeeps
<1>8. CASE Crash
  BY <1>8, CrashKeeps
<1>9. CASE SecondInstance
  BY <1>9, SecondInstanceKeeps
<1>10. CASE Reboot
  BY <1>10, RebootKeeps
<1>11. CASE Start
  BY <1>11, StartKeeps
<1>12. CASE UNCHANGED vars
  <2>1. TypeOK' /\ CallOK' /\ BridgeOK'
    BY <1>12 DEF vars, Inv, TypeOK, CallOK, BridgeOK, Alone
  <2>2. ProgressOK' /\ AnswersAreTrue'
    BY <1>12 DEF vars, Inv, ProgressOK, BridgeDone, AnswersAreTrue, HalfBlocked, HalfGone, Gone,
                 Tracked, Enforced, Reported, Alone, RulesOf
  <2>3. AccountsOK' /\ SessionOK'
    BY <1>12 DEF vars, Inv, AccountsOK, Accounted, SessionOK, Blocked, Tracked, Reported, Alone
  <2>4. TrailOK' /\ TornOK'
    BY <1>12 DEF vars, Inv, TrailOK, Told, Gone, RulesOf, Blocked, Tracked, TornOK, BridgeDone,
                 Reported, Alone
  <2> QED BY <2>1, <2>2, <2>3, <2>4 DEF Inv
<1> QED BY <1>1, <1>2, <1>3, <1>4, <1>5, <1>6, <1>7, <1>8, <1>9, <1>10, <1>11, <1>12 DEF Next

-----------------------------------------------------------------------------
(* The theorems.                                                           *)

(* Inv holds in every reachable state, also when the process is killed     *)
(* between two commands of a bridge: the anchor of macOS has what its file *)
(* says unless the last reload failed or was cut off, the second step of a *)
(* bridge finds what the first has done, and whatever rules there are, and *)
(* whatever dict and file hold, is accounted for.                          *)
THEOREM Invariance == Spec => []Inv
<1>1. Inv /\ [Next]_vars => Inv'
  BY StepKeeps
<1> QED BY Initially, <1>1, PTL DEF Spec

(* The state has its type. *)
THEOREM TypeCorrect == Spec => []TypeOK
BY Invariance, PTL DEF Inv

(* A row this process wrote stands for rules that are in force: neither    *)
(* failing commands nor other calls open a port behind the table's back.   *)
THEOREM RowsAreInForce == Spec => []RecordedIsBlocked
<1>1. Inv => RecordedIsBlocked
  BY DEF Inv, SessionOK, RecordedIsBlocked, Quiet, Idle
<1> QED BY Invariance, <1>1, PTL

(* Between calls every rule in force has a row, or belongs to a port whose *)
(* last call failed or was killed part way, whatever failed and however    *)
(* often the process was killed; macOS excepted while its rules may not be *)
(* those of the file.                                                      *)
THEOREM NoRuleIsForgotten == Spec => []RulesAreAccounted
<1>1. ASSUME Inv, Quiet, ~torn, NEW r \in fw.rules PROVE r[2] \in rows \cup broken
  <2>1. Accounted(r[2])
    BY <1>1 DEF Inv, AccountsOK
  <2> QED BY <1>1, <2>1 DEF Accounted, Quiet
<1>2. Inv => RulesAreAccounted
  BY <1>1 DEF RulesAreAccounted
<1> QED BY Invariance, <1>2, PTL

(* What the trail of this process says last of a port is what table and    *)
(* firewall say, unless that call failed part way.                         *)
THEOREM EntriesAreTrue == Spec => []TrailTellsRules
<1>1. ASSUME Inv, Quiet, Alone, Reported, NEW p \in Ports \ broken
      PROVE  /\ trail[p] = "block" => p \in rows /\ Blocked(p)
             /\ trail[p] = "unblock" => p \notin rows /\ (RulesOf(fw, p) = {} \/ torn)
  <2>1. Told(p)
    BY <1>1 DEF Inv, TrailOK, Quiet
  <2> QED BY <2>1 DEF Told, Gone
<1>2. Inv => TrailTellsRules
  BY <1>1 DEF TrailTellsRules
<1> QED BY Invariance, <1>2, PTL

(* What a call that answers success says is so.                            *)
THEOREM SuccessIsTrue == Spec => []AnswersAreTrue
<1>1. Inv => AnswersAreTrue
  BY DEF Inv
<1> QED BY Invariance, <1>1, PTL

-----------------------------------------------------------------------------
(* The list of blocked ports.                                              *)

(* What this process has blocked is blocked, until an unblock takes its    *)
(* rules and then its row; and the bridge has done what it was called for, *)
(* or found nothing to do after a kill.                                    *)
InForce ==
    /\ up => \A p \in session :
                 \/ p \in BlockedPorts
                 \/ call.kind = "unblock" /\ call.step \in {"command", "row"} /\ call.port = p
    /\ BridgeDone /\ call.kind # "unblock" => call.port \in BlockedPorts
    /\ BridgeDone /\ call.kind = "unblock" => call.port \notin BlockedPorts \/ torn

(* A call that blocks has written its row when its entry is due. *)
RowWritten == call.step = "audit" /\ call.kind # "unblock" => call.port \in session

(* A file that is in force names the ports that are blocked. *)
FileOK ==
    /\ ~torn /\ call.step # "command" => Filed \subseteq BlockedPorts
    /\ \A p \in Ports : fw.active[p] # "none" => p \in Filed

ListInv == Inv /\ InForce /\ RowWritten /\ FileOK

(* A port that is dropped has a rule. *)
LEMMA DroppedIsBlocked ==
    ASSUME TypeOK, NEW p \in Ports, NEW proto, Enforced(platform, fw, p, proto)
    PROVE  p \in BlockedPorts
<1>1. PICK dir : dir \in Dirs(platform)
  BY PlatformKnown DEF Dirs
<1>2. <<dir, p, proto>> \in fw.rules
  BY <1>1 DEF Enforced, Drop
<1> QED BY <1>2 DEF BlockedPorts, RulesOf

LEMMA InvInForce == ASSUME Inv, faults = {} PROVE InForce /\ FileOK
<1>1. Reported /\ Alone /\ "db" \notin faults /\ "os" \notin faults
  BY DEF Reported, Alone
<1>2. session \subseteq Ports /\ fw.file \in RuleTable
  BY DEF Inv, TypeOK, Firewall
<1>3. up => \A p \in session :
          \/ p \in BlockedPorts
          \/ call.kind = "unblock" /\ call.step \in {"command", "row"} /\ call.port = p
  <2> SUFFICES ASSUME up, NEW p \in session, Blocked(p) PROVE p \in BlockedPorts
    BY <1>1 DEF Inv, SessionOK
  <2> QED BY <1>2, DroppedIsBlocked DEF Blocked, Inv
<1>4. ASSUME BridgeDone PROVE call.port \in Ports /\ call.port \notin broken
  BY <1>1, <1>4 DEF Inv, CallOK, BridgeDone, Idle
<1>5. BridgeDone /\ call.kind # "unblock" => call.port \in BlockedPorts
  BY <1>1, <1>4, DroppedIsBlocked DEF Inv, ProgressOK
<1>6. BridgeDone /\ call.kind = "unblock" => call.port \notin BlockedPorts \/ torn
  BY <1>1, <1>4 DEF Inv, ProgressOK, Gone, BlockedPorts
<1>7. CASE platform = "darwin"
  <2>1. ~torn /\ call.step # "command" => fw.rules = Loaded(fw.file)
    BY <1>7 DEF Inv, BridgeOK
  <2>2. ~torn /\ call.step # "command" => Filed \subseteq BlockedPorts
    BY <1>2, <2>1, LoadedPorts DEF Filed, BlockedPorts, RulesOf
  <2>3. \A p \in Ports : fw.active[p] # "none" => p \in Filed
    BY <1>1, <1>7 DEF Inv, BridgeOK, Filed
  <2> QED BY <1>3, <1>5, <1>6, <2>2, <2>3 DEF InForce, FileOK
<1>8. CASE platform # "darwin"
  <2>1. Filed = {} /\ \A p \in Ports : fw.active[p] = "none"
    BY <1>8 DEF Inv, BridgeOK, Filed, NoRules
  <2> QED BY <1>3, <1>5, <1>6, <2>1 DEF InForce, FileOK
<1> QED BY <1>7, <1>8

(* The steps of the bridge, as the list sees them. *)
OtherPorts(ports, p) == ports \ {p}

LEMMA FirstEffect ==
    ASSUME ListInv, faults = {}, FirstCommand
    PROVE  /\ call # Idle /\ call.step = "bridge" /\ torn' = torn
           /\ call'.kind = call.kind /\ call'.port = call.port /\ call'.step \in {"command", "row"}
           /\ up' = up /\ rows' = rows /\ session' = session
           /\ OtherPorts(BlockedPorts', call.port) = OtherPorts(BlockedPorts, call.port)
           /\ OtherPorts(Filed', call.port) \subseteq Filed
           /\ call'.step = "row" => BlockedPorts' = BlockedPorts /\ Filed' = Filed
<1>1. /\ call # Idle /\ call.step = "bridge" /\ torn' = torn /\ torn \in BOOLEAN
      /\ up = TRUE
  BY DEF FirstCommand, ListInv, Inv, CallOK, TypeOK
<1>2. PICK p \in Ports : p = call.port
  BY <1>1 DEF ListInv, Inv, CallOK
<1>3. PICK r : /\ Proceed(r) /\ IsResult(r)
               /\ \A q \in Ports : q # p => (RulesOf(r.fw, q) = {} <=> RulesOf(fw, q) = {})
               /\ \A q \in Ports : q # p /\ r.fw.file[q] # "none" => fw.file[q] # "none"
               /\ r.next = "returned" => r.fw.rules = fw.rules /\ r.fw.file = fw.file
  <2>1. CASE platform = "darwin"
    <3>1. PICK r : Proceed(r) /\ Prepares(r)
      BY <2>1, DarwinFirstResult DEF ListInv
    <3>2. IsResult(r) /\ r.fw.rules = fw.rules /\ (r.next = "returned" => r.fw.file = fw.file)
      BY <3>1 DEF Prepares
    <3>3. \A q \in Ports : q # p /\ r.fw.file[q] # "none" => fw.file[q] # "none"
      BY <1>2, <3>1 DEF Prepares, ListInv, FileOK, Filed
    <3> QED BY <3>1, <3>2, <3>3 DEF RulesOf
  <2>2. CASE platform # "darwin"
    <3>1. PICK r : CommandDone(r)
      BY <2>2, CommandResult DEF ListInv
    <3>2. /\ Proceed(r) /\ IsResult(r)
          /\ r.next = "returned" => r.fw = fw
          /\ r.fw.file = fw.file
      BY <1>1, <3>1 DEF CommandDone, Blocks, Unblocks, OnlyAdds, OnlyRemoves
    <3>3. CASE call.kind # "unblock"
      <4>1. fw.rules \subseteq r.fw.rules
            /\ r.fw.rules \subseteq fw.rules \cup Drop(platform, p, call.proto)
        BY <1>2, <3>1, <3>3 DEF CommandDone, Blocks, OnlyAdds
      <4>2. \A q \in Drop(platform, p, call.proto) : q[2] = p
        BY DEF Drop
      <4>3. \A q \in Ports : q # p => (RulesOf(r.fw, q) = {} <=> RulesOf(fw, q) = {})
        BY <4>1, <4>2 DEF RulesOf
      <4> QED BY <3>2, <4>3
    <3>4. CASE call.kind = "unblock"
      <4>1. r.fw.rules \subseteq fw.rules /\ \A q \in fw.rules : q[2] # p => q \in r.fw.rules
        BY <1>2, <3>1, <3>4 DEF CommandDone, Unblocks, OnlyRemoves
      <4>2. \A q \in Ports : q # p => (RulesOf(r.fw, q) = {} <=> RulesOf(fw, q) = {})
        BY <4>1 DEF RulesOf
      <4> QED BY <3>2, <4>2
    <3> QED BY <3>3, <3>4
  <2> QED BY <2>1, <2>2
<1>4. r.next # "raised" /\ r.next \in {"next", "returned", "raised"}
  BY <1>3 DEF IsResult
<1>5. Proceeds(r)
  BY <1>1, <1>3, ProceedResult DEF ListInv
<1>6. /\ fw' = r.fw /\ up' = TRUE /\ rows' = rows /\ session' = session
      /\ call'.kind = call.kind /\ call'.port = call.port
      /\ r.next = "next" => call'.step = "command"
      /\ r.next = "returned" => call'.step = "row"
  BY <1>4, <1>5 DEF Proceeds
<1>7. OtherPorts(BlockedPorts', p) = OtherPorts(BlockedPorts, p)
  BY <1>3, <1>6 DEF OtherPorts, BlockedPorts
<1>8. OtherPorts(Filed', p) \subseteq Filed
  BY <1>3, <1>6 DEF OtherPorts, Filed
<1>9. call'.step = "row" => BlockedPorts' = BlockedPorts /\ Filed' = Filed
  BY <1>3, <1>4, <1>6 DEF BlockedPorts, Filed, RulesOf
<1> QED BY <1>1, <1>2, <1>4, <1>6, <1>7, <1>8, <1>9

LEMMA SecondEffect ==
    ASSUME ListInv, faults = {}, SecondCommand
    PROVE  /\ call # Idle /\ call.step = "command" /\ torn' = FALSE
           /\ call'.kind = call.kind /\ call'.port = call.port /\ call'.step = "row"
           /\ up' = up /\ rows' = rows /\ session' = session
           /\ OtherPorts(BlockedPorts', call.port) \subseteq BlockedPorts \cup Filed
<1>1. /\ call # Idle /\ call.step = "command" /\ up = TRUE /\ fw.file \in RuleTable
  BY DEF SecondCommand, Idle, ListInv, Inv, CallOK, TypeOK, Firewall
<1>2. PICK p \in Ports : p = call.port
  BY <1>1 DEF ListInv, Inv, CallOK
<1>3. PICK r : /\ Proceed(r) /\ IsResult(r) /\ torn' = FALSE
               /\ r.next # "next"
               /\ \A q \in Ports : q # p /\ RulesOf(r.fw, q) # {} =>
                      RulesOf(fw, q) # {} \/ fw.file[q] # "none"
  <2>1. CASE platform = "darwin"
    <3>1. PICK r : Reloads(r)
      BY <2>1, DarwinSecondResult DEF ListInv
    <3>2. /\ Proceed(r) /\ IsResult(r) /\ torn' = (~r.whole)
          /\ r.next # "next"
          /\ r.fw.rules \in {fw.rules, Loaded(fw.file)}
      BY <3>1 DEF Reloads, Loads
    <3>3. torn' = FALSE
      BY <3>2 DEF IsResult
    <3>4. ASSUME NEW q \in Ports, RulesOf(r.fw, q) # {}
          PROVE  RulesOf(fw, q) # {} \/ fw.file[q] # "none"
      BY <1>1, <3>2, <3>4, LoadedPorts DEF RulesOf
    <3> QED BY <3>2, <3>3, <3>4
  <2>2. CASE platform # "darwin"
    <3>1. PICK r : CommandDone(r)
      BY <2>2, CommandResult DEF ListInv
    <3>2. Proceed(r) /\ IsResult(r) /\ torn' = FALSE /\ r.next # "next"
      BY <1>1, <3>1 DEF CommandDone, Blocks, Unblocks
    <3>3. CASE call.kind # "unblock"
      <4>1. r.fw.rules \subseteq fw.rules \cup Drop(platform, p, call.proto)
        BY <1>2, <3>1, <3>3 DEF CommandDone, Blocks, OnlyAdds
      <4>2. \A q \in Drop(platform, p, call.proto) : q[2] = p
        BY DEF Drop
      <4>3. \A q \in Ports : q # p /\ RulesOf(r.fw, q) # {} => RulesOf(fw, q) # {}
        BY <4>1, <4>2 DEF RulesOf
      <4> QED BY <3>2, <4>3
    <3>4. CASE call.kind = "unblock"
      <4>1. r.fw.rules \subseteq fw.rules
        BY <3>1, <3>4 DEF CommandDone, Unblocks, OnlyRemoves
      <4> QED BY <3>2, <4>1 DEF RulesOf
    <3> QED BY <3>3, <3>4
  <2> QED BY <2>1, <2>2
<1>4. r.next = "returned"
  BY <1>3 DEF IsResult
<1>5. Proceeds(r)
  BY <1>1, <1>3, ProceedResult DEF ListInv
<1>6. /\ fw' = r.fw /\ up' = TRUE /\ rows' = rows /\ session' = session
      /\ call'.kind = call.kind /\ call'.port = call.port /\ call'.step = "row"
  BY <1>4, <1>5 DEF Proceeds
<1>7. OtherPorts(BlockedPorts', p) \subseteq BlockedPorts \cup Filed
  BY <1>3, <1>6 DEF OtherPorts, BlockedPorts, Filed
<1> QED BY <1>1, <1>2, <1>3, <1>6, <1>7

(* What a call is for, and at which port. *)
LEMMA WishKnown ==
    ASSUME Inv, call # Idle
    PROVE  /\ up = TRUE
           /\ \E p \in Ports, wish \in {"block", "unblock"} :
                  /\ p = call.port /\ wish = Wish
                  /\ wish = "block" <=> call.kind # "unblock"
<1>1. call.port \in Ports /\ call.kind \in {"block", "unblock", "policy"} /\ up = TRUE
  BY DEF Inv, CallOK, TypeOK
<1>2. Wish \in {"block", "unblock"} /\ (Wish = "block" <=> call.kind # "unblock")
  BY <1>1 DEF Wish
<1> QED BY <1>1, <1>2

(* The first step of the bridge takes its port in hand, or is all there is *)
(* to do.                                                                  *)
LEMMA FirstActs ==
    ASSUME ListInv, ListInv', faults = {}, FirstCommand
    PROVE  List!Next
<1>1. /\ call # Idle /\ call.step = "bridge" /\ torn' = torn
      /\ call'.kind = call.kind /\ call'.port = call.port /\ call'.step \in {"command", "row"}
      /\ up' = up /\ rows' = rows /\ session' = session
      /\ OtherPorts(BlockedPorts', call.port) = OtherPorts(BlockedPorts, call.port)
      /\ OtherPorts(Filed', call.port) \subseteq Filed
      /\ call'.step = "row" => BlockedPorts' = BlockedPorts /\ Filed' = Filed
  BY FirstEffect
<1>2. up = TRUE
  BY <1>1, WishKnown DEF ListInv
<1>3. PICK p \in Ports, wish \in {"block", "unblock"} :
          p = call.port /\ wish = Wish /\ (wish = "block" <=> call.kind # "unblock")
  BY <1>1, WishKnown DEF ListInv
<1>4. Wish' = wish /\ call'.port = p
  BY <1>1, <1>3 DEF Wish
<1>5. Wanted = session /\ InHand = {}
  BY <1>1, <1>2 DEF Wanted, InHand
<1>6. CASE call'.step = "command"
  <2>1. Wanted' = session /\ InHand' = {p}
    BY <1>1, <1>2, <1>4, <1>6 DEF Wanted, InHand
  <2>2. /\ ((BlockedPorts \cap Wanted) \ InHand)' = ((BlockedPorts \cap Wanted) \ InHand) \ {p}
        /\ ((BlockedPorts \ Wanted) \ InHand)' = ((BlockedPorts \ Wanted) \ InHand) \ {p}
        /\ ((Filed \ BlockedPorts) \ InHand)'
               \in SUBSET (((Filed \ BlockedPorts) \ InHand) \ {p})
    BY <1>1, <1>3, <1>5, <2>1 DEF OtherPorts
  <2>3. List!Grasp(wish, p)
    BY <1>1, <1>3, <1>4, <1>6, <2>2 DEF List!Grasp
  <2> QED BY <2>3 DEF List!Next
<1>7. CASE call'.step = "row"
  <2>1. InHand' = {} /\ Wanted' = IF wish = "block" THEN session \cup {p} ELSE session
    BY <1>1, <1>2, <1>3, <1>4, <1>7 DEF Wanted, InHand
  <2>2. /\ wish = "block" => p \in BlockedPorts
        /\ wish = "unblock" => p \notin BlockedPorts \/ torn
    BY <1>1, <1>3, <1>4, <1>7 DEF ListInv, InForce, BridgeDone
  <2>3. ~torn => Filed \subseteq BlockedPorts
    BY <1>1 DEF ListInv, FileOK
  <2>4. wish = "block" => torn = FALSE
    <3>1. torn' /\ BridgeDone' => call'.kind = "unblock"
      BY <1>1, <1>2 DEF ListInv, Inv, TornOK, Alone, FirstCommand, Proceed
    <3> QED BY <1>1, <1>3, <1>7, <3>1 DEF BridgeDone, ListInv, Inv, TypeOK
  <2>5. CASE torn = FALSE
    <3>1. ((BlockedPorts \cap Wanted) \ InHand)'
              = IF wish = "block" THEN ((BlockedPorts \cap Wanted) \ InHand) \cup {p}
                ELSE ((BlockedPorts \cap Wanted) \ InHand) \ {p}
      BY <1>1, <1>5, <1>7, <2>1, <2>2, <2>5
    <3>2. ((BlockedPorts \ Wanted) \ InHand)'
              \in SUBSET ((((BlockedPorts \ Wanted) \ InHand)
                               \cup ((Filed \ BlockedPorts) \ InHand)) \ {p})
      BY <1>1, <1>5, <1>7, <2>1, <2>2, <2>5
    <3>3. ((Filed \ BlockedPorts) \ InHand)' = {}
      BY <1>1, <1>7, <2>3, <2>5
    <3>4. <<Wish, call.port, call.step>>' = <<wish, p, "row">>
      BY <1>4, <1>7
    <3>5. List!Act(wish, p)
      BY <1>1, <1>3, <2>5, <3>1, <3>2, <3>3, <3>4 DEF List!Act
    <3> QED BY <3>5 DEF List!Next
  <2>6. CASE torn = TRUE
    <3>1. wish = "unblock"
      BY <2>4, <2>6
    <3>2. List!NothingToDo(p)
      BY <1>1, <1>3, <1>4, <1>5, <1>7, <2>1, <2>6, <3>1 DEF List!NothingToDo
    <3> QED BY <3>2 DEF List!Next
  <2> QED BY <2>5, <2>6 DEF ListInv, Inv, TypeOK
<1> QED BY <1>1, <1>6, <1>7

(* The second step of the bridge is the instant at which a call takes      *)
(* effect.                                                                 *)
LEMMA SecondActs ==
    ASSUME ListInv, ListInv', faults = {}, SecondCommand
    PROVE  List!Next
<1>1. /\ call # Idle /\ call.step = "command" /\ torn' = FALSE
      /\ call'.kind = call.kind /\ call'.port = call.port /\ call'.step = "row"
      /\ up' = up /\ rows' = rows /\ session' = session
      /\ OtherPorts(BlockedPorts', call.port) \subseteq BlockedPorts \cup Filed
  BY SecondEffect
<1>2. up = TRUE
  BY <1>1, WishKnown DEF ListInv
<1>3. PICK p \in Ports, wish \in {"block", "unblock"} :
          p = call.port /\ wish = Wish /\ (wish = "block" <=> call.kind # "unblock")
  BY <1>1, WishKnown DEF ListInv
<1>4. Wish' = wish /\ call'.port = p
  BY <1>1, <1>3 DEF Wish
<1>5. Wanted = session /\ InHand = {p}
  BY <1>1, <1>2, <1>3 DEF Wanted, InHand
<1>6. InHand' = {} /\ Wanted' = IF wish = "block" THEN session \cup {p} ELSE session
  BY <1>1, <1>2, <1>3, <1>4 DEF Wanted, InHand
<1>7. /\ wish = "block" => p \in BlockedPorts'
      /\ wish = "unblock" => p \notin BlockedPorts'
  BY <1>1, <1>3, <1>4 DEF ListInv, InForce, BridgeDone
<1>8. Filed' \subseteq BlockedPorts'
  BY <1>1 DEF ListInv, FileOK
<1>9. \A q \in session : q # p => q \in BlockedPorts /\ q \in BlockedPorts'
  BY <1>1, <1>2, <1>3 DEF ListInv, InForce
<1>10. ((BlockedPorts \cap Wanted) \ InHand)'
           = IF wish = "block" THEN ((BlockedPorts \cap Wanted) \ InHand) \cup {p}
             ELSE ((BlockedPorts \cap Wanted) \ InHand) \ {p}
  BY <1>5, <1>6, <1>7, <1>9
<1>11. ((BlockedPorts \ Wanted) \ InHand)'
           \in SUBSET ((((BlockedPorts \ Wanted) \ InHand)
                            \cup ((Filed \ BlockedPorts) \ InHand)) \ {p})
  BY <1>1, <1>3, <1>5, <1>6, <1>7 DEF OtherPorts
<1>12. ((Filed \ BlockedPorts) \ InHand)' = {}
  BY <1>8
<1>13. <<Wish, call.port, call.step>>' = <<wish, p, "row">>
  BY <1>1, <1>4
<1>14. List!Act(wish, p)
  BY <1>1, <1>3, <1>10, <1>11, <1>12, <1>13 DEF List!Act
<1> QED BY <1>14 DEF List!Next

(* The row and the entry of a call leave the rules alone. *)
LEMMA RecordActs ==
    ASSUME ListInv, ListInv', faults = {}, WriteRow \/ WriteAudit
    PROVE  List!Next
<1>1. call # Idle /\ call.step \in {"row", "audit"} /\ call \in Call /\ session \subseteq Ports
  BY DEF WriteRow, WriteAudit, Idle, ListInv, Inv, TypeOK
<1>2. up = TRUE
  BY <1>1, WishKnown DEF ListInv
<1>3. PICK p \in Ports, wish \in {"block", "unblock"} :
          p = call.port /\ wish = Wish /\ (wish = "block" <=> call.kind # "unblock")
  BY <1>1, WishKnown DEF ListInv
<1>4. up' = up /\ fw' = fw /\ torn' = torn /\ BlockedPorts' = BlockedPorts /\ Filed' = Filed
  BY DEF WriteRow, WriteAudit, BlockedPorts, RulesOf, Filed
<1>5. InHand = {} /\ Wanted = IF wish = "block" THEN session \cup {p} ELSE session
  BY <1>1, <1>2, <1>3 DEF Wanted, InHand
<1>6. wish = "unblock" => p \notin BlockedPorts \/ session = {}
  <2>1. wish = "unblock" => p \notin BlockedPorts \/ torn
    BY <1>1, <1>3 DEF ListInv, InForce, BridgeDone
  <2>2. torn => session = {}
    BY <1>2 DEF ListInv, Inv, TornOK, Alone
  <2> QED BY <2>1, <2>2
<1>7. CASE WriteRow
  <2>1. /\ call.step = "row" /\ call' = [call EXCEPT !.step = "audit"]
        /\ wish = "unblock" => rows' = rows \ {p} /\ session' = session \ {p}
        /\ wish = "block" => rows' = rows \cup {p} /\ session' = session \cup {p}
    BY <1>3, <1>7 DEF WriteRow
  <2>2. call'.kind = call.kind /\ call'.port = p /\ call'.step = "audit" /\ Wish' = wish
    BY <1>1, <1>3, <2>1 DEF Call, Wish
  <2>3. InHand' = {} /\ Wanted' = IF wish = "block" THEN session \cup {p} ELSE session \ {p}
    BY <1>2, <1>3, <1>4, <2>1, <2>2 DEF Wanted, InHand
  <2>4. /\ ((BlockedPorts \cap Wanted) \ InHand)' = (BlockedPorts \cap Wanted) \ InHand
        /\ ((BlockedPorts \ Wanted) \ InHand)' = (BlockedPorts \ Wanted) \ InHand
        /\ ((Filed \ BlockedPorts) \ InHand)' = (Filed \ BlockedPorts) \ InHand
    BY <1>4, <1>5, <1>6, <2>3
  <2>5. List!Record(wish, p)
    BY <1>3, <1>4, <2>1, <2>2, <2>4 DEF List!Record
  <2> QED BY <2>5 DEF List!Next
<1>8. CASE WriteAudit
  <2>1. call.step = "audit" /\ call' = Idle /\ rows' = rows /\ session' = session
    BY <1>8 DEF WriteAudit
  <2>2. call'.kind = "none" /\ call'.port = 0 /\ call'.step = "bridge" /\ Wish' = "none"
    BY <2>1 DEF Idle, Wish
  <2>3. wish = "block" => p \in session
    BY <1>3, <2>1 DEF ListInv, RowWritten
  <2>4. Wanted' = session /\ InHand' = {} /\ Wanted = session
    BY <1>2, <1>4, <1>5, <2>1, <2>2, <2>3 DEF Wanted, InHand
  <2>5. /\ ((BlockedPorts \cap Wanted) \ InHand)' = (BlockedPorts \cap Wanted) \ InHand
        /\ ((BlockedPorts \ Wanted) \ InHand)' = (BlockedPorts \ Wanted) \ InHand
        /\ ((Filed \ BlockedPorts) \ InHand)' = (Filed \ BlockedPorts) \ InHand
    BY <1>4, <1>5, <2>4
  <2>6. List!Answer(wish, p)
    BY <1>3, <1>4, <2>1, <2>2, <2>5 DEF List!Answer, List!Nothing
  <2> QED BY <2>6 DEF List!Next
<1> QED BY <1>7, <1>8

(* A shutdown may be killed in its cleanup. *)
LEMMA ShutdownActs ==
    ASSUME ListInv, faults = {}, Shutdown
    PROVE  List!Next
<1>1. /\ platform \in {"linux", "windows", "darwin"} /\ fw \in Firewall
      /\ up = TRUE /\ call = Idle /\ call.step = "bridge" /\ torn \in BOOLEAN
  BY PlatformKnown DEF ListInv, Inv, TypeOK, Shutdown, Idle
<1>2. /\ up' = FALSE /\ call' = call /\ rows' = rows /\ "shutdown" \in Ends
  BY DEF Shutdown
<1>3. PICK r \in CleanupResults(fw) :
          fw' = ProcessGone(r.fw) /\ torn' = (platform = "darwin" /\ ~r.whole)
  BY DEF Shutdown
<1>4. CleansUp(fw, r)
  BY <1>1, CleanupResult
<1>5. /\ fw'.rules \subseteq fw.rules /\ fw'.file \in {fw.file, NoRules} /\ torn' \in BOOLEAN
      /\ r.whole = TRUE => fw'.rules = {} /\ fw'.file = NoRules /\ torn' = FALSE
      /\ r.whole = FALSE => "crash" \in Ends
      /\ r.whole = TRUE \/ r.whole = FALSE
  BY <1>1, <1>3, <1>4, GoneFields DEF CleansUp, OsMayFail
<1>6. BlockedPorts' \subseteq BlockedPorts /\ Filed' \subseteq Filed
  BY <1>5 DEF BlockedPorts, RulesOf, Filed, NoRules
<1>7. r.whole = TRUE => BlockedPorts' = {} /\ Filed' = {}
  BY <1>5 DEF BlockedPorts, RulesOf, Filed, NoRules
<1>8. InHand = {} /\ InHand' = {} /\ Wanted' = {} /\ Wish' = Wish
  BY <1>1, <1>2 DEF InHand, Wanted, Wish
<1>9. Wish = "none" /\ call.port = 0
  BY <1>1 DEF Wish, Idle
<1>10. ((BlockedPorts \cap Wanted) \ InHand)' = {}
  BY <1>8
<1>11. CASE r.whole = TRUE
  <2>1. ((BlockedPorts \ Wanted) \ InHand)' = {} /\ ((Filed \ BlockedPorts) \ InHand)' = {}
    BY <1>7, <1>11
  <2>2. List!Shutdown
    BY <1>1, <1>2, <1>5, <1>8, <1>9, <1>10, <1>11, <2>1 DEF List!Shutdown, List!Nothing
  <2> QED BY <2>2 DEF List!Next
<1>12. CASE r.whole = FALSE
  <2>1. ((BlockedPorts \ Wanted) \ InHand)'
            \in SUBSET (((BlockedPorts \ Wanted) \ InHand) \cup ((BlockedPorts \cap Wanted) \ InHand))
    BY <1>6, <1>8
  <2>2. ((Filed \ BlockedPorts) \ InHand)'
            \in SUBSET (((Filed \ BlockedPorts) \ InHand) \cup ((BlockedPorts \ Wanted) \ InHand)
                            \cup ((BlockedPorts \cap Wanted) \ InHand))
    BY <1>6, <1>8
  <2>3. List!Shutdown
    BY <1>1, <1>2, <1>5, <1>8, <1>9, <1>10, <1>12, <2>1, <2>2 DEF List!Shutdown, List!Nothing
  <2> QED BY <2>3 DEF List!Next
<1> QED BY <1>5, <1>11, <1>12

(* A kill cuts a call off before, between or after the steps of its        *)
(* bridge.                                                                 *)
LEMMA CrashActs ==
    ASSUME ListInv, faults = {}, Crash
    PROVE  List!Next
<1>1. /\ up = TRUE /\ up' = FALSE /\ call' = Idle /\ rows' = rows /\ "crash" \in Ends
      /\ torn' = (torn \/ (platform = "darwin" /\ call # Idle /\ call.step \in {"bridge", "command"}))
  BY DEF Crash, ListInv, Inv, TypeOK
<1>2. PICK g \in CutOff : fw' = ProcessGone(g)
  BY DEF Crash
<1>3. TypeOK /\ torn \in BOOLEAN /\ (call # Idle => call.port \in Ports)
  BY DEF ListInv, Inv, TypeOK, CallOK
<1>4. /\ g \in Firewall
      /\ g.rules = fw.rules
      /\ \A q \in Ports : g.file[q] # "none" =>
             fw.file[q] # "none" \/ fw.active[q] # "none" \/ (call # Idle /\ q = call.port)
      /\ g.file = fw.file \/ (platform = "darwin" /\ call # Idle /\ call.step = "bridge")
  BY <1>3, CutOffResult
<1>5. fw'.rules = fw.rules /\ fw'.file = g.file
  BY <1>2, <1>4, GoneFields
<1>6. BlockedPorts' = BlockedPorts
  BY <1>5 DEF BlockedPorts, RulesOf
<1>7. Wanted' = {} /\ InHand' = {} /\ Wish' = "none" /\ call'.port = 0 /\ call'.step = "bridge"
  BY <1>1 DEF Wanted, InHand, Wish, Idle
<1>8. PICK named : named = IF call.step \in {"bridge", "command"} THEN {call.port} \cap Ports ELSE {}
  OBVIOUS
<1>9. call # Idle /\ call.step \in {"bridge", "command"} => call.port \in named
  BY <1>3, <1>8
<1>10. InHand \cap Ports \subseteq named /\ InHand \in {{}, {call.port}}
       /\ (InHand # {} => named = InHand)
  <2>1. call.step = "command" => call # Idle
    BY DEF Idle
  <2> QED BY <1>3, <1>8, <2>1 DEF InHand
<1>11. ((BlockedPorts \ Wanted) \ InHand)'
           \in {((BlockedPorts \ Wanted) \ InHand) \cup ((BlockedPorts \cap Wanted) \ InHand),
                ((BlockedPorts \ Wanted) \ InHand) \cup ((BlockedPorts \cap Wanted) \ InHand)
                    \cup named}
  <2>1. ((BlockedPorts \ Wanted) \ InHand)' = BlockedPorts
    BY <1>6, <1>7
  <2>2. ((BlockedPorts \ Wanted) \ InHand) \cup ((BlockedPorts \cap Wanted) \ InHand)
            = BlockedPorts \ InHand
    OBVIOUS
  <2>3. BlockedPorts \in {BlockedPorts \ InHand, (BlockedPorts \ InHand) \cup named}
    <3>1. CASE InHand \cap BlockedPorts = {}
      BY <3>1
    <3>2. CASE InHand \cap BlockedPorts # {}
      BY <1>10, <3>2
    <3> QED BY <3>1, <3>2
  <2> QED BY <2>1, <2>2, <2>3
<1>12. ((Filed \ BlockedPorts) \ InHand)' \in SUBSET (((Filed \ BlockedPorts) \ InHand) \cup named)
  <2>1. Filed' \subseteq Filed \cup named
    <3> SUFFICES ASSUME NEW q \in Ports, g.file[q] # "none", fw.file[q] = "none" PROVE q \in named
      BY <1>5 DEF Filed
    <3>1. call # Idle /\ call.step = "bridge"
      BY <1>4
    <3>2. fw.active[q] = "none"
      BY DEF ListInv, FileOK, Filed
    <3> QED BY <1>4, <1>9, <3>1, <3>2
  <2> QED BY <1>6, <1>7, <1>10, <2>1 DEF Filed
<1>13. torn' \in {torn, torn \/ named # {}}
  <2>1. CASE call # Idle /\ call.step \in {"bridge", "command"}
    BY <1>1, <1>3, <1>9, <2>1
  <2>2. CASE ~(call # Idle /\ call.step \in {"bridge", "command"})
    BY <1>1, <1>3, <2>2
  <2> QED BY <2>1, <2>2
<1>14. ((BlockedPorts \cap Wanted) \ InHand)' = {}
  BY <1>7
<1>15. <<Wish, call.port, call.step>>' = List!Nothing
  BY <1>7 DEF List!Nothing
<1>16. List!Crash
  <2>1. named = IF <<Wish, call.port, call.step>>[3] \in {"bridge", "command"}
                THEN {<<Wish, call.port, call.step>>[2]} \cap Ports ELSE {}
    BY <1>8
  <2> QED BY <1>1, <1>11, <1>12, <1>13, <1>14, <1>15, <2>1 DEF List!Crash
<1> QED BY <1>16 DEF List!Next

(* What is between the ends of the process. *)
LEMMA DownActs ==
    ASSUME ListInv, faults = {}, Reboot \/ Start
    PROVE  List!Next
<1>1. /\ platform \in {"linux", "windows", "darwin"} /\ fw \in Firewall
      /\ up = FALSE /\ call = Idle /\ call.step = "bridge" /\ call' = call /\ rows' = rows
  BY PlatformKnown DEF ListInv, Inv, TypeOK, CallOK, Idle, Reboot, Start
<1>2. Wanted = {} /\ InHand = {} /\ InHand' = {} /\ Wish' = Wish
  BY <1>1 DEF Wanted, InHand, Wish
<1>3. CASE Reboot
  <2>1. /\ up' = up /\ torn' = FALSE /\ "reboot" \in Ends
        /\ fw' = MachineRestarted(platform, fw)
    BY <1>3 DEF Reboot
  <2>2. fw'.rules \in {{}, fw.rules} /\ fw'.file = NoRules
    <3>1. CASE platform = "windows"
      BY <2>1, <3>1 DEF MachineRestarted, ListInv, Inv, BridgeOK
    <3>2. CASE platform # "windows"
      <4>1. fw' = [fw EXCEPT !.rules = {}, !.file = NoRules]
        BY <2>1, <3>2 DEF MachineRestarted
      <4> QED BY <1>1, <4>1 DEF Firewall
    <3> QED BY <3>1, <3>2
  <2>3. BlockedPorts' \in {{}, BlockedPorts} /\ Filed' = {}
    BY <2>2 DEF BlockedPorts, RulesOf, Filed, NoRules
  <2>4. Wanted' = {}
    BY <1>1, <2>1 DEF Wanted
  <2>5. /\ ((BlockedPorts \cap Wanted) \ InHand)' = (BlockedPorts \cap Wanted) \ InHand
        /\ ((BlockedPorts \ Wanted) \ InHand)' \in {{}, (BlockedPorts \ Wanted) \ InHand}
        /\ ((Filed \ BlockedPorts) \ InHand)' = {}
    BY <1>2, <2>3, <2>4
  <2>6. List!Reboot
    BY <1>1, <1>2, <2>1, <2>5 DEF List!Reboot
  <2> QED BY <2>6 DEF List!Next
<1>4. CASE Start
  <2>1. up' = TRUE /\ fw' = fw /\ session' = {} /\ torn' = torn
    BY <1>4 DEF Start
  <2>2. BlockedPorts' = BlockedPorts /\ Filed' = Filed
    BY <2>1 DEF BlockedPorts, RulesOf, Filed
  <2>3. Wanted' = {}
    BY <1>1, <2>1 DEF Wanted
  <2>4. List!Start
    BY <1>1, <1>2, <2>1, <2>2, <2>3 DEF List!Start
  <2> QED BY <2>4 DEF List!Next
<1> QED BY <1>3, <1>4

LEMMA BeginActs ==
    ASSUME ListInv, NEW kind \in Kinds, NEW p \in Ports, NEW proto \in Protos,
           Begin(kind, p, proto)
    PROVE  List!Next
<1>1. /\ up /\ up' = up /\ fw' = fw /\ rows' = rows /\ session' = session /\ call = Idle
      /\ torn' = torn
      /\ call' = [kind |-> kind, step |-> "bridge", port |-> p, proto |-> proto]
      /\ kind \in {"block", "unblock", "policy"}
  BY EnforcementAssumption DEF Begin
<1>2. PICK wish \in {"block", "unblock"} : wish = IF kind = "policy" THEN "block" ELSE kind
  BY <1>1
<1>3. /\ Wish = "none" /\ call.port = 0 /\ call.step = "bridge"
      /\ Wish' = wish /\ call'.port = p /\ call'.step = "bridge"
  BY <1>1, <1>2 DEF Wish, Idle
<1>4. /\ BlockedPorts' = BlockedPorts /\ Wanted' = Wanted /\ Filed' = Filed
      /\ InHand = {} /\ InHand' = {}
  BY <1>1, <1>3 DEF BlockedPorts, RulesOf, Wanted, Filed, InHand
<1>5. List!Ask(wish, p)
  BY <1>1, <1>3, <1>4 DEF List!Ask, List!Nothing
<1> QED BY <1>5 DEF List!Next

LEMMA ListStep ==
    ListInv /\ ListInv' /\ faults = {} /\ [Next]_vars => [List!Next]_(List!vars)
<1> SUFFICES ASSUME ListInv, ListInv', faults = {}, [Next]_vars
             PROVE  List!Next \/ UNCHANGED List!vars
  OBVIOUS
<1>1. CASE FirstCommand
  BY <1>1, FirstActs
<1>2. CASE SecondCommand
  BY <1>2, SecondActs
<1>3. CASE WriteRow \/ WriteAudit
  BY <1>3, RecordActs
<1>4. CASE WriteRowFails \/ SecondInstance
  BY <1>4 DEF WriteRowFails, SecondInstance, DbMayFail
<1>5. CASE Shutdown
  BY <1>5, ShutdownActs
<1>6. CASE Crash
  BY <1>6, CrashActs
<1>7. CASE Reboot \/ Start
  BY <1>7, DownActs
<1>8. CASE UNCHANGED vars
  BY <1>8 DEF vars, List!vars, BlockedPorts, RulesOf, Wanted, Wish, Filed, InHand
<1> QED BY <1>1, <1>2, <1>3, <1>4, <1>5, <1>6, <1>7, <1>8, BeginActs DEF Next

LEMMA RowWrittenKeeps == Inv /\ RowWritten /\ [Next]_vars => RowWritten'
<1> SUFFICES ASSUME Inv, RowWritten, [Next]_vars, call'.step = "audit", call'.kind # "unblock"
             PROVE  call'.port \in session'
  BY DEF RowWritten
<1>1. CASE WriteRow
  <2>1. call'.kind = call.kind /\ call'.port = call.port
    BY <1>1 DEF WriteRow, Inv, TypeOK, Call
  <2> QED BY <1>1, <2>1 DEF WriteRow
<1>2. CASE UNCHANGED <<call, session>>
  BY <1>2 DEF RowWritten
<1>3. CASE Start
  BY <1>3 DEF Start, Inv, TypeOK, CallOK, Idle
<1>4. ASSUME NEW r, Proceed(r), IsResult(r) PROVE call' = Idle \/ call'.step # "audit"
  <2>1. \/ call' = [call EXCEPT !.step = "command"]
        \/ call' = [call EXCEPT !.step = "row"]
        \/ call' = Idle
    BY <1>4 DEF Proceed, IsResult
  <2> QED BY <2>1 DEF Inv, TypeOK, Call, Idle
<1>5. CASE call' = Idle
  BY <1>5 DEF Idle
<1>6. ASSUME NEW kind \in Kinds, NEW p \in Ports, NEW proto \in Protos, Begin(kind, p, proto)
      PROVE  FALSE
  BY <1>6 DEF Begin
<1>7. CASE FirstCommand \/ SecondCommand
  <2>1. CASE platform # "darwin"
    <3>1. PICK r : CommandDone(r)
      BY <1>7, <2>1, CommandResult
    <3>2. Proceed(r) /\ IsResult(r)
      BY <3>1 DEF CommandDone, Blocks, Unblocks
    <3> QED BY <1>4, <1>5, <3>2
  <2>2. CASE platform = "darwin" /\ FirstCommand
    <3>1. PICK r : Proceed(r) /\ Prepares(r)
      BY <2>2, DarwinFirstResult
    <3>2. IsResult(r)
      BY <3>1 DEF Prepares
    <3> QED BY <1>4, <1>5, <3>1, <3>2
  <2>3. CASE platform = "darwin" /\ SecondCommand
    <3>1. PICK r : Reloads(r)
      BY <2>3, DarwinSecondResult
    <3>2. Proceed(r) /\ IsResult(r)
      BY <3>1 DEF Reloads, Loads
    <3> QED BY <1>4, <1>5, <3>2
  <2> QED BY <1>7, <2>1, <2>2, <2>3
<1> QED
  BY <1>1, <1>2, <1>3, <1>5, <1>6, <1>7
  DEF Next, WriteRowFails, WriteAudit, Shutdown, Crash, SecondInstance, Reboot, vars

(* Without faults the three bridges, the dict and the rules file of macOS  *)
(* and the steps of a call implement one set of blocked ports and a list:  *)
(* a call changes the port it names at one instant, and no other port of   *)
(* this process.  A kill may fall between any two of the steps; what it    *)
(* may leave besides is a port a later call blocks again, and, until the   *)
(* rules are reloaded, an unblock that finds nothing to do.                *)
THEOREM Refinement == Spec => ImplementsBlockList
<1>1. Init => (faults = {} => List!Init)
  BY DEF Init, List!Init, List!Nothing, BlockedPorts, RulesOf, Wanted, Wish, Idle, Filed,
         InHand, NoRules
<1>2. Init => RowWritten
  BY DEF Init, RowWritten, Idle
<1>3. Inv /\ RowWritten /\ faults = {} => ListInv
  BY InvInForce DEF ListInv
<1>4. faults = {} /\ [Next]_vars => (faults = {})'
  BY DEF Next, vars, Begin, FirstCommand, SecondCommand, Proceed, WriteRow, WriteRowFails,
         WriteAudit, Shutdown, Crash, SecondInstance, Reboot, Start
<1>5. (faults = {} => [List!Next]_(List!vars)) => [faults = {} => List!Next]_(List!vars)
  OBVIOUS
<1>6. Inv /\ [Next]_vars => Inv'
  BY StepKeeps
<1> QED
  BY Initially, RowWrittenKeeps, ListStep, <1>1, <1>2, <1>3, <1>4, <1>5, <1>6, PTL
  DEF Spec, ImplementsBlockList
=============================================================================
