---------------------------- MODULE IptablesChain ----------------------------
(***************************************************************************)
(* backend/os_adapters/linux_bridge.py, command by command: the INPUT      *)
(* chain as the sequence of rules iptables shows, which the bridge changes *)
(* by content (-C, -I, -D with a specification) and by line number (-L,    *)
(* then -D with a number), while other programs of the host may change the *)
(* same chain between two of its commands.  The commands of block_port and *)
(* unblock_port may fail (another program holds the lock of the tables);   *)
(* FirewallBridges has the cleanups that fail, and those that are killed.  *)
(***************************************************************************)
EXTENDS Naturals, Sequences, SequencesExt

CONSTANTS
    Ports,       \* ports the bridge is asked to block
    Foreign,     \* numbers that tell the rules of other programs apart
    MaxLen       \* bound on the length of the chain

ASSUME ChainAssumption ==
    /\ Ports \subseteq Nat
    /\ MaxLen \in Nat

VARIABLES
    chain,  \* the rules of INPUT, from the top
    op,     \* the operation in progress
    todo,   \* the rules unblock_port has still to delete, in their order
    lines,  \* the lines cleanup_all_rules has still to delete
    lost,   \* history: foreign rules the bridge deleted
    unsure, \* history: own rules of the chain whose check or deletion failed
            \* while they were in it
    shared  \* history: did another program change the chain during the
            \* operation in progress or the last one

vars == <<chain, op, todo, lines, lost, unsure, shared>>

Protos == {"tcp", "udp"}

(* The comment of a rule names the program, the port and the protocol;     *)
(* "Sentinel" is the name of an older version of the program.              *)
OwnNames == {"Vigilant", "Sentinel"}

OwnRules     == OwnNames \X Ports \X Protos
ForeignRules == {"Other"} \X Foreign \X Protos

IsOwn(r) == r[1] \in OwnNames

Idle == <<"idle", 0, "tcp">>

Ops == {"idle", "block", "unblock", "cleanup"} \X (Ports \cup {0}) \X Protos

(* A host with a rule of its own, where an older version may have left     *)
(* rules.                                                                  *)
Init ==
    /\ \E f \in ForeignRules, n \in 0 .. MaxLen - 1 :
          \E old \in [1 .. n -> {"Sentinel"} \X Ports \X {"tcp"}] :
             IsInjective(old) /\ chain = <<f>> \o old
    /\ op = Idle
    /\ todo = <<>>
    /\ lines = {}
    /\ lost = {}
    /\ unsure = {}
    /\ shared = FALSE

-----------------------------------------------------------------------------
(* block_port: -C, and -I INPUT 1 when the rule is not there.              *)

(* Mutant of BlockPort: the rule is not looked up. *)
BlockPortAgain(p, proto) ==
    /\ op = Idle
    /\ op' = <<"block", p, proto>>
    /\ shared' = FALSE
    /\ UNCHANGED <<chain, todo, lines, lost, unsure>>

(* Those of some rules that a chain has. *)
Present(rules, c) == {r \in rules : Contains(c, r)}

(* Any exit code of -C but zero is taken to say that the rule is not       *)
(* there, that of a check that failed as well.                             *)
BlockPort(p, proto) ==
    LET rule == <<"Vigilant", p, proto>>
    IN  /\ op = Idle
        /\ \/ /\ op' = IF Contains(chain, rule) THEN Idle ELSE <<"block", p, proto>>
              /\ unsure' = unsure
           \/ /\ op' = <<"block", p, proto>>
              /\ unsure' = unsure \cup Present({rule}, chain)
        /\ shared' = FALSE
        /\ UNCHANGED <<chain, todo, lines, lost>>

(* The insertion may fail, and then raises. *)
Insert ==
    /\ op[1] = "block"
    /\ \/ chain' = <<<<"Vigilant", op[2], op[3]>>>> \o chain
       \/ UNCHANGED chain
    /\ Len(chain') <= MaxLen
    /\ op' = Idle
    /\ UNCHANGED <<todo, lines, lost, unsure, shared>>

(* unblock_port: -D for both protocols, under the new and the old name.    *)
UnblockPort(p) ==
    /\ op = Idle
    /\ op' = <<"unblock", p, "tcp">>
    /\ todo' = <<<<"Vigilant", p, "tcp">>, <<"Sentinel", p, "tcp">>,
                 <<"Vigilant", p, "udp">>, <<"Sentinel", p, "udp">>>>
    /\ shared' = FALSE
    /\ UNCHANGED <<chain, lines, lost, unsure>>

(* -D with a specification deletes the first rule that matches it; what it *)
(* returns is not looked at.                                               *)
DeleteRule ==
    /\ op[1] = "unblock"
    /\ todo # <<>>
    /\ \/ /\ chain' = RemoveFirst(chain, Head(todo))
          /\ unsure' = Present(unsure, chain')
       \/ /\ chain' = chain
          /\ unsure' = unsure \cup Present({Head(todo)}, chain)
    /\ todo' = Tail(todo)
    /\ UNCHANGED <<op, lines, lost, shared>>

-----------------------------------------------------------------------------
(* cleanup_all_rules: the lines of the own rules are listed, and deleted   *)
(* by number from the bottom.                                              *)

(* Mutant of OwnLines: the rules of the old version are not looked for. *)
OwnLinesVigilant(c) == {i \in 1 .. Len(c) : c[i][1] = "Vigilant"}

(* Mutant of OwnLines: lines are numbered from zero. *)
OwnLinesZeroBased(c) == {i - 1 : i \in {j \in 1 .. Len(c) : IsOwn(c[j])}}

OwnLines(c) == {i \in 1 .. Len(c) : IsOwn(c[i])}

ListRules ==
    /\ op = Idle
    /\ op' = <<"cleanup", 0, "tcp">>
    /\ lines' = OwnLines(chain)
    /\ shared' = FALSE
    /\ UNCHANGED <<chain, todo, lost, unsure>>

(* Mutant of IsNext: the line numbers are not sorted in reverse. *)
IsNextFromTop(n) == \A m \in lines : n <= m

(* The deletions begin at the bottom. *)
IsNext(n) == \A m \in lines : n >= m

DeleteLine ==
    /\ op[1] = "cleanup"
    /\ \E n \in lines :
          /\ IsNext(n)
          /\ lines' = lines \ {n}
          /\ IF n <= Len(chain)
             THEN /\ chain' = RemoveAt(chain, n)
                  /\ lost' = IF IsOwn(chain[n]) THEN lost ELSE lost \cup {chain[n]}
             ELSE UNCHANGED <<chain, lost>>
    /\ unsure' = Present(unsure, chain')
    /\ UNCHANGED <<op, todo, shared>>

(* The operation returns. *)
Return ==
    /\ \/ op[1] = "unblock" /\ todo = <<>>
       \/ op[1] = "cleanup" /\ lines = {}
    /\ op' = Idle
    /\ UNCHANGED <<chain, todo, lines, lost, unsure, shared>>

-----------------------------------------------------------------------------
(* Another program adds a rule at either end or deletes one of its own.    *)
External ==
    /\ \/ \E r \in ForeignRules :
             /\ Len(chain) < MaxLen
             /\ ~ Contains(chain, r)
             /\ chain' \in {<<r>> \o chain, Append(chain, r)}
       \/ \E i \in 1 .. Len(chain) : ~ IsOwn(chain[i]) /\ chain' = RemoveAt(chain, i)
    /\ shared' = TRUE
    /\ UNCHANGED <<op, todo, lines, lost, unsure>>

Next ==
    \/ \E p \in Ports, proto \in Protos : BlockPort(p, proto)
    \/ Insert
    \/ \E p \in Ports : UnblockPort(p)
    \/ DeleteRule
    \/ ListRules
    \/ DeleteLine
    \/ Return
    \/ External

Spec == Init /\ [][Next]_vars

-----------------------------------------------------------------------------
(* Properties.                                                             *)

TypeOK ==
    /\ chain \in Seq(OwnRules \cup ForeignRules)
    /\ Len(chain) <= MaxLen
    /\ op \in Ops
    /\ todo \in Seq(OwnRules)
    /\ lines \subseteq 1 .. MaxLen
    /\ lost \subseteq ForeignRules
    /\ unsure \subseteq OwnRules
    /\ shared \in BOOLEAN

(* One -D per rule is enough to unblock: what unblock_port leaves of the   *)
(* port when it returns are rules whose deletion failed, or that a failed  *)
(* check let block_port insert a second time; whatever other programs do   *)
(* to the chain.                                                           *)
UnblockRemovesAll ==
    op[1] = "unblock" /\ todo = <<>> =>
        \A i \in 1 .. Len(chain) :
            IsOwn(chain[i]) /\ chain[i][2] = op[2] => chain[i] \in unsure

(* When cleanup_all_rules returns, no own rule is left, provided nobody    *)
(* else changed the chain while it worked.                                 *)
CleanupRemovesAll ==
    op[1] = "cleanup" /\ lines = {} /\ ~ shared =>
        \A i \in 1 .. Len(chain) : ~ IsOwn(chain[i])

(* Under the same proviso, cleanup_all_rules deletes no rule of another    *)
(* program: the line numbers it holds still denote the rules they were     *)
(* read for, though each deletion moves the lines below it.                *)
OnlyOwnLinesGo == [][DeleteLine /\ ~ shared => lost' = lost]_vars
=============================================================================
