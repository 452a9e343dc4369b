------------------------------ MODULE BlockList ------------------------------
(***************************************************************************)
(* What blocking promises on every platform when nothing fails: a set of   *)
(* blocked ports, of which a call changes the one it names, and a list of  *)
(* them, which it brings up to date before it is over.  While the call is  *)
(* at work its port may be blocked or open.  Ports an earlier process left *)
(* blocked may be opened by the calls of this one, and none is added to    *)
(* them, but for what a kill has left in the making.                       *)
(***************************************************************************)
CONSTANTS
    Ports,
    Ends  \* ends of the process: subset of {"shutdown", "crash", "reboot"}

VARIABLES
    up,      \* is the process running
    mine,    \* the ports it has blocked
    left,    \* the ports an earlier one has left blocked
    latent,  \* the ports a kill has left open that a call may block again
    torn,    \* has a kill left such ports, or blocked ones that an unblock
             \* takes to be open
    listed,  \* the list
    asked    \* the call in progress: what for, which port, and how far it is

vars == <<up, mine, left, latent, torn, listed, asked>>

Nothing == <<"none", 0, "bridge">>

Init ==
    /\ up = TRUE
    /\ mine = {}
    /\ left = {}
    /\ latent = {}
    /\ torn = FALSE
    /\ listed = {}
    /\ asked = Nothing

Ask(wish, p) ==
    /\ up
    /\ asked = Nothing
    /\ asked' = <<wish, p, "bridge">>
    /\ UNCHANGED <<up, mine, left, latent, torn, listed>>

(* The call sets to work, and its port is neither blocked nor open until   *)
(* it has acted.                                                           *)
Grasp(wish, p) ==
    /\ asked = <<wish, p, "bridge">>
    /\ asked' = <<wish, p, "command">>
    /\ mine' = mine \ {p}
    /\ left' = left \ {p}
    /\ latent' \in SUBSET (latent \ {p})
    /\ UNCHANGED <<up, torn, listed>>

(* The port is blocked or open, and so are all others this process has     *)
(* blocked or opened.                                                      *)
Act(wish, p) ==
    /\ asked \in {<<wish, p, "bridge">>, <<wish, p, "command">>}
    /\ asked' = <<wish, p, "row">>
    /\ mine' = IF wish = "block" THEN mine \cup {p} ELSE mine \ {p}
    /\ left' \in SUBSET ((left \cup latent) \ {p})
    /\ latent' = {}
    /\ torn' = FALSE
    /\ UNCHANGED <<up, listed>>

(* After a kill an unblock may find nothing to do, and leave the rules as  *)
(* they are.                                                               *)
NothingToDo(p) ==
    /\ asked = <<"unblock", p, "bridge">>
    /\ torn
    /\ asked' = <<"unblock", p, "row">>
    /\ UNCHANGED <<up, mine, left, latent, torn, listed>>

Record(wish, p) ==
    /\ asked = <<wish, p, "row">>
    /\ asked' = <<wish, p, "audit">>
    /\ listed' = IF wish = "block" THEN listed \cup {p} ELSE listed \ {p}
    /\ UNCHANGED <<up, mine, left, latent, torn>>

Answer(wish, p) ==
    /\ asked = <<wish, p, "audit">>
    /\ asked' = Nothing
    /\ UNCHANGED <<up, mine, left, latent, torn, listed>>

(* A shutdown opens all ports, and waits for no call; killed, some. *)
Shutdown ==
    /\ "shutdown" \in Ends
    /\ up
    /\ asked = Nothing
    /\ up' = FALSE
    /\ mine' = {}
    /\ \/ left' = {} /\ latent' = {} /\ torn' = FALSE
       \/ /\ "crash" \in Ends
          /\ left' \in SUBSET (left \cup mine)
          /\ latent' \in SUBSET (latent \cup left \cup mine)
          /\ torn' \in BOOLEAN
    /\ UNCHANGED <<listed, asked>>

(* A kill opens none but the port of the call it cuts off, and the list    *)
(* stays behind.                                                           *)
Crash ==
    /\ "crash" \in Ends
    /\ up
    /\ up' = FALSE
    /\ mine' = {}
    /\ LET named == IF asked[3] \in {"bridge", "command"} THEN {asked[2]} \cap Ports ELSE {}
       IN  /\ left' \in {left \cup mine, left \cup mine \cup named}
           /\ latent' \in SUBSET (latent \cup named)
           /\ torn' \in {torn, torn \/ named # {}}
    /\ asked' = Nothing
    /\ UNCHANGED listed

(* The machine keeps the rules over its restart or does not. *)
Reboot ==
    /\ "reboot" \in Ends
    /\ ~up
    /\ left' \in {{}, left}
    /\ latent' = {}
    /\ torn' = FALSE
    /\ UNCHANGED <<up, mine, listed, asked>>

Start ==
    /\ ~up
    /\ up' = TRUE
    /\ UNCHANGED <<mine, left, latent, torn, listed, asked>>

Next ==
    \/ \E wish \in {"block", "unblock"}, p \in Ports :
           Ask(wish, p) \/ Grasp(wish, p) \/ Act(wish, p) \/ Record(wish, p) \/ Answer(wish, p)
    \/ \E p \in Ports : NothingToDo(p)
    \/ Shutdown
    \/ Crash
    \/ Reboot
    \/ Start

Spec == Init /\ [][Next]_vars
=============================================================================
