---------------------------- MODULE CapturePlane -----------------------------
(***************************************************************************)
(* The shared memory between the sniffer process                           *)
(* (backend/core/sniffer.py) and the dispatcher of the web process         *)
(* (backend/infrastructure/network/dispatcher.py), word by word.           *)
(*                                                                         *)
(* The segment holds one slot per port - the packed entry followed by its  *)
(* HMAC - and a bitmap of the active ports.  The sniffer writes a slot by  *)
(* one slice assignment and then updates the bitmap; the reader copies a   *)
(* slot and checks the HMAC.  Neither copy is atomic for the other         *)
(* process, and nothing orders the words of a copy, so each of the two is  *)
(* modelled as copying the words of the slot one at a time in any order.   *)
(*                                                                         *)
(* The HMAC is perfect: the mac word of a slot is the set of entries it    *)
(* authenticates, {} for the zeroed segment and {e} once e was signed.     *)
(***************************************************************************)
EXTENDS SnifferCore

CONSTANTS
    Flows,         \* the packets there are: pairs <<source port, destination port>>
    ReaderLocks,   \* may a scan pass the lock to read_all_active_ports: a set of
                   \* BOOLEANs ({FALSE} in the program)
    MaxCount,      \* bound on the packets counted per port
    MaxOverlap     \* bound on the different entries of a port that are
                   \* current during one read of its slot

ASSUME CaptureAssumption ==
    /\ Flows \subseteq (Ports \cup {0}) \X (Ports \cup {0})
    /\ ReaderLocks \subseteq BOOLEAN
    /\ MaxCount \in Nat
    /\ MaxOverlap \in Nat

VARIABLES
    accum,      \* _accum, private to the sniffer
    slots,      \* the entry slots of the segment
    bitmap,     \* the ports whose bit is set
    lock,       \* the multiprocessing lock: "free", "sniffer" or "reader"
    spc,        \* where the sniffer is
    pending,    \* entries this flush has still to write
    wport,      \* port whose slot the sniffer is writing
    wleft,      \* words of that slot not copied yet
    rpc,        \* where the reader is
    rlocked,    \* did this scan take the lock
    rbytes,     \* bytes of the bitmap this scan has not looked at
    rports,     \* ports of the last bitmap byte still to be read
    rport,      \* port whose slot the reader is copying
    rleft,      \* words not copied yet
    rbuf,       \* the words copied
    active,     \* the list read_all_active_ports builds
    window      \* history: entries current at some instant of this slot read

snifferVars == <<accum, spc, pending, wport, wleft>>
readerVars  == <<rpc, rlocked, rbytes, rports, rport, rleft, rbuf, active>>
vars == <<accum, slots, bitmap, lock, spc, pending, wport, wleft,
          rpc, rlocked, rbytes, rports, rport, rleft, rbuf, active, window>>

(* Three words stand for the eight of a slot: one with the first counter,  *)
(* one with everything else of the entry, one with the HMAC.               *)
Words == {"in", "rest", "mac"}

Slot == [in : Nat, rest : [out : Nat, active : BOOLEAN], mac : SUBSET Entry]

ZeroSlot == [in |-> 0, rest |-> [out |-> 0, active |-> FALSE], mac |-> {}]

(* Mutant of Image: the HMAC is not written with the data. *)
ImageUnsigned(e) == [in |-> e.in, rest |-> [out |-> e.out, active |-> e.active], mac |-> {}]

(* The 64 bytes data + mac for an entry. *)
Image(e) == [in |-> e.in, rest |-> [out |-> e.out, active |-> e.active], mac |-> {e}]

Data(s) == [in |-> s.in, out |-> s.rest.out, active |-> s.rest.active]

(* Mutant of Verifies: the digest is present but not compared. *)
VerifiesUnchecked(s) == s.mac # {}

(* read_port_entry: compare_digest on the copy that was taken. *)
Verifies(s) == Data(s) \in s.mac

(* A copy in progress: word w of slot "from" reaches slot "to". *)
Copied(to, from, w) ==
    [in   |-> IF w = "in" THEN from.in ELSE to.in,
     rest |-> IF w = "rest" THEN from.rest ELSE to.rest,
     mac  |-> IF w = "mac" THEN from.mac ELSE to.mac]

ByteOf(p) == p \div 8

Init ==
    /\ accum = <<>>
    /\ slots = [p \in Ports |-> ZeroSlot]
    /\ bitmap = {}
    /\ lock = "free"
    /\ spc = "sniff"
    /\ pending = <<>>
    /\ wport = 0
    /\ wleft = {}
    /\ rpc = "idle"
    /\ rlocked = FALSE
    /\ rbytes = {}
    /\ rports = {}
    /\ rport = 0
    /\ rleft = {}
    /\ rbuf = ZeroSlot
    /\ active = {}
    /\ window = {}

-----------------------------------------------------------------------------
(* The sniffer process.                                                    *)

Bounded(acc) == \A p \in DOMAIN acc : acc[p].in <= MaxCount /\ acc[p].out <= MaxCount

(* Scapy delivers a packet; packet_callback runs inside sniff(). *)
PacketCallback ==
    /\ spc = "sniff"
    /\ \E f \in Flows : accum' = Counted(accum, f[1], f[2])
    /\ Bounded(accum')
    /\ UNCHANGED <<slots, bitmap, lock, spc, pending, wport, wleft, readerVars, window>>

(* Time matters to the sniffer only between two flushes: a flush reads the *)
(* clock once, when it starts.                                             *)
Tick ==
    /\ spc = "sniff"
    /\ accum' = Aged(accum)
    /\ accum' # accum
    /\ UNCHANGED <<slots, bitmap, lock, spc, pending, wport, wleft, readerVars, window>>

(* sniff() times out, run() injects the synthetic traffic, and             *)
(* _flush_to_shm takes the clock and then the lock.                        *)
StartFlush ==
    /\ spc = "sniff"
    /\ lock = "free"
    /\ \E m \in SUBSET MockPorts :
          /\ accum' = Mocked(accum, m)
          /\ Bounded(accum')
    /\ lock' = "sniffer"
    /\ spc' = "flush"
    /\ pending' = [p \in DOMAIN accum' |-> Packed(accum'[p])]
    /\ UNCHANGED <<slots, bitmap, wport, wleft, readerVars, window>>

(* _write_port_entry packs and signs the entry of the next port. *)
StartWrite(p) ==
    /\ spc = "flush"
    /\ spc' = "copy"
    /\ wport' = p
    /\ wleft' = Words
    /\ window' = IF rpc = "copy" /\ rport = p THEN window \cup {pending[p]} ELSE window
    /\ Cardinality(window') <= MaxOverlap
    /\ UNCHANGED <<accum, slots, bitmap, lock, pending, readerVars>>

(* buf[offset:offset + ENTRY_SIZE] = data + mac, one word of it. *)
CopyWord(w) ==
    /\ spc = "copy"
    /\ wleft' = wleft \ {w}
    /\ slots' = [slots EXCEPT ![wport] = Copied(@, Image(pending[wport]), w)]
    /\ UNCHANGED <<accum, bitmap, lock, spc, pending, wport, readerVars, window>>

(* Mutant of UpdateBitmap: the bit of an inactive port stays. *)
UpdateBitmapSetOnly ==
    /\ spc = "copy"
    /\ wleft = {}
    /\ bitmap' = IF pending[wport].active THEN bitmap \cup {wport} ELSE bitmap
    /\ pending' = [p \in DOMAIN pending \ {wport} |-> pending[p]]
    /\ spc' = "flush"
    /\ wport' = 0
    /\ UNCHANGED <<accum, slots, lock, wleft, readerVars, window>>

(* The bitmap follows the slot; the loop moves to the next port. *)
UpdateBitmap ==
    /\ spc = "copy"
    /\ wleft = {}
    /\ bitmap' = IF pending[wport].active THEN bitmap \cup {wport} ELSE bitmap \ {wport}
    /\ pending' = [p \in DOMAIN pending \ {wport} |-> pending[p]]
    /\ spc' = "flush"
    /\ wport' = 0
    /\ UNCHANGED <<accum, slots, lock, wleft, readerVars, window>>

(* Every port is written: release the lock and forget what is stale. *)
EndFlush ==
    /\ spc = "flush"
    /\ DOMAIN pending = {}
    /\ lock' = "free"
    /\ accum' = Pruned(accum)
    /\ spc' = "sniff"
    /\ UNCHANGED <<slots, bitmap, pending, wport, wleft, readerVars, window>>

(* The process ends: the stop event, an error of the capture library or of *)
(* a flush, or a kill at any point.  A reader that is attached keeps the   *)
(* mapping, with its contents, even when the segment is unlinked.  An      *)
(* error leaves the lock on its way out; a killed process never does.      *)
SnifferExit ==
    /\ spc # "exited"
    /\ spc' = "exited"
    /\ lock' \in {lock} \cup {l \in {"free"} : lock = "sniffer"}
    /\ UNCHANGED <<accum, slots, bitmap, pending, wport, wleft, readerVars, window>>

SnifferStep ==
    \/ StartFlush
    \/ \E p \in DOMAIN pending : StartWrite(p)
    \/ \E w \in wleft : CopyWord(w)
    \/ UpdateBitmap
    \/ EndFlush

-----------------------------------------------------------------------------
(* The reader: read_all_active_ports, called once per dispatcher pass.     *)

StartScan ==
    /\ rpc = "idle"
    /\ rlocked' \in ReaderLocks
    /\ rlocked' => lock = "free"
    /\ lock' = IF rlocked' THEN "reader" ELSE lock
    /\ rpc' = "scan"
    /\ rbytes' = {ByteOf(p) : p \in Ports}
    /\ UNCHANGED <<slots, bitmap, snifferVars, rports, rport, rleft, rbuf,
                   active, window>>

(* One byte of the bitmap, in ascending order.  Its eight bits are decided *)
(* on this copy, however long the ports of the byte take to read.          *)
ReadBitmapByte(b) ==
    /\ rpc = "scan"
    /\ rports = {}
    /\ \A c \in rbytes : b <= c
    /\ rbytes' = rbytes \ {b}
    /\ rports' = {p \in bitmap : ByteOf(p) = b}
    /\ UNCHANGED <<slots, bitmap, lock, snifferVars, rpc, rlocked, rport, rleft, rbuf,
                   active, window>>

(* read_port_entry starts to copy the slot of the next port of the byte. *)
StartRead(p) ==
    /\ rpc = "scan"
    /\ \A q \in rports : p <= q
    /\ rpc' = "copy"
    /\ rport' = p
    /\ rports' = rports \ {p}
    /\ rleft' = Words
    /\ window' = slots[p].mac \cup (IF wport = p THEN {pending[p]} ELSE {})
    /\ UNCHANGED <<slots, bitmap, lock, snifferVars, rlocked, rbytes, rbuf, active>>

(* raw = bytes(buf[offset:offset + ENTRY_SIZE]), one word of it. *)
ReadWord(w) ==
    /\ rpc = "copy"
    /\ rleft' = rleft \ {w}
    /\ rbuf' = Copied(rbuf, slots[rport], w)
    /\ UNCHANGED <<slots, bitmap, lock, snifferVars, rpc, rlocked, rbytes, rports, rport,
                   active, window>>

(* A copy that fails the HMAC is ignored, and so is an inactive entry. *)
Accept(s) == Verifies(s) /\ s.rest.active

FinishRead ==
    /\ rpc = "copy"
    /\ rleft = {}
    /\ active' = IF Accept(rbuf) THEN active \cup {<<rport, Data(rbuf)>>} ELSE active
    /\ rpc' = "scan"
    /\ rport' = 0
    /\ rbuf' = ZeroSlot
    /\ window' = {}
    /\ UNCHANGED <<slots, bitmap, lock, snifferVars, rlocked, rbytes, rports, rleft>>

(* The list goes to the dispatcher, which uses it and sleeps. *)
EndScan ==
    /\ rpc = "scan"
    /\ rbytes = {}
    /\ rports = {}
    /\ rpc' = "idle"
    /\ lock' = IF rlocked THEN "free" ELSE lock
    /\ rlocked' = FALSE
    /\ active' = {}
    /\ UNCHANGED <<slots, bitmap, snifferVars, rbytes, rports, rport, rleft, rbuf, window>>

ReaderStep ==
    \/ StartScan
    \/ \E b \in rbytes : ReadBitmapByte(b)
    \/ \E p \in rports : StartRead(p)
    \/ \E w \in rleft : ReadWord(w)
    \/ FinishRead
    \/ EndScan

-----------------------------------------------------------------------------
Next == PacketCallback \/ Tick \/ SnifferStep \/ SnifferExit \/ ReaderStep

(* Each process keeps running, and the clock advances: every sniff() lasts *)
(* CAPTURE_INTERVAL, so time that passes again and again while the sniffer *)
(* captures does not stand still for ever.  A scan that takes the lock     *)
(* leaves it free until the next pass, long enough for a waiting flush.    *)
(* Packets, and the end of the sniffer, are not promised.                  *)
Fairness ==
    /\ SF_vars(Tick)
    /\ SF_vars(StartFlush)
    /\ WF_vars(SnifferStep)
    /\ WF_vars(ReaderStep)

Spec == Init /\ [][Next]_vars

FairSpec == Spec /\ Fairness

-----------------------------------------------------------------------------
(* Properties.                                                             *)

TypeOK ==
    /\ IsDict(accum, Stat)
    /\ slots \in [Ports -> Slot]
    /\ bitmap \subseteq Ports
    /\ lock \in {"free", "sniffer", "reader"}
    /\ spc \in {"sniff", "flush", "copy", "exited"}
    /\ IsDict(pending, Entry)
    /\ wport \in Ports \cup {0}
    /\ wleft \subseteq Words
    /\ rpc \in {"idle", "scan", "copy"}
    /\ rlocked \in BOOLEAN
    /\ rbytes \subseteq {ByteOf(p) : p \in Ports}
    /\ rports \subseteq Ports
    /\ rport \in Ports \cup {0}
    /\ rleft \subseteq Words
    /\ rbuf \in Slot
    /\ active \subseteq Ports \X Entry
    /\ window \subseteq Entry

(* The dispatcher reads without the lock, so its copy of a slot may mix    *)
(* words of several writes.  What it accepts nevertheless is an entry the  *)
(* sniffer published as a whole for that port, and one that was the        *)
(* published entry, or the one being published, at some instant of this    *)
(* very read: never a mixture, and never an older entry.                   *)
RegularRead ==
    (rpc = "copy" /\ rleft = {} /\ Accept(rbuf)) => Data(rbuf) \in window

(* A port whose bit is set is one the sniffer still tracks: a port is      *)
(* forgotten only after its slot and its bit were published as inactive,   *)
(* so no entry is left behind that nobody will ever mark inactive.         *)
NoOrphanedBit == bitmap \subseteq DOMAIN accum

(* Between two flushes the segment is whole: every slot that is in use     *)
(* passes the HMAC check and its bit agrees with it.                       *)
SegmentWholeAtRest ==
    spc = "sniff" =>
        \A p \in Ports :
            /\ slots[p].mac # {} => Verifies(slots[p])
            /\ p \in bitmap <=> (Verifies(slots[p]) /\ slots[p].rest.active)

(* A port that stays quiet is not published for ever: while the sniffer    *)
(* runs, either packets of the port keep coming or its bit is cleared      *)
(* again and again.                                                        *)
QuietPortIsCleared ==
    \A p \in Ports :
        \/ <>(spc = "exited")
        \/ []<>(p \in DOMAIN accum /\ accum[p].age = 0)
        \/ []<>(p \notin bitmap)
=============================================================================
