-------------------------- MODULE CapturePlaneProofs -------------------------
(***************************************************************************)
(* Proofs about CapturePlane: its type invariant, that a read accepts only *)
(* an entry that was current while it ran (RegularRead), that no bit is    *)
(* left behind (NoOrphanedBit), that the segment is whole between two      *)
(* flushes (SegmentWholeAtRest), and that it implements PortRegister, for  *)
(* any number of ports and packets: the word by word copies of the two     *)
(* processes, that no lock orders, look like atomic registers to the       *)
(* dispatcher.                                                             *)
(***************************************************************************)
EXTENDS CaptureRefinement, TLAPS

-----------------------------------------------------------------------------
(* The pure operators of the sniffer keep a dict a dict.                   *)

(* One packet leaves the accumulation buffer well formed. *)
LEMMA CountedType ==
    ASSUME NEW acc, IsDict(acc, Stat), NEW s, NEW d
    PROVE  IsDict(Counted(acc, s, d), Stat)
<1>1. 0 \in Ages
  BY SnifferAssumption DEF SnifferAssumption, Ages
<1>2. ASSUME NEW a, IsDict(a, Stat), NEW p \in Ports
      PROVE  StatOf(a, p) \in Stat
  BY <1>1, <1>2 DEF StatOf, IsDict, Fresh, Stat
<1>3. ASSUME NEW a, IsDict(a, Stat), NEW p \in Ports, NEW v \in Stat
      PROVE  IsDict(Upsert(a, p, v), Stat)
  BY <1>3 DEF IsDict, Upsert
<1>4. ASSUME NEW a, IsDict(a, Stat), NEW p
      PROVE  IsDict(CountOut(a, p), Stat)
  <2>1. CASE p \notin Ports
    BY <2>1, <1>4 DEF CountOut
  <2>2. CASE p \in Ports
    <3>0. StatOf(a, p) \in Stat
      BY <2>2, <1>2, <1>4
    <3>1. [in |-> StatOf(a, p).in, out |-> StatOf(a, p).out + 1, age |-> 0] \in Stat
      BY <3>0, <1>1 DEF Stat
    <3> QED BY <3>1, <2>2, <1>3, <1>4 DEF CountOut
  <2> QED BY <2>1, <2>2
<1>5. ASSUME NEW a, IsDict(a, Stat), NEW p
      PROVE  IsDict(CountIn(a, p), Stat)
  <2>1. CASE p \notin Ports
    BY <2>1, <1>5 DEF CountIn
  <2>2. CASE p \in Ports
    <3>0. StatOf(a, p) \in Stat
      BY <2>2, <1>2, <1>5
    <3>1. [in |-> StatOf(a, p).in + 1, out |-> StatOf(a, p).out, age |-> 0] \in Stat
      BY <3>0, <1>1 DEF Stat
    <3> QED BY <3>1, <2>2, <1>3, <1>5 DEF CountIn
  <2> QED BY <2>1, <2>2
<1> QED BY <1>4, <1>5 DEF Counted

(* So does the passage of time. *)
LEMMA AgedType ==
    ASSUME NEW acc, IsDict(acc, Stat)
    PROVE  /\ IsDict(Aged(acc), Stat)
           /\ DOMAIN Aged(acc) = DOMAIN acc
<1>1. ASSUME NEW a \in Ages PROVE Older(a) \in Ages
  BY SnifferAssumption DEF SnifferAssumption, Ages, Older
<1>2. ASSUME NEW q \in DOMAIN acc
      PROVE  [acc[q] EXCEPT !.age = Older(@)] \in Stat
  BY <1>1 DEF IsDict, Stat
<1> QED BY <1>2 DEF Aged, IsDict

(* So does the synthetic traffic. *)
LEMMA MockedType ==
    ASSUME NEW acc, IsDict(acc, Stat), NEW m \in SUBSET MockPorts
    PROVE  /\ IsDict(Mocked(acc, m), Stat)
           /\ DOMAIN acc \subseteq DOMAIN Mocked(acc, m)
<1>1. 0 \in Ages /\ m \subseteq Ports
  BY SnifferAssumption DEF SnifferAssumption, Ages
<1>2. ASSUME NEW q \in m
      PROVE  [in |-> StatOf(acc, q).in + 1, out |-> StatOf(acc, q).out + 1, age |-> 0] \in Stat
  <2>1. StatOf(acc, q) \in Stat
    BY <1>1 DEF StatOf, IsDict, Fresh, Stat
  <2> QED BY <2>1, <1>1 DEF Stat
<1>3. \A q \in DOMAIN acc : acc[q] \in Stat
  BY DEF IsDict
<1>4. DOMAIN Mocked(acc, m) = DOMAIN acc \cup m
  BY DEF Mocked
<1>5. \A q \in DOMAIN acc \cup m : Mocked(acc, m)[q] \in Stat
  BY <1>2, <1>3 DEF Mocked
<1> QED BY <1>1, <1>4, <1>5 DEF IsDict, Mocked

(* A packed entry is an entry. *)
LEMMA PackedType ==
    ASSUME NEW s \in Stat PROVE Packed(s) \in Entry
<1>1. ASSUME NEW x \in Nat PROVE x % CounterMod \in Nat
  BY SnifferAssumption DEF SnifferAssumption
<1>2. IsActive(s) \in BOOLEAN
  BY DEF IsActive, Stat
<1> QED BY <1>1, <1>2 DEF Packed, Entry, Stat

(* Pruning drops keys, and only of entries past PruneAge. *)
LEMMA PrunedType ==
    ASSUME NEW acc, IsDict(acc, Stat)
    PROVE  /\ IsDict(Pruned(acc), Stat)
           /\ \A q \in DOMAIN acc : IsActive(acc[q]) => q \in DOMAIN Pruned(acc)
<1>1. \A q \in DOMAIN acc : acc[q].age \in Nat
  BY SnifferAssumption DEF IsDict, Stat, Ages, SnifferAssumption
<1>2. \A q \in DOMAIN acc : IsActive(acc[q]) => acc[q].age <= PruneAge
  BY <1>1, SnifferAssumption DEF IsActive, SnifferAssumption
<1> QED BY <1>2 DEF Pruned, IsDict

-----------------------------------------------------------------------------
(* The inductive invariant.                                                *)

(* The port being written, if there is one, is still to be written, and    *)
(* where the sniffer is says whether there is one.                         *)
ControlOK ==
    /\ wport # 0 => wport \in DOMAIN pending
    /\ spc = "copy" => wport # 0
    /\ spc \in {"sniff", "flush"} => wport = 0
    /\ rpc = "copy" => rport \in Ports

(* While a slot is read, every HMAC that is or was in it belongs to an     *)
(* entry of the window, and so does the HMAC the reader may hold.          *)
WindowOK ==
    /\ rpc = "copy" =>
        /\ slots[rport].mac \subseteq window
        /\ wport = rport => pending[wport] \in window
        /\ rbuf.mac \subseteq window
    /\ rpc # "copy" => rbuf = ZeroSlot

(* In a flush, what was written already agrees with the bitmap, and what   *)
(* is still to be written is what the buffer says.                         *)
FlushOK ==
    spc \in {"flush", "copy"} =>
        /\ DOMAIN pending \subseteq DOMAIN accum
        /\ \A p \in DOMAIN pending : pending[p].active = IsActive(accum[p])
        /\ \A p \in bitmap \ DOMAIN pending : IsActive(accum[p])

Inv == TypeOK /\ ControlOK /\ WindowOK /\ FlushOK /\ NoOrphanedBit

(* The first state satisfies the invariant. *)
LEMMA InitInv == Init => Inv
<1> SUFFICES ASSUME Init PROVE Inv
  OBVIOUS
<1>1. ZeroSlot \in Slot
  BY DEF ZeroSlot, Slot
<1>2. TypeOK
  <2>1. IsDict(accum, Stat) /\ IsDict(pending, Entry)
    BY DEF Init, IsDict
  <2>2. slots \in [Ports -> Slot] /\ rbuf \in Slot
    BY <1>1 DEF Init
  <2> QED BY <2>1, <2>2 DEF Init, TypeOK
<1>3. ControlOK /\ WindowOK /\ FlushOK /\ NoOrphanedBit
  BY DEF Init, ControlOK, WindowOK, FlushOK, NoOrphanedBit
<1> QED BY <1>2, <1>3 DEF Inv

(* Capturing a packet and the passage of time touch the buffer only. *)
LEMMA CaptureInv ==
    ASSUME Inv, PacketCallback \/ Tick
    PROVE  Inv'
<1>1. IsDict(accum', Stat) /\ DOMAIN accum \subseteq DOMAIN accum'
  <2>1. CASE PacketCallback
    <3>1. PICK f \in Flows : accum' = Counted(accum, f[1], f[2])
      BY <2>1 DEF PacketCallback
    <3>2. DOMAIN accum \subseteq DOMAIN accum'
      BY <3>1 DEF Counted, CountIn, CountOut, Upsert
    <3> QED BY <3>1, <3>2, CountedType DEF Inv, TypeOK
  <2>2. CASE Tick
    BY <2>2, AgedType DEF Tick, Inv, TypeOK
  <2> QED BY <2>1, <2>2
<1>2. UNCHANGED <<slots, bitmap, lock, spc, pending, wport, wleft, readerVars, window>>
  BY DEF PacketCallback, Tick
<1>3. spc = "sniff"
  BY DEF PacketCallback, Tick
<1>4. TypeOK'
  BY <1>1, <1>2 DEF Inv, TypeOK, readerVars
<1>5. ControlOK' /\ WindowOK' /\ FlushOK' /\ NoOrphanedBit'
  BY <1>1, <1>2, <1>3 DEF Inv, ControlOK, WindowOK, FlushOK, NoOrphanedBit, readerVars
<1> QED BY <1>4, <1>5 DEF Inv

(* Starting a flush fixes the entries to write. *)
LEMMA StartFlushInv ==
    ASSUME Inv, StartFlush
    PROVE  Inv'
<1>1. PICK m \in SUBSET MockPorts : accum' = Mocked(accum, m)
  BY DEF StartFlush
<1>2. IsDict(accum', Stat) /\ DOMAIN accum \subseteq DOMAIN accum'
  BY <1>1, MockedType DEF Inv, TypeOK
<1>3. IsDict(pending', Entry)
  BY <1>2, PackedType DEF StartFlush, IsDict
<1>4. \A p \in DOMAIN accum' : pending'[p].active = IsActive(accum'[p])
  BY DEF StartFlush, Packed
<1>5. wport = 0 /\ wport' = 0 /\ DOMAIN pending' = DOMAIN accum'
  BY DEF StartFlush, Inv, ControlOK
<1>6. TypeOK'
  BY <1>2, <1>3 DEF StartFlush, Inv, TypeOK, readerVars
<1>7. ControlOK'
  BY <1>5 DEF StartFlush, Inv, ControlOK, readerVars
<1>8. WindowOK'
  BY <1>5, SnifferAssumption
  DEF StartFlush, Inv, ControlOK, WindowOK, readerVars, SnifferAssumption
<1>9. FlushOK' /\ NoOrphanedBit'
  BY <1>2, <1>4, <1>5 DEF StartFlush, Inv, NoOrphanedBit, FlushOK
<1> QED BY <1>6, <1>7, <1>8, <1>9 DEF Inv

(* A write that starts while its slot is read widens the window. *)
LEMMA StartWriteInv ==
    ASSUME Inv, NEW p \in DOMAIN pending, StartWrite(p)
    PROVE  Inv'
<1>1. p \in Ports /\ pending[p] \in Entry
  BY DEF Inv, TypeOK, IsDict
<1>2. TypeOK'
  BY <1>1 DEF StartWrite, Inv, TypeOK, readerVars
<1>3. ControlOK'
  BY <1>1, SnifferAssumption DEF StartWrite, Inv, ControlOK, readerVars, SnifferAssumption
<1>4. WindowOK'
  BY DEF StartWrite, Inv, ControlOK, WindowOK, readerVars
<1>5. FlushOK' /\ NoOrphanedBit'
  BY DEF StartWrite, Inv, FlushOK, NoOrphanedBit
<1> QED BY <1>2, <1>3, <1>4, <1>5 DEF Inv

(* The only HMAC a write puts into a slot is that of its own entry. *)
LEMMA CopyWordInv ==
    ASSUME Inv, NEW w \in wleft, CopyWord(w)
    PROVE  Inv'
<1>1. wport \in DOMAIN pending /\ wport \in Ports /\ pending[wport] \in Entry
  BY DEF CopyWord, Inv, ControlOK, TypeOK, IsDict
<1> DEFINE new == Copied(slots[wport], Image(pending[wport]), w)
<1>2. new \in Slot
  BY <1>1 DEF Inv, TypeOK, Slot, Entry, Image, Copied
<1>3. new.mac \subseteq slots[wport].mac \cup {pending[wport]}
  BY DEF Copied, Image
<1>4. slots' = [slots EXCEPT ![wport] = new]
  BY DEF CopyWord
<1>5. TypeOK'
  BY <1>2, <1>4 DEF CopyWord, Inv, TypeOK, readerVars
<1>6. ControlOK'
  BY DEF CopyWord, Inv, ControlOK, readerVars
<1>7. WindowOK'
  <2> HIDE DEF new
  <2>1. rpc = "copy" => slots'[rport].mac \subseteq window
    BY <1>1, <1>3, <1>4 DEF Inv, TypeOK, ControlOK, WindowOK
  <2> QED BY <2>1 DEF CopyWord, Inv, WindowOK, readerVars
<1>8. FlushOK' /\ NoOrphanedBit'
  BY DEF CopyWord, Inv, FlushOK, NoOrphanedBit
<1> QED BY <1>5, <1>6, <1>7, <1>8 DEF Inv

(* The bit of the port just written follows its entry. *)
LEMMA UpdateBitmapInv ==
    ASSUME Inv, UpdateBitmap
    PROVE  Inv'
<1>1. wport \in DOMAIN pending /\ wport \in Ports /\ 0 \notin Ports
  BY SnifferAssumption DEF UpdateBitmap, Inv, ControlOK, TypeOK, IsDict, SnifferAssumption
<1>2. /\ DOMAIN pending' = DOMAIN pending \ {wport}
      /\ \A p \in DOMAIN pending' : pending'[p] = pending[p]
  BY DEF UpdateBitmap
<1>3. bitmap' = IF pending[wport].active THEN bitmap \cup {wport} ELSE bitmap \ {wport}
  BY DEF UpdateBitmap
<1>4. IsDict(pending', Entry)
  BY <1>2 DEF UpdateBitmap, Inv, TypeOK, IsDict
<1>5. TypeOK'
  BY <1>1, <1>3, <1>4 DEF UpdateBitmap, Inv, TypeOK, readerVars
<1>6. ControlOK' /\ WindowOK'
  BY <1>1 DEF UpdateBitmap, Inv, ControlOK, WindowOK, readerVars
<1>7. FlushOK'
  <2>1. \A p \in bitmap' \ DOMAIN pending' : IsActive(accum[p])
    BY <1>1, <1>2, <1>3 DEF UpdateBitmap, Inv, FlushOK
  <2> QED BY <2>1, <1>1, <1>2 DEF UpdateBitmap, Inv, FlushOK
<1>8. NoOrphanedBit'
  BY <1>1, <1>3 DEF UpdateBitmap, Inv, FlushOK, NoOrphanedBit
<1> QED BY <1>5, <1>6, <1>7, <1>8 DEF Inv

(* Pruning forgets only ports the flush has just published as inactive. *)
LEMMA EndFlushInv ==
    ASSUME Inv, EndFlush
    PROVE  Inv'
<1>1. IsDict(accum', Stat)
  BY PrunedType DEF EndFlush, Inv, TypeOK
<1>2. TypeOK'
  BY <1>1 DEF EndFlush, Inv, TypeOK, readerVars
<1>3. ControlOK' /\ WindowOK' /\ FlushOK'
  BY DEF EndFlush, Inv, ControlOK, WindowOK, FlushOK, readerVars
<1>4. NoOrphanedBit'
  BY PrunedType DEF EndFlush, Inv, TypeOK, FlushOK, NoOrphanedBit
<1> QED BY <1>2, <1>3, <1>4 DEF Inv

(* The end of the sniffer leaves the segment as it is. *)
LEMMA SnifferExitInv ==
    ASSUME Inv, SnifferExit
    PROVE  Inv'
<1>1. TypeOK'
  BY DEF SnifferExit, Inv, TypeOK, readerVars
<1>2. ControlOK' /\ WindowOK' /\ FlushOK' /\ NoOrphanedBit'
  BY DEF SnifferExit, Inv, ControlOK, WindowOK, FlushOK, NoOrphanedBit, readerVars
<1> QED BY <1>1, <1>2 DEF Inv

(* The reader's steps: the window opens with the HMAC in the slot and the  *)
(* write in progress, and the reader copies no HMAC from elsewhere.        *)
LEMMA ReaderInv ==
    ASSUME Inv, ReaderStep
    PROVE  Inv'
<1>1. UNCHANGED <<slots, bitmap, snifferVars>>
  BY DEF ReaderStep, StartScan, ReadBitmapByte, StartRead, ReadWord, FinishRead, EndScan
<1>2. FlushOK' /\ NoOrphanedBit'
  BY <1>1 DEF Inv, FlushOK, NoOrphanedBit, snifferVars
<1>3. CASE StartScan
  <2>1. rlocked' \in BOOLEAN
    BY <1>3, CaptureAssumption DEF StartScan, CaptureAssumption
  <2>2. lock' \in {"free", "sniffer", "reader"}
    BY <1>3 DEF StartScan, Inv, TypeOK
  <2>3. TypeOK'
    BY <2>1, <2>2, <1>3 DEF StartScan, Inv, TypeOK, snifferVars
  <2> QED BY <2>3, <1>2, <1>3 DEF StartScan, Inv, TypeOK, ControlOK, WindowOK, snifferVars
<1>4. ASSUME NEW b \in rbytes, ReadBitmapByte(b) PROVE Inv'
  BY <1>2, <1>4 DEF ReadBitmapByte, Inv, TypeOK, ControlOK, WindowOK, snifferVars
<1>5. ASSUME NEW p \in rports, StartRead(p) PROVE Inv'
  <2>1. p \in Ports /\ slots[p].mac \subseteq Entry
    BY DEF Inv, TypeOK, Slot
  <2>2. wport = p => pending[wport] \in window'
    BY <1>5 DEF StartRead
  <2>3. wport = p => pending[wport] \in Entry
    BY <2>1, SnifferAssumption DEF Inv, TypeOK, ControlOK, IsDict, SnifferAssumption
  <2>4. window' \subseteq Entry
    BY <2>1, <2>3, <1>5 DEF StartRead
  <2> QED BY <2>1, <2>2, <2>4, <1>2, <1>5
          DEF StartRead, Inv, TypeOK, ControlOK, WindowOK, snifferVars, ZeroSlot
<1>6. ASSUME NEW w \in rleft, ReadWord(w) PROVE Inv'
  <2>1. rport \in Ports /\ slots[rport] \in Slot /\ rbuf \in Slot
    BY <1>6 DEF ReadWord, Inv, TypeOK, ControlOK
  <2>2. rbuf' \in Slot /\ rbuf'.mac \subseteq window
    BY <2>1, <1>6 DEF ReadWord, Copied, Slot, Inv, WindowOK
  <2> QED BY <2>2, <1>2, <1>6 DEF ReadWord, Inv, TypeOK, ControlOK, WindowOK, snifferVars
<1>7. CASE FinishRead
  <2>1. ZeroSlot \in Slot
    BY DEF ZeroSlot, Slot
  <2>2. rport \in Ports /\ Data(rbuf) \in Entry
    BY <1>7 DEF FinishRead, Inv, TypeOK, ControlOK, Slot, Data, Entry
  <2> QED BY <2>1, <2>2, <1>2, <1>7
          DEF FinishRead, Inv, TypeOK, ControlOK, WindowOK, snifferVars
<1>8. CASE EndScan
  BY <1>2, <1>8 DEF EndScan, Inv, TypeOK, ControlOK, WindowOK, snifferVars
<1> QED BY <1>3, <1>4, <1>5, <1>6, <1>7, <1>8 DEF ReaderStep

(* The invariant holds in every reachable state. *)
THEOREM Invariance == Spec => []Inv
<1>1. Inv /\ [Next]_vars => Inv'
  <2> SUFFICES ASSUME Inv, [Next]_vars PROVE Inv'
    OBVIOUS
  <2>1. CASE UNCHANGED vars
    BY <2>1 DEF vars, Inv, TypeOK, ControlOK, WindowOK, FlushOK, NoOrphanedBit
  <2>2. CASE SnifferStep
    BY <2>2, StartFlushInv, StartWriteInv, CopyWordInv, UpdateBitmapInv, EndFlushInv
    DEF SnifferStep
  <2> QED BY <2>1, <2>2, CaptureInv, SnifferExitInv, ReaderInv DEF Next
<1> QED BY InitInv, <1>1, PTL DEF Spec

-----------------------------------------------------------------------------
(* The segment between flushes.                                            *)

Whole(p) ==
    /\ slots[p].mac # {} => Verifies(slots[p])
    /\ p \in bitmap <=> (Verifies(slots[p]) /\ slots[p].rest.active)

(* The words of the slot in progress that were copied are the entry's. *)
CopiedOK ==
    /\ "in" \notin wleft => slots[wport].in = Image(pending[wport]).in
    /\ "rest" \notin wleft => slots[wport].rest = Image(pending[wport]).rest
    /\ "mac" \notin wleft => slots[wport].mac = Image(pending[wport]).mac

(* While the sniffer lives, only the slot it is writing may be torn. *)
SegmentOK ==
    spc # "exited" =>
        /\ \A p \in Ports \ {wport} : Whole(p)
        /\ spc = "copy" => CopiedOK

(* A write tears its own slot, word by word, and the bit makes it whole. *)
LEMMA WriteSegment ==
    ASSUME Inv, SegmentOK,
           (\E p \in DOMAIN pending : StartWrite(p)) \/ (\E w \in wleft : CopyWord(w)) \/ UpdateBitmap
    PROVE  SegmentOK'
<1>1. ASSUME NEW p \in DOMAIN pending, StartWrite(p) PROVE SegmentOK'
  <2>1. \A q \in Ports : Whole(q)
    BY <1>1, SnifferAssumption DEF StartWrite, Inv, ControlOK, SegmentOK, SnifferAssumption
  <2>2. wleft' = Words /\ UNCHANGED <<slots, bitmap>>
    BY <1>1 DEF StartWrite
  <2> QED BY <2>1, <2>2 DEF SegmentOK, CopiedOK, Whole, Words
<1>2. ASSUME NEW w \in wleft, CopyWord(w) PROVE SegmentOK'
  <2>1. /\ slots \in [Ports -> Slot]
        /\ wport \in Ports
        /\ w \in Words
    BY <1>2 DEF CopyWord, Inv, TypeOK, ControlOK
  <2>2. /\ slots' = [slots EXCEPT ![wport] = Copied(slots[wport], Image(pending[wport]), w)]
        /\ wleft' = wleft \ {w}
        /\ UNCHANGED <<bitmap, pending, wport, spc>>
    BY <1>2 DEF CopyWord
  <2>3. \A p \in Ports \ {wport} : Whole(p)'
    BY <1>2, <2>1, <2>2 DEF CopyWord, SegmentOK, Whole
  <2>4. slots'[wport] = Copied(slots[wport], Image(pending[wport]), w)
    BY <2>1, <2>2
  <2>5. CopiedOK'
    <3>1. CopiedOK
      BY <1>2 DEF CopyWord, SegmentOK
    <3> QED BY <3>1, <2>1, <2>2, <2>4 DEF CopiedOK, Copied, Words
  <2> QED BY <2>2, <2>3, <2>5 DEF SegmentOK
<1>3. CASE UpdateBitmap
  <2>1. wport \in Ports /\ pending[wport] \in Entry
    BY <1>3 DEF UpdateBitmap, Inv, ControlOK, TypeOK, IsDict
  <2>2. /\ slots[wport].in = pending[wport].in
        /\ slots[wport].rest = [out |-> pending[wport].out, active |-> pending[wport].active]
        /\ slots[wport].mac = {pending[wport]}
    BY <1>3 DEF UpdateBitmap, SegmentOK, CopiedOK, Image
  <2>3. Data(slots[wport]) = pending[wport]
    BY <2>1, <2>2 DEF Data, Entry
  <2>4. Verifies(slots[wport]) /\ slots[wport].rest.active = pending[wport].active
    BY <2>2, <2>3 DEF Verifies
  <2>5. UNCHANGED slots /\ spc' = "flush"
    BY <1>3 DEF UpdateBitmap
  <2>6. bitmap' = IF pending[wport].active THEN bitmap \cup {wport} ELSE bitmap \ {wport}
    BY <1>3 DEF UpdateBitmap
  <2>7. \A p \in Ports \ {wport} : Whole(p)
    BY <1>3 DEF UpdateBitmap, SegmentOK
  <2>8. \A p \in Ports : Whole(p)'
    BY <2>4, <2>5, <2>6, <2>7 DEF Whole
  <2> QED BY <2>5, <2>8 DEF SegmentOK
<1> QED BY <1>1, <1>2, <1>3

(* The segment is whole but for the slot in progress, in every state. *)
LEMMA SegmentInvariance == Spec => []SegmentOK
<1>1. Init => SegmentOK
  BY DEF Init, SegmentOK, Whole, Verifies, ZeroSlot
<1>2. Inv /\ SegmentOK /\ [Next]_vars => SegmentOK'
  <2> SUFFICES ASSUME Inv, SegmentOK, [Next]_vars PROVE SegmentOK'
    OBVIOUS
  <2>1. CASE UNCHANGED <<slots, bitmap, wport, wleft, pending, spc>>
    BY <2>1 DEF SegmentOK, CopiedOK, Whole
  <2>2. CASE UNCHANGED <<slots, bitmap, wport>> /\ spc # "exited" /\ spc' # "copy"
    BY <2>2 DEF SegmentOK, Whole
  <2>3. CASE SnifferExit
    BY <2>3 DEF SnifferExit, SegmentOK
  <2>4. ReaderStep => UNCHANGED <<slots, bitmap, wport, wleft, pending, spc>>
    BY DEF ReaderStep, StartScan, ReadBitmapByte, StartRead, ReadWord, FinishRead, EndScan,
           snifferVars
  <2>5. PacketCallback \/ Tick \/ StartFlush \/ EndFlush
          => UNCHANGED <<slots, bitmap, wport>> /\ spc # "exited" /\ spc' # "copy"
    BY DEF PacketCallback, Tick, StartFlush, EndFlush
  <2> QED BY <2>1, <2>2, <2>3, <2>4, <2>5, WriteSegment DEF Next, SnifferStep, vars
<1> QED BY <1>1, <1>2, Invariance, PTL DEF Spec

-----------------------------------------------------------------------------
(* The results.                                                            *)

(* Every state of either process is well typed. *)
THEOREM TypeCorrect == Spec => []TypeOK
<1>1. Inv => TypeOK
  BY DEF Inv
<1> QED BY <1>1, Invariance, PTL

(* A lock-free read never accepts a mixture or an outdated entry. *)
THEOREM ReadsAreRegular == Spec => []RegularRead
<1>1. Inv => RegularRead
  BY DEF Inv, WindowOK, RegularRead, Accept, Verifies
<1> QED BY <1>1, Invariance, PTL

(* No port is forgotten while its bit is set. *)
THEOREM BitsAreOwned == Spec => []NoOrphanedBit
<1>1. Inv => NoOrphanedBit
  BY DEF Inv
<1> QED BY <1>1, Invariance, PTL

(* Between two flushes every slot passes the check and agrees with its bit. *)
THEOREM SegmentIsWhole == Spec => []SegmentWholeAtRest
<1>1. Inv /\ SegmentOK => SegmentWholeAtRest
  BY SnifferAssumption
  DEF Inv, ControlOK, SegmentOK, Whole, SegmentWholeAtRest, SnifferAssumption
<1> QED BY <1>1, Invariance, SegmentInvariance, PTL

-----------------------------------------------------------------------------
(* The refinement of PortRegister.                                         *)

(* Every entry a flush has still to write has wrapped counters. *)
PendingOK == \A p \in DOMAIN pending : pending[p] \in Published

(* Packing wraps the counters. *)
LEMMA PackedPublished ==
    ASSUME NEW s \in Stat PROVE Packed(s) \in Published
<1>1. ASSUME NEW x \in Nat PROVE x % CounterMod \in 0 .. (CounterMod - 1)
  BY SnifferAssumption DEF SnifferAssumption
<1>2. IsActive(s) \in BOOLEAN
  BY DEF IsActive, Stat
<1> QED BY <1>1, <1>2 DEF Packed, Published, Stat

(* A flush fixes the entries it writes, and writing only removes them. *)
LEMMA PendingStep ==
    ASSUME Inv, PendingOK, [Next]_vars
    PROVE  PendingOK'
<1>1. CASE UNCHANGED pending
  BY <1>1 DEF PendingOK
<1>2. CASE StartFlush
  <2>1. PICK m \in SUBSET MockPorts : accum' = Mocked(accum, m)
    BY <1>2 DEF StartFlush
  <2>2. IsDict(accum', Stat)
    BY <2>1, MockedType DEF Inv, TypeOK
  <2> QED BY <1>2, <2>2, PackedPublished DEF StartFlush, IsDict, PendingOK
<1>3. CASE UpdateBitmap
  BY <1>3 DEF UpdateBitmap, PendingOK
<1>4. ReaderStep => UNCHANGED pending
  BY DEF ReaderStep, StartScan, ReadBitmapByte, StartRead, ReadWord, FinishRead, EndScan,
         snifferVars
<1> QED BY <1>1, <1>2, <1>3, <1>4
        DEF Next, SnifferStep, PacketCallback, Tick, StartWrite, CopyWord, EndFlush,
            SnifferExit, vars

(* The invariant the refinement rests on holds in every reachable state. *)
LEMMA PendingInvariance == Spec => [](Inv /\ PendingOK)
<1>1. Init => PendingOK
  BY DEF Init, PendingOK
<1>2. PendingOK /\ Inv /\ [Next]_vars => PendingOK'
  BY PendingStep
<1> QED BY <1>1, <1>2, Invariance, PTL DEF Spec

-----------------------------------------------------------------------------
(* The steps.                                                              *)

(* The registers' view of the state. *)
Registers == [p \in Ports |-> slots[p].mac]

(* A step that leaves the HMACs and the reader alone is a stutter. *)
LEMMA Stutter ==
    ASSUME UNCHANGED <<rpc, rport, rleft, rbuf, active>>, Registers' = Registers
    PROVE  UNCHANGED Register!vars
BY DEF Register!vars, Phase, Registers

(* Of the words of a slot only the HMAC publishes. *)
LEMMA CopyWordPublishes ==
    ASSUME Inv, PendingOK, NEW w \in wleft, CopyWord(w)
    PROVE  [Register!Next]_(Register!vars)
<1>1. /\ wport \in Ports /\ pending[wport] \in Published
      /\ slots \in [Ports -> Slot]
  BY DEF CopyWord, Inv, ControlOK, TypeOK, IsDict, PendingOK
<1>2. UNCHANGED <<rpc, rport, rleft, rbuf, active>>
  BY DEF CopyWord, readerVars
<1>3. slots' = [slots EXCEPT ![wport] = Copied(slots[wport], Image(pending[wport]), w)]
  BY DEF CopyWord
<1>4. CASE w = "mac"
  <2>1. Registers' = [Registers EXCEPT ![wport] = {pending[wport]}]
    BY <1>1, <1>3, <1>4 DEF Registers, Copied, Image
  <2>2. UNCHANGED <<Phase, rport, rbuf.mac, active>>
    BY <1>2 DEF Phase
  <2> QED BY <2>1, <2>2, <1>1 DEF Register!Publish, Register!Next, Registers
<1>5. CASE w # "mac"
  <2>1. Registers' = Registers
    BY <1>1, <1>3, <1>5 DEF Registers, Copied
  <2> QED BY <2>1, <1>2, Stutter
<1> QED BY <1>4, <1>5

(* The reader begins, takes when it copies the HMAC, and ends; an entry    *)
(* that passes the check is the one it took.                               *)
LEMMA ReaderSteps ==
    ASSUME Inv, ReaderStep
    PROVE  [Register!Next]_(Register!vars)
<1>1. Registers' = Registers
  BY DEF ReaderStep, StartScan, ReadBitmapByte, StartRead, ReadWord, FinishRead, EndScan,
         Registers
<1>2. CASE StartScan
  BY <1>1, <1>2 DEF StartScan, Register!vars, Phase, Registers
<1>3. ASSUME NEW b \in rbytes, ReadBitmapByte(b) PROVE UNCHANGED Register!vars
  BY <1>1, <1>3, Stutter DEF ReadBitmapByte
<1>4. ASSUME NEW p \in rports, StartRead(p) PROVE Register!BeginRead(p) /\ p \in Ports
  BY <1>1, <1>4 DEF StartRead, Register!BeginRead, Phase, Registers, Words, Inv, TypeOK
<1>5. ASSUME NEW w \in rleft, ReadWord(w) PROVE [Register!Next]_(Register!vars)
  <2>1. rport \in Ports
    BY <1>5 DEF ReadWord, Inv, ControlOK
  <2>2. CASE w = "mac"
    <3>1. rbuf'.mac = Registers[rport]
      BY <1>5, <2>1, <2>2 DEF ReadWord, Copied, Registers
    <3>2. Register!Take
      BY <1>1, <1>5, <2>2, <3>1 DEF ReadWord, Register!Take, Phase, Registers
    <3> QED BY <3>2 DEF Register!Next
  <2>3. CASE w # "mac"
    BY <1>1, <1>5, <2>3 DEF ReadWord, Copied, Register!vars, Phase, Registers
  <2> QED BY <2>2, <2>3
<1>6. CASE FinishRead
  <2>1. Phase = "taken" /\ Phase' = "idle" /\ rport' = 0 /\ rbuf'.mac = {}
    BY <1>6 DEF FinishRead, Phase, ZeroSlot
  <2>2. active' \in {active} \cup {active \cup {<<rport, e>>} : e \in {f \in rbuf.mac : f.active}}
    BY <1>6 DEF FinishRead, Accept, Verifies, Data
  <2>3. Register!EndRead
    BY <1>1, <2>1, <2>2 DEF Register!EndRead, Register!NoPort, Registers
  <2> QED BY <2>3 DEF Register!Next
<1>7. CASE EndScan
  <2>1. Register!Deliver
    BY <1>1, <1>7 DEF EndScan, Register!Deliver, Phase, Registers
  <2> QED BY <2>1 DEF Register!Next
<1> QED BY <1>2, <1>3, <1>4, <1>5, <1>6, <1>7 DEF ReaderStep, Register!Next

-----------------------------------------------------------------------------
(* What the dispatcher sees of the lock-free segment is what it would see  *)
(* of one atomic register per port.                                        *)
THEOREM Refinement == Spec => ImplementsRegister
<1>1. Init => Register!Init
  BY DEF Init, Register!Init, Register!NoPort, Phase, ZeroSlot
<1>2. Inv /\ PendingOK /\ [Next]_vars => [Register!Next]_(Register!vars)
  <2> SUFFICES ASSUME Inv, PendingOK, [Next]_vars
               PROVE  [Register!Next]_(Register!vars)
    OBVIOUS
  <2>1. CASE UNCHANGED <<rpc, rport, rleft, rbuf, active, slots>>
    BY <2>1, Stutter DEF Registers
  <2>2. ASSUME NEW w \in wleft, CopyWord(w) PROVE [Register!Next]_(Register!vars)
    BY <2>2, CopyWordPublishes
  <2> QED BY <2>1, <2>2, ReaderSteps
          DEF Next, SnifferStep, PacketCallback, Tick, StartFlush, StartWrite, UpdateBitmap,
              EndFlush, SnifferExit, readerVars, vars
<1> QED BY <1>1, <1>2, PendingInvariance, PTL DEF ImplementsRegister, Spec, Register!Spec
=============================================================================
