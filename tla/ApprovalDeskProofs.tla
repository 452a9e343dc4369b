--------------------------- MODULE ApprovalDeskProofs ---------------------------
(***************************************************************************)
(* The audit trail has the decisions the table of approvals has, and a     *)
(* call opens one ticket, within the limit of its address, for any         *)
(* dashboards, calls and limits, whatever the network loses or repeats.    *)
(***************************************************************************)
EXTENDS ApprovalDesk, FiniteSetTheorems, SequenceTheorems, TLAPS

Answers == {"nothing", "success", "failure", "error"}

(* The requests there are. *)
RequestsOK ==
    /\ waiting \in [Senders -> SUBSET Request]
    /\ told \in Seq(Answers)
    /\ inbox \subseteq Request

Status == {Pending} \cup Decisions

Row == [status : Status, by : Clicks \cup {Policy}]

Job == [request : Request, step : {"store", "audit"}, id : Nat]

(* The table and what the trail has of it grow together. *)
TablesOK ==
    /\ tickets \in Seq(Row)
    /\ trail \in Seq(Status)
    /\ Len(trail) = Len(tickets)

Resolves(h) == h.step = "audit" /\ h.request.call.op = "resolve"

(* One handler at a time; one that has stored a decision owes its entry.   *)
HandlerOK ==
    /\ \A g, h \in handling : g = h
    /\ \A h \in handling :
           /\ h \in Job
           /\ Resolves(h) => /\ h.id \in DOMAIN tickets
                             /\ tickets[h.id].status = h.request.call.status

(* Table and trail differ only where an entry is still owed, or was lost.  *)
EntriesOK ==
    \A i \in DOMAIN tickets :
        \/ <<"ticket", i>> \in broken
        \/ trail[i] = tickets[i].status
        \/ \E h \in handling : Resolves(h) /\ h.id = i

ServerOK == TablesOK /\ HandlerOK /\ EntriesOK

Inv == RequestsOK /\ ServerOK

-----------------------------------------------------------------------------
(* The steps of the server.                                                *)

(* A new request begins at its first step. *)
LEMMA BeginKeeps == ASSUME ServerOK, NEW q \in Request, Begin(q) PROVE ServerOK'
<1> DEFINE new == [request |-> q, step |-> "store", id |-> 0]
<1>1. /\ handling = {} /\ handling' = {new}
      /\ UNCHANGED <<tickets, trail, broken>>
  BY DEF Begin
<1>2. new \in Job /\ ~Resolves(new)
  BY DEF Resolves, Job
<1> HIDE DEF new
<1> QED BY <1>1, <1>2 DEF ServerOK, TablesOK, HandlerOK, EntriesOK, Resolves

(* A request for an approval adds a ticket and an entry that agree. *)
LEMMA CreateTicketKeeps ==
    ASSUME ServerOK, NEW h \in handling, CreateTicket(h)
    PROVE  ServerOK'
<1> DEFINE t == [status |-> Pending, by |-> h.request.click]
           g == [h EXCEPT !.step = "audit", !.id = Len(tickets) + 1]
<1>1. t \in Row /\ t.status = Pending
  BY DEF ServerOK, HandlerOK, Row, Job, Status, Request
<1>2. /\ g \in Job
      /\ g.request = h.request /\ h.request.call.op = "request" /\ h.step = "store"
  <2>1. h \in Job /\ Len(tickets) + 1 \in Nat
    BY DEF ServerOK, TablesOK, HandlerOK
  <2> QED BY <2>1 DEF Job, CreateTicket, Proceed
<1>3. ~Resolves(g) /\ ~Resolves(h)
  BY <1>2 DEF Resolves
<1>4. tickets' = Append(tickets, t) /\ trail' = Append(trail, Pending) /\ broken' = broken
  BY DEF CreateTicket
<1>5. handling' = {g}
  BY DEF ServerOK, HandlerOK, CreateTicket
<1> HIDE DEF t, g
<1>6. TablesOK'
  BY <1>1, <1>4 DEF ServerOK, TablesOK, Status
<1>7. HandlerOK'
  BY <1>2, <1>3, <1>5 DEF HandlerOK, Resolves
<1>8. EntriesOK'
  <2>1. /\ DOMAIN tickets' = DOMAIN tickets \cup {Len(tickets) + 1}
        /\ \A i \in DOMAIN tickets : tickets'[i] = tickets[i] /\ trail'[i] = trail[i]
        /\ trail'[Len(tickets) + 1] = Pending /\ tickets'[Len(tickets) + 1] = t
    BY <1>1, <1>4 DEF ServerOK, TablesOK, Status
  <2>2. \A i \in DOMAIN tickets : <<"ticket", i>> \in broken \/ trail[i] = tickets[i].status
    BY <1>3 DEF ServerOK, HandlerOK, EntriesOK
  <2> QED BY <1>1, <1>4, <2>1, <2>2 DEF EntriesOK
<1> QED BY <1>6, <1>7, <1>8 DEF ServerOK

(* A decision changes one ticket, and its entry is owed until it is written. *)
LEMMA UpdateTicketKeeps ==
    ASSUME ServerOK, NEW h \in handling, UpdateTicket(h)
    PROVE  ServerOK'
<1> DEFINE id == h.request.call.id
           status == h.request.call.status
           g == [h EXCEPT !.step = "audit", !.id = id]
<1>1. id \in DOMAIN tickets /\ status \in Decisions /\ h.request.call.op = "resolve"
  BY DEF UpdateTicket, Proceed, NotFound, Accepted
<1>2. /\ g \in Job
      /\ g.request = h.request /\ g.id = id /\ h.step = "store"
  <2>1. h \in Job /\ id \in Nat
    BY <1>1 DEF ServerOK, TablesOK, HandlerOK
  <2> QED BY <2>1 DEF Job, UpdateTicket, Proceed
<1>3. g.step = "audit" /\ Resolves(g) /\ ~Resolves(h)
  BY <1>1, <1>2 DEF Resolves, ServerOK, HandlerOK, Job
<1>4. /\ tickets' = [tickets EXCEPT ![id].status = status]
      /\ trail' = trail /\ broken' = broken
  BY DEF UpdateTicket
<1>5. handling' = {g}
  BY DEF ServerOK, HandlerOK, UpdateTicket
<1>6. /\ DOMAIN tickets' = DOMAIN tickets
      /\ tickets'[id].status = status
      /\ \A i \in DOMAIN tickets : i # id => tickets'[i] = tickets[i]
      /\ tickets' \in Seq(Row) /\ Len(tickets') = Len(tickets)
  <2>1. \A r \in Row : [r EXCEPT !.status = status] \in Row
                       /\ [r EXCEPT !.status = status].status = status
    BY <1>1 DEF Row, Status
  <2>2. tickets[id] \in Row
    BY <1>1 DEF ServerOK, TablesOK
  <2> DEFINE r == [tickets[id] EXCEPT !.status = status]
  <2>3. tickets' = [tickets EXCEPT ![id] = r]
    BY <1>4
  <2>4. r \in Row /\ r.status = status
    BY <2>1, <2>2
  <2> HIDE DEF id, status, r
  <2> QED BY <1>1, <2>3, <2>4 DEF ServerOK, TablesOK
<1> HIDE DEF id, status, g
<1>7. TablesOK'
  BY <1>4, <1>6 DEF ServerOK, TablesOK
<1>8. HandlerOK'
  BY <1>1, <1>2, <1>3, <1>5, <1>6 DEF HandlerOK, Resolves, id, status
<1>9. EntriesOK'
  <2>1. \A i \in DOMAIN tickets : <<"ticket", i>> \in broken \/ trail[i] = tickets[i].status
    BY <1>3 DEF ServerOK, HandlerOK, EntriesOK
  <2> QED BY <1>2, <1>3, <1>4, <1>5, <1>6, <2>1 DEF EntriesOK
<1> QED BY <1>7, <1>8, <1>9 DEF ServerOK

(* The entry of a decision settles what is owed. *)
LEMMA WriteAuditKeeps ==
    ASSUME ServerOK, NEW h \in handling, WriteAudit(h)
    PROVE  ServerOK'
<1>1. handling' = {} /\ tickets' = tickets
  BY DEF ServerOK, HandlerOK, WriteAudit
<1>2. HandlerOK'
  BY <1>1 DEF HandlerOK
<1>3. CASE Resolves(h)
  <2>1. /\ trail' = [trail EXCEPT ![h.id] = h.request.call.status]
        /\ broken' = broken \ {<<"ticket", h.id>>}
    BY <1>3 DEF WriteAudit, Resolves
  <2>2. /\ h.id \in DOMAIN tickets
        /\ tickets[h.id].status = h.request.call.status
        /\ tickets[h.id] \in Row
    BY <1>3 DEF ServerOK, HandlerOK, TablesOK
  <2>3. TablesOK'
    BY <1>1, <2>1, <2>2 DEF ServerOK, TablesOK, Row
  <2>4. EntriesOK'
    <3>1. \A i \in DOMAIN tickets : i # h.id =>
              <<"ticket", i>> \in broken \/ trail[i] = tickets[i].status
      BY DEF ServerOK, HandlerOK, EntriesOK
    <3>2. \A i \in DOMAIN tickets : i # h.id =>
              trail'[i] = trail[i] /\ (<<"ticket", i>> \in broken => <<"ticket", i>> \in broken')
      BY <2>1, <2>2 DEF ServerOK, TablesOK
    <3>3. trail'[h.id] = tickets[h.id].status
      BY <2>1, <2>2 DEF ServerOK, TablesOK
    <3> QED BY <1>1, <3>1, <3>2, <3>3 DEF EntriesOK
  <2> QED BY <1>2, <2>3, <2>4 DEF ServerOK
<1>4. CASE ~Resolves(h)
  <2>1. UNCHANGED <<trail, broken>>
    BY <1>4 DEF WriteAudit, Resolves
  <2> QED BY <1>1, <1>2, <1>4, <2>1 DEF ServerOK, TablesOK, HandlerOK, EntriesOK
<1> QED BY <1>3, <1>4

(* A handler that breaks off after its commit writes no entry, which is    *)
(* noted.                                                                  *)
LEMMA BreaksOffKeeps ==
    ASSUME ServerOK, NEW h \in handling, BreaksOff(h)
    PROVE  ServerOK'
<1>1. handling' = {} /\ tickets' = tickets /\ trail' = trail
  BY DEF ServerOK, HandlerOK, BreaksOff
<1>2. broken \subseteq broken' /\ (Resolves(h) => <<"ticket", h.id>> \in broken')
  BY DEF BreaksOff, Resolves
<1> QED BY <1>1, <1>2 DEF ServerOK, TablesOK, HandlerOK, EntriesOK

(* A request that is refused, or whose change cannot be stored, leaves no trace. *)
LEMMA GivesUp ==
    ASSUME ServerOK, NEW h \in handling, Refuse(h) \/ StoreFails(h)
    PROVE  ServerOK'
<1>1. handling' = {} /\ UNCHANGED <<tickets, trail, broken>> /\ h.step = "store"
  BY DEF ServerOK, HandlerOK, Refuse, StoreFails, Proceed
<1> QED BY <1>1 DEF ServerOK, TablesOK, HandlerOK, EntriesOK, Resolves

(* So does the ticket of a policy. *)
LEMMA PolicyTicketKeeps == ASSUME ServerOK, PolicyTicket PROVE ServerOK'
<1> DEFINE t == [status |-> Pending, by |-> Policy]
<1>1. t \in Row /\ t.status = Pending
  BY DEF Row, Status
<1>2. /\ tickets' = Append(tickets, t) /\ trail' = Append(trail, Pending)
      /\ handling = {} /\ UNCHANGED <<handling, broken>>
  BY DEF PolicyTicket
<1> HIDE DEF t
<1>3. TablesOK'
  BY <1>1, <1>2 DEF ServerOK, TablesOK, Status
<1>4. HandlerOK'
  BY <1>2 DEF HandlerOK
<1>5. EntriesOK'
  <2>1. /\ DOMAIN tickets' = DOMAIN tickets \cup {Len(tickets) + 1}
        /\ \A i \in DOMAIN tickets : tickets'[i] = tickets[i] /\ trail'[i] = trail[i]
        /\ trail'[Len(tickets) + 1] = Pending /\ tickets'[Len(tickets) + 1] = t
    BY <1>1, <1>2 DEF ServerOK, TablesOK, Status
  <2> QED BY <1>1, <1>2, <2>1 DEF ServerOK, EntriesOK
<1> QED BY <1>3, <1>4, <1>5 DEF ServerOK

-----------------------------------------------------------------------------
(* The requests.                                                           *)

(* The second attempt of a call is a request like the first. *)
LEMMA SendAgainKeeps ==
    ASSUME RequestsOK, NEW q \in Request, NEW left, left \subseteq Request, SendAgain(q, left)
    PROVE  RequestsOK'
<1>1. CASE q.route = "primary"
  <2> DEFINE r == [q EXCEPT !.route = "secondary"]
  <2>1. r \in Request
    BY DEF Request, Routes
  <2>2. waiting' = [waiting EXCEPT ![q.from] = {r}] /\ inbox' = left \cup {r} /\ told' = told
    BY <1>1 DEF SendAgain
  <2> HIDE DEF r
  <2> QED BY <2>1, <2>2 DEF RequestsOK
<1>2. CASE q.route # "primary"
  BY <1>2 DEF SendAgain, RequestsOK, Answers
<1> QED BY <1>1, <1>2

(* An answer ends a call. *)
LEMMA ReplyKeeps ==
    ASSUME RequestsOK, NEW q \in Request, NEW answer \in Answers, Reply(q, answer)
    PROVE  RequestsOK'
<1>1. waiting' \in [Senders -> SUBSET Request]
  BY DEF RequestsOK, Reply
<1>2. told' \in Seq(Answers)
  <2>1. told \in Seq(Answers) /\ (told' = told \/ told' = [told EXCEPT ![q.click] = answer])
    BY DEF RequestsOK, Reply
  <2> QED BY <2>1
<1>3. inbox' \subseteq Request
  BY DEF RequestsOK, Reply
<1> QED BY <1>1, <1>2, <1>3 DEF RequestsOK

(* A call is numbered by the calls before it. *)
LEMMA ClickKeeps ==
    ASSUME RequestsOK, NEW s \in Senders, NEW c \in Call, Click(s, c)
    PROVE  RequestsOK'
<1> DEFINE q == [from |-> s, click |-> Len(told) + 1, route |-> "primary", call |-> c]
<1>1. q \in Request
  BY ApprovalAssumption DEF ApprovalAssumption, RequestsOK, Click, Clicks, Request, Routes
<1>2. /\ waiting' = [waiting EXCEPT ![s] = {q}] /\ inbox' = inbox \cup {q}
      /\ told' = Append(told, "nothing")
  BY DEF Click
<1> HIDE DEF q
<1> QED BY <1>1, <1>2 DEF RequestsOK, Answers

-----------------------------------------------------------------------------
(* The inductive invariant. *)
THEOREM Invariance == Spec => []Inv
<1>1. Init => Inv
  BY DEF Init, ApprovalInit, Inv, RequestsOK, ServerOK, TablesOK, HandlerOK, EntriesOK
<1>2. Inv /\ [Next]_vars => Inv'
  <2> SUFFICES ASSUME Inv, [Next]_vars PROVE Inv'
    OBVIOUS
  <2> USE DEF Inv
  <2>1. ASSUME UNCHANGED approvalVars PROVE ServerOK'
    BY <2>1 DEF approvalVars, ServerOK, TablesOK, HandlerOK, EntriesOK
  <2>2. ASSUME UNCHANGED <<waiting, told, inbox>> PROVE RequestsOK'
    BY <2>2 DEF RequestsOK
  <2>3. ASSUME NEW s \in Senders, NEW c \in Call, Click(s, c) PROVE Inv'
    BY <2>1, <2>3, ClickKeeps DEF Click
  <2>4. ASSUME NEW s \in Senders, NetworkFails(s) PROVE Inv'
    <3>1. PICK q \in waiting[s], left \in {inbox, inbox \ waiting[s]} : SendAgain(q, left)
      BY <2>4 DEF NetworkFails
    <3>2. q \in Request /\ left \subseteq Request
      BY <3>1 DEF RequestsOK
    <3> QED BY <2>1, <2>4, <3>1, <3>2, SendAgainKeeps DEF NetworkFails
  <2>5. ASSUME NEW q \in inbox, Deliver(q) PROVE Inv'
    <3>1. q \in Request /\ ServerOK'
      BY <2>5, BeginKeeps DEF Deliver, RequestsOK
    <3>2. RequestsOK'
      BY <2>5 DEF Deliver, RequestsOK
    <3> QED BY <3>1, <3>2
  <2>6. ASSUME NEW q \in inbox, TurnAway(q) PROVE Inv'
    <3>1. q \in Request
      BY DEF RequestsOK
    <3> QED BY <2>1, <2>6, <3>1, ReplyKeeps DEF TurnAway, Answers
  <2>7. ASSUME NEW h \in handling, HandlerStores(h) PROVE Inv'
    BY <2>2, <2>7, CreateTicketKeeps, UpdateTicketKeeps DEF HandlerStores
  <2>8. ASSUME NEW h \in handling, HandlerEnds(h) PROVE Inv'
    <3>1. ServerOK'
      BY <2>8, WriteAuditKeeps, BreaksOffKeeps, GivesUp DEF HandlerEnds
    <3>2. PICK answer \in Answers : Reply(h.request, answer)
      BY <2>8 DEF HandlerEnds, Answers
    <3>3. h.request \in Request
      BY DEF ServerOK, HandlerOK, Job
    <3> QED BY <3>1, <3>2, <3>3, ReplyKeeps
  <2>9. CASE PolicyAsks
    BY <2>2, <2>9, PolicyTicketKeeps DEF PolicyAsks
  <2>10. CASE Tick \/ UNCHANGED vars
    BY <2>1, <2>2, <2>10 DEF Tick, vars
  <2> QED BY <2>3, <2>4, <2>5, <2>6, <2>7, <2>8, <2>9, <2>10 DEF Next
<1> QED BY <1>1, <1>2, PTL DEF Spec

(* Whatever the network loses, delays or repeats, and whoever decides on   *)
(* it: between two handlers the trail tells the decision the table has for *)
(* a ticket, unless the entry of the last decision could not be written.   *)
THEOREM TrailAlwaysTells == Spec => []TrailTellsDecision
<1>1. Inv => TrailTellsDecision
  BY DEF Inv, ServerOK, EntriesOK, TrailTellsDecision
<1> QED BY <1>1, Invariance, PTL

-----------------------------------------------------------------------------
(* The attempts of a call.                                                 *)

(* The requests that can still open a ticket or bring an answer. *)
Live == inbox \cup {h.request : h \in handling}

(* A request belongs to a call that was made; a second attempt, to one     *)
(* that failed in the network.                                             *)
AttemptOK(q) ==
    /\ q.click \in DOMAIN told
    /\ q.route = "secondary" => q.click \in unlucky

(* Of a call that never failed there is one request, in the inbox or with  *)
(* a handler.  While it is there the caller has no answer, and it has      *)
(* opened no ticket before its handler stores one.                         *)
AttemptsOf(k) ==
    /\ \A q, r \in inbox : q.click = k /\ r.click = k => q = r
    /\ \A q \in inbox, h \in handling : q.click = k => h.request.click # k
    /\ \A q \in Live : q.click = k => told[k] = "nothing"
    /\ \A q \in inbox : q.click = k => Opened(k) = {}
    /\ \A h \in handling : h.request.click = k /\ h.step = "store" => Opened(k) = {}

(* It has opened one ticket at most, and is told so unless its handler     *)
(* broke off after the commit.                                             *)
TicketsOf(k) ==
    /\ \A i, j \in Opened(k) : i = j
    /\ told[k] = "error" /\ Opened(k) # {} => <<"call", k>> \in broken

CallsOK ==
    /\ \A q \in Live : AttemptOK(q)
    /\ \A s \in Senders : \A q \in waiting[s] : q.from = s /\ AttemptOK(q)
    /\ \A i \in DOMAIN tickets : tickets[i].by \in DOMAIN told \cup {Policy}
    /\ \A k \in DOMAIN told : k \notin unlucky => AttemptsOf(k) /\ TicketsOf(k)

(* A step that adds no request of a call, nor a ticket, and does not       *)
(* answer it, leaves what is known of it.                                  *)
LEMMA Undisturbed ==
    ASSUME NEW k, AttemptsOf(k), TicketsOf(k),
           \A q \in inbox' : q.click = k => q \in inbox,
           \A h \in handling' : h.request.click = k =>
               \E g \in handling : g.request = h.request /\ (h.step = "store" => g.step = "store"),
           told'[k] = told[k], Opened(k)' = Opened(k),
           <<"call", k>> \in broken => <<"call", k>> \in broken'
    PROVE  AttemptsOf(k)' /\ TicketsOf(k)'
<1>1. \A q \in Live' : q.click = k => q \in Live
  BY DEF Live
<1>2. AttemptsOf(k)'
  BY <1>1 DEF AttemptsOf
<1>3. TicketsOf(k)'
  BY DEF TicketsOf
<1> QED BY <1>2, <1>3

(* Of a call whose last request is gone only the tickets matter. *)
LEMMA Settled ==
    ASSUME NEW k, TicketsOf(k),
           \A q \in inbox' : q.click # k, \A h \in handling' : h.request.click # k,
           Opened(k)' = Opened(k),
           told'[k] = "error" => Opened(k) = {} \/ <<"call", k>> \in broken'
    PROVE  AttemptsOf(k)' /\ TicketsOf(k)'
<1>1. \A q \in Live' : q.click # k
  BY DEF Live
<1> QED BY <1>1 DEF AttemptsOf, TicketsOf

(* What is known of a request stays so as calls are made and fail. *)
LEMMA StaysKnown ==
    ASSUME NEW q, AttemptOK(q), DOMAIN told \subseteq DOMAIN told', unlucky \subseteq unlucky'
    PROVE  AttemptOK(q)'
BY DEF AttemptOK

(* A new call has one request, and no ticket carries its number yet. *)
LEMMA ClickCalls ==
    ASSUME RequestsOK, CallsOK, NEW s \in Senders, NEW c \in Call, Click(s, c)
    PROVE  CallsOK'
<1>0. PICK n : n = Len(told) + 1
  OBVIOUS
<1> DEFINE new == [from |-> s, click |-> n, route |-> "primary", call |-> c]
<1>1. PICK q : /\ q.from = s /\ q.click = n /\ q.route = "primary"
               /\ waiting' = [waiting EXCEPT ![s] = {q}] /\ inbox' = inbox \cup {q}
  <2>1. /\ new.from = s /\ new.click = n /\ new.route = "primary"
        /\ waiting' = [waiting EXCEPT ![s] = {new}] /\ inbox' = inbox \cup {new}
    BY <1>0 DEF Click
  <2> HIDE DEF new
  <2> QED BY <2>1
<1>2. told' = Append(told, "nothing") /\ UNCHANGED <<tickets, handling, broken, unlucky>>
  BY DEF Click, approvalVars
<1>3. /\ DOMAIN told' = DOMAIN told \cup {n} /\ n \notin DOMAIN told /\ n # Policy
      /\ told'[n] = "nothing" /\ \A k \in DOMAIN told : told'[k] = told[k]
  BY <1>0, <1>2 DEF RequestsOK, Answers, Policy
<1>4. \A k : Opened(k)' = Opened(k)
  BY <1>2 DEF Opened
<1>5. AttemptOK(q)'
  BY <1>1, <1>3 DEF AttemptOK
<1>6. \A r \in Live' : AttemptOK(r)'
  BY <1>1, <1>2, <1>3, <1>5, StaysKnown DEF Live, CallsOK
<1>7. \A t \in Senders : \A r \in waiting'[t] : r.from = t /\ AttemptOK(r)'
  BY <1>1, <1>2, <1>3, <1>5, StaysKnown DEF CallsOK, RequestsOK
<1>8. \A i \in DOMAIN tickets' : tickets'[i].by \in DOMAIN told' \cup {Policy}
  BY <1>2, <1>3 DEF CallsOK
<1>9. ASSUME NEW k \in DOMAIN told, k \notin unlucky
      PROVE  AttemptsOf(k)' /\ TicketsOf(k)'
  <2>1. AttemptsOf(k) /\ TicketsOf(k)
    BY <1>9 DEF CallsOK
  <2>2. \A r \in inbox' : r.click = k => r \in inbox
    BY <1>1, <1>3
  <2> QED BY <1>2, <1>3, <1>4, <2>1, <2>2, Undisturbed
<1>10. AttemptsOf(n)' /\ TicketsOf(n)'
  <2>1. \A r \in Live : r.click # n
    BY <1>3 DEF CallsOK, AttemptOK
  <2>2. Opened(n) = {}
    BY <1>3 DEF CallsOK, Opened
  <2>3. \A r \in inbox : r.click # n
    BY <2>1 DEF Live
  <2>4. \A h \in handling' : h.request.click # n
    BY <1>2, <2>1 DEF Live
  <2> QED BY <1>1, <1>3, <1>4, <2>2, <2>3, <2>4 DEF AttemptsOf, TicketsOf, Live
<1> QED BY <1>2, <1>3, <1>6, <1>7, <1>8, <1>9, <1>10 DEF CallsOK

(* A failure in the network is remembered, so nothing is known any more of *)
(* the call it hits, and the other calls are left alone.                   *)
LEMMA NetworkFailsCalls ==
    ASSUME RequestsOK, CallsOK, NEW s \in Senders, NetworkFails(s)
    PROVE  CallsOK'
<1>1. PICK q \in waiting[s], left \in {inbox, inbox \ waiting[s]} : SendAgain(q, left)
  BY DEF NetworkFails
<1>2. /\ q \in Request /\ left \subseteq inbox /\ q.from = s /\ AttemptOK(q)
      /\ q.click \in unlucky' /\ unlucky \subseteq unlucky'
      /\ UNCHANGED <<tickets, handling, broken>>
  BY <1>1 DEF NetworkFails, RequestsOK, CallsOK, approvalVars
<1>3. /\ DOMAIN told' = DOMAIN told
      /\ \A k \in DOMAIN told : k # q.click => told'[k] = told[k]
  BY <1>1 DEF SendAgain, RequestsOK
<1>4. PICK r : r.from = s /\ r.click = q.click
               /\ inbox' \subseteq inbox \cup {r}
               /\ waiting'[s] \subseteq {r}
               /\ \A t \in Senders : t # s => waiting'[t] = waiting[t]
  <2>1. CASE q.route = "primary"
    <3> DEFINE new == [q EXCEPT !.route = "secondary"]
    <3>1. new.from = s /\ new.click = q.click
      BY <1>2 DEF Request
    <3>2. inbox' = left \cup {new} /\ waiting' = [waiting EXCEPT ![s] = {new}]
      BY <1>1, <1>2, <2>1 DEF SendAgain
    <3> HIDE DEF new
    <3>3. /\ inbox' \subseteq inbox \cup {new} /\ waiting'[s] \subseteq {new}
          /\ \A t \in Senders : t # s => waiting'[t] = waiting[t]
      BY <1>2, <3>2 DEF RequestsOK
    <3> QED BY <3>1, <3>3
  <2>2. CASE q.route # "primary"
    <3>1. inbox' = left /\ waiting' = [waiting EXCEPT ![s] = {}]
      BY <1>1, <1>2, <2>2 DEF SendAgain
    <3>2. /\ inbox' \subseteq inbox \cup {q} /\ waiting'[s] \subseteq {q}
          /\ \A t \in Senders : t # s => waiting'[t] = waiting[t]
      BY <1>2, <3>1 DEF RequestsOK
    <3> QED BY <1>2, <3>2
  <2> QED BY <2>1, <2>2
<1>5. AttemptOK(r)'
  BY <1>2, <1>3, <1>4 DEF AttemptOK
<1>6. \A k : Opened(k)' = Opened(k)
  BY <1>2 DEF Opened
<1>7. \A p \in Live' : AttemptOK(p)'
  BY <1>2, <1>3, <1>4, <1>5, StaysKnown DEF Live, CallsOK
<1>8. \A t \in Senders : \A p \in waiting'[t] : p.from = t /\ AttemptOK(p)'
  BY <1>2, <1>3, <1>4, <1>5, StaysKnown DEF CallsOK
<1>9. \A i \in DOMAIN tickets' : tickets'[i].by \in DOMAIN told' \cup {Policy}
  BY <1>2, <1>3 DEF CallsOK
<1>10. ASSUME NEW k \in DOMAIN told, k \notin unlucky'
       PROVE  AttemptsOf(k)' /\ TicketsOf(k)'
  <2>1. AttemptsOf(k) /\ TicketsOf(k) /\ k # q.click
    BY <1>2, <1>10 DEF CallsOK
  <2>2. \A p \in inbox' : p.click = k => p \in inbox
    BY <1>4, <2>1
  <2> QED BY <1>2, <1>3, <1>6, <2>1, <2>2, Undisturbed
<1> QED BY <1>3, <1>7, <1>8, <1>9, <1>10 DEF CallsOK

(* A request goes from the inbox to a handler, and stays the only one. *)
LEMMA DeliverCalls ==
    ASSUME CallsOK, NEW q \in inbox, Deliver(q)
    PROVE  CallsOK'
<1>1. PICK h : h.request = q /\ handling = {} /\ handling' = {h}
  BY DEF Deliver, Begin
<1>2. inbox' = inbox \ {q} /\ UNCHANGED <<tickets, broken, waiting, told, unlucky>>
  BY DEF Deliver, Begin
<1>3. Live' \subseteq Live
  BY <1>1, <1>2 DEF Live
<1>4. ASSUME NEW k \in DOMAIN told, k \notin unlucky
      PROVE  AttemptsOf(k)' /\ TicketsOf(k)'
  <2>1. AttemptsOf(k) /\ TicketsOf(k)
    BY <1>4 DEF CallsOK
  <2>2. Opened(k)' = Opened(k)
    BY <1>2 DEF Opened
  <2>3. q \in Live
    BY DEF Live
  <2>4. AttemptsOf(k)'
    BY <1>1, <1>2, <1>3, <2>1, <2>2, <2>3 DEF AttemptsOf
  <2>5. TicketsOf(k)'
    BY <1>2, <2>1, <2>2 DEF TicketsOf
  <2> QED BY <2>4, <2>5
<1>5. \A p : AttemptOK(p)' = AttemptOK(p)
  BY <1>2 DEF AttemptOK
<1> QED BY <1>2, <1>3, <1>4, <1>5 DEF CallsOK

(* A handler, or the limiter, answers a request: it was the last one of a  *)
(* call that never failed.                                                 *)
LEMMA ReplyCalls ==
    ASSUME RequestsOK, CallsOK, NEW q \in Live, q \in Request, NEW answer, Reply(q, answer),
           \/ handling' = {} /\ \E h \in handling : h.request = q
           \/ handling' = handling /\ q \in inbox,
           UNCHANGED <<tickets, unlucky>>,
           \A k : <<"call", k>> \in broken => <<"call", k>> \in broken',
           answer = "error" /\ q.click \notin unlucky =>
               Opened(q.click) = {} \/ <<"call", q.click>> \in broken'
    PROVE  CallsOK'
<1>1. /\ inbox' = inbox \ {q} /\ DOMAIN told' = DOMAIN told
      /\ \A k \in DOMAIN told : k # q.click => told'[k] = told[k]
      /\ q.click \in DOMAIN told =>
             told'[q.click] = told[q.click] \/ told'[q.click] = answer
  BY DEF Reply, RequestsOK
<1>2. \A s \in Senders : waiting'[s] \subseteq waiting[s]
  BY DEF Reply, RequestsOK
<1>3. Live' \subseteq Live
  BY <1>1 DEF Live
<1>4. \A p : AttemptOK(p)' = AttemptOK(p)
  BY <1>1 DEF AttemptOK
<1>5. \A k : Opened(k)' = Opened(k)
  BY DEF Opened
<1>6. ASSUME NEW k \in DOMAIN told, k \notin unlucky
      PROVE  AttemptsOf(k)' /\ TicketsOf(k)'
  <2>1. AttemptsOf(k) /\ TicketsOf(k)
    BY <1>6 DEF CallsOK
  <2>2. CASE k # q.click
    <3>1. /\ \A p \in inbox' : p \in inbox
          /\ \A h \in handling' : h \in handling
          /\ told'[k] = told[k]
      BY <1>1, <2>2
    <3> QED BY <1>5, <2>1, <3>1, Undisturbed
  <2>3. CASE k = q.click
    <3>1. \A p \in inbox' : p.click # k
      BY <1>1, <2>1, <2>3 DEF AttemptsOf
    <3>2. \A h \in handling' : h.request.click # k
      BY <2>1, <2>3 DEF AttemptsOf
    <3>3. told'[k] = "error" => Opened(k) = {} \/ <<"call", k>> \in broken'
      BY <1>1, <1>6, <2>1, <2>3 DEF TicketsOf
    <3> QED BY <1>5, <2>1, <3>1, <3>2, <3>3, Settled
  <2> QED BY <2>2, <2>3
<1> QED BY <1>1, <1>2, <1>3, <1>4, <1>6 DEF CallsOK

(* The handler of a request that opens a ticket has opened none before. *)
LEMMA CreateTicketCalls ==
    ASSUME Inv, CallsOK, NEW h \in handling, CreateTicket(h),
           UNCHANGED <<waiting, told, inbox, unlucky>>
    PROVE  CallsOK'
<1> DEFINE t == [status |-> Pending, by |-> h.request.click]
           n == Len(tickets) + 1
<1>1. PICK g : g.request = h.request /\ g.step = "audit" /\ handling' = {g}
  <2> DEFINE new == [h EXCEPT !.step = "audit", !.id = Len(tickets) + 1]
  <2>1. h \in Job /\ handling' = {new}
    BY DEF Inv, ServerOK, HandlerOK, CreateTicket
  <2>2. new.request = h.request /\ new.step = "audit"
    BY <2>1 DEF Job
  <2> HIDE DEF new
  <2> QED BY <2>1, <2>2
<1>2. t.by = h.request.click /\ h.step = "store" /\ handling = {h}
  BY DEF Inv, ServerOK, HandlerOK, CreateTicket, Proceed
<1>3. t \in Row
  BY DEF Inv, ServerOK, HandlerOK, Row, Job, Status, Request
<1>4. tickets' = Append(tickets, t) /\ broken' = broken
  BY DEF CreateTicket
<1> HIDE DEF t
<1>5. /\ DOMAIN tickets' = DOMAIN tickets \cup {n} /\ n \notin DOMAIN tickets
      /\ tickets'[n] = t /\ \A i \in DOMAIN tickets : tickets'[i] = tickets[i]
  BY <1>3, <1>4 DEF Inv, ServerOK, TablesOK
<1> HIDE DEF n
<1>6. Live' = Live /\ h.request \in Live
  BY <1>1, <1>2 DEF Live
<1>7. \A q : AttemptOK(q)' = AttemptOK(q)
  BY DEF AttemptOK
<1>8. \A i \in DOMAIN tickets' : tickets'[i].by \in DOMAIN told' \cup {Policy}
  BY <1>2, <1>5, <1>6 DEF CallsOK, AttemptOK
<1>9. ASSUME NEW k \in DOMAIN told, k \notin unlucky
      PROVE  AttemptsOf(k)' /\ TicketsOf(k)'
  <2>1. AttemptsOf(k) /\ TicketsOf(k)
    BY <1>9 DEF CallsOK
  <2>2. CASE k # h.request.click
    <3>1. Opened(k)' = Opened(k)
      BY <1>2, <1>5, <2>2 DEF Opened
    <3>2. \A j \in handling' : j.request.click # k
      BY <1>1, <2>2
    <3> QED BY <1>4, <2>1, <3>1, <3>2, Undisturbed
  <2>3. CASE k = h.request.click
    <3>1. Opened(k) = {} /\ told[k] = "nothing"
      BY <1>2, <1>6, <2>1, <2>3 DEF AttemptsOf
    <3>2. Opened(k)' = {n}
      BY <1>2, <1>5, <2>3, <3>1 DEF Opened
    <3>3. \A q \in inbox : q.click # k
      BY <1>2, <2>1, <2>3 DEF AttemptsOf
    <3>4. \A q \in Live' : q.click = k => told'[k] = "nothing"
      BY <3>1
    <3>5. AttemptsOf(k)'
      BY <1>1, <3>3, <3>4 DEF AttemptsOf
    <3>6. TicketsOf(k)'
      BY <3>1, <3>2 DEF TicketsOf
    <3> QED BY <3>5, <3>6
  <2> QED BY <2>2, <2>3
<1> QED BY <1>6, <1>7, <1>8, <1>9 DEF CallsOK

(* A decision opens no ticket. *)
LEMMA UpdateTicketCalls ==
    ASSUME Inv, CallsOK, NEW h \in handling, UpdateTicket(h),
           UNCHANGED <<waiting, told, inbox, unlucky>>
    PROVE  CallsOK'
<1> DEFINE id == h.request.call.id
<1>1. PICK g : g.request = h.request /\ g.step = "audit" /\ handling' = {g}
  <2> DEFINE new == [h EXCEPT !.step = "audit", !.id = id]
  <2>1. h \in Job /\ handling' = {new}
    BY DEF Inv, ServerOK, HandlerOK, UpdateTicket
  <2>2. new.request = h.request /\ new.step = "audit"
    BY <2>1 DEF Job
  <2> HIDE DEF new
  <2> QED BY <2>1, <2>2
<1>2. broken' = broken /\ DOMAIN tickets' = DOMAIN tickets
  BY DEF UpdateTicket
<1>3. \A i \in DOMAIN tickets : tickets'[i].by = tickets[i].by
  <2>1. tickets' = [tickets EXCEPT ![id].status = h.request.call.status]
    BY DEF UpdateTicket
  <2>2. \A i \in DOMAIN tickets : tickets[i] \in Row
    BY DEF Inv, ServerOK, TablesOK
  <2> HIDE DEF id
  <2>3. ASSUME NEW i \in DOMAIN tickets PROVE tickets'[i].by = tickets[i].by
    <3>1. CASE i = id
      <4>1. tickets'[i] = [tickets[i] EXCEPT !.status = h.request.call.status]
        BY <2>1, <3>1
      <4> QED BY <2>2, <4>1 DEF Row
    <3>2. CASE i # id
      BY <2>1, <3>2
    <3> QED BY <3>1, <3>2
  <2> QED BY <2>3
<1>4. \A k : Opened(k)' = Opened(k)
  BY <1>2, <1>3 DEF Opened
<1>5. \A q : AttemptOK(q)' = AttemptOK(q)
  BY DEF AttemptOK
<1>6. Live' \subseteq Live
  BY <1>1 DEF Live
<1>7. ASSUME NEW k \in DOMAIN told, k \notin unlucky
      PROVE  AttemptsOf(k)' /\ TicketsOf(k)'
  <2>1. AttemptsOf(k) /\ TicketsOf(k)
    BY <1>7 DEF CallsOK
  <2>2. \A j \in handling' : \E i \in handling :
            i.request = j.request /\ (j.step = "store" => i.step = "store")
    BY <1>1
  <2> QED BY <1>2, <1>4, <2>1, <2>2, Undisturbed
<1> QED BY <1>2, <1>3, <1>5, <1>6, <1>7 DEF CallsOK

(* The ticket of a policy is nobody's. *)
LEMMA PolicyTicketCalls ==
    ASSUME Inv, CallsOK, PolicyAsks
    PROVE  CallsOK'
<1> DEFINE t == [status |-> Pending, by |-> Policy]
           n == Len(tickets) + 1
<1>1. /\ tickets' = Append(tickets, t) /\ t \in Row /\ t.by = Policy
      /\ UNCHANGED <<handling, broken, waiting, told, inbox, unlucky>>
  BY DEF PolicyAsks, PolicyTicket, Row, Status
<1> HIDE DEF t
<1>2. /\ DOMAIN tickets' = DOMAIN tickets \cup {n}
      /\ tickets'[n].by = Policy /\ \A i \in DOMAIN tickets : tickets'[i] = tickets[i]
  BY <1>1 DEF Inv, ServerOK, TablesOK
<1> HIDE DEF n
<1>3. \A k \in DOMAIN told : Opened(k)' = Opened(k)
  <2>1. \A k \in DOMAIN told : k # Policy
    BY DEF Inv, RequestsOK, Policy
  <2> QED BY <1>2, <2>1 DEF Opened
<1>4. \A q : AttemptOK(q)' = AttemptOK(q)
  BY <1>1 DEF AttemptOK
<1>5. Live' = Live
  BY <1>1 DEF Live
<1>6. ASSUME NEW k \in DOMAIN told, k \notin unlucky
      PROVE  AttemptsOf(k)' /\ TicketsOf(k)'
  BY <1>1, <1>3, <1>6, Undisturbed DEF CallsOK
<1> QED BY <1>1, <1>2, <1>4, <1>5, <1>6 DEF CallsOK

(* The answer of a handler.  One that breaks off after a ticket was stored *)
(* says so in the history.                                                 *)
LEMMA HandlerEndsCalls ==
    ASSUME Inv, CallsOK, NEW h \in handling, HandlerEnds(h)
    PROVE  CallsOK'
<1> DEFINE k == h.request.click
<1>1. /\ h.request \in Live /\ h.request \in Request /\ handling = {h}
      /\ k \in DOMAIN told
  BY DEF Live, Inv, ServerOK, HandlerOK, Job, CallsOK, AttemptOK
<1>2. ASSUME k \notin unlucky, h.step = "store" PROVE Opened(k) = {}
  BY <1>1, <1>2 DEF CallsOK, AttemptsOf
<1>3. handling' = {} /\ UNCHANGED <<tickets, unlucky>>
  BY <1>1 DEF HandlerEnds, WriteAudit, Refuse, StoreFails, BreaksOff
<1>4. \A j : <<"call", j>> \in broken => <<"call", j>> \in broken'
  BY DEF HandlerEnds, WriteAudit, Refuse, StoreFails, BreaksOff
<1>5. PICK answer : /\ Reply(h.request, answer)
                    /\ answer = "error" => h.step = "store" \/ <<"call", k>> \in broken'
  BY DEF HandlerEnds, WriteAudit, Refuse, StoreFails, BreaksOff, Proceed
<1> HIDE DEF k
<1>6. answer = "error" /\ h.request.click \notin unlucky =>
          Opened(h.request.click) = {} \/ <<"call", h.request.click>> \in broken'
  BY <1>2, <1>5 DEF k
<1> QED BY <1>1, <1>3, <1>4, <1>5, <1>6, ReplyCalls DEF Inv

(* A request that the limiter turns away has opened no ticket. *)
LEMMA TurnAwayCalls ==
    ASSUME Inv, CallsOK, NEW q \in inbox, TurnAway(q)
    PROVE  CallsOK'
<1>1. q \in Live /\ q \in Request
  BY DEF Live, Inv, RequestsOK
<1>2. /\ Reply(q, "error") /\ UNCHANGED <<tickets, handling, broken, unlucky>>
  BY DEF TurnAway, approvalVars
<1>3. q.click \notin unlucky => Opened(q.click) = {}
  BY <1>1 DEF CallsOK, AttemptOK, AttemptsOf
<1> QED BY <1>1, <1>2, <1>3, ReplyCalls DEF Inv

(* What is known of every call is inductive. *)
THEOREM CallsInvariance == Spec => [](Inv /\ CallsOK)
<1>1. Init => CallsOK
  BY DEF Init, ApprovalInit, CallsOK, Live
<1>2. Inv /\ CallsOK /\ [Next]_vars => CallsOK'
  <2> SUFFICES ASSUME Inv, CallsOK, [Next]_vars PROVE CallsOK'
    OBVIOUS
  <2>1. ASSUME NEW s \in Senders, NEW c \in Call, Click(s, c) PROVE CallsOK'
    BY <2>1, ClickCalls DEF Inv
  <2>2. ASSUME NEW s \in Senders, NetworkFails(s) PROVE CallsOK'
    BY <2>2, NetworkFailsCalls DEF Inv
  <2>3. ASSUME NEW q \in inbox, Deliver(q) \/ TurnAway(q) PROVE CallsOK'
    BY <2>3, DeliverCalls, TurnAwayCalls
  <2>4. ASSUME NEW h \in handling, HandlerStores(h) PROVE CallsOK'
    BY <2>4, CreateTicketCalls, UpdateTicketCalls DEF HandlerStores
  <2>5. ASSUME NEW h \in handling, HandlerEnds(h) PROVE CallsOK'
    BY <2>5, HandlerEndsCalls
  <2>6. CASE PolicyAsks
    BY <2>6, PolicyTicketCalls
  <2>7. CASE Tick \/ UNCHANGED vars
    BY <2>7 DEF Tick, vars, approvalVars, CallsOK, Live, AttemptOK, AttemptsOf, TicketsOf, Opened
  <2> QED BY <2>1, <2>2, <2>3, <2>4, <2>5, <2>6, <2>7 DEF Next
<1> QED BY <1>1, <1>2, Invariance, PTL DEF Spec

(* A call opens one ticket, unless an attempt of it failed in the network; *)
(* and it leaves none behind when it is told of an error, unless the       *)
(* network or the entry of the audit trail failed.                         *)
THEOREM OneTicketEach == Spec => []OneTicketPerCall
<1>1. CallsOK => OneTicketPerCall
  <2> SUFFICES ASSUME CallsOK, NEW k \in DOMAIN told, k \notin unlucky
               PROVE  /\ ~(Cardinality(Opened(k)) > 1)
                      /\ told[k] = "error" /\ Opened(k) # {} => <<"call", k>> \in broken
    BY DEF OneTicketPerCall
  <2>1. TicketsOf(k)
    BY DEF CallsOK
  <2>2. Opened(k) = {} \/ \E i : Opened(k) = {i}
    BY <2>1 DEF TicketsOf
  <2>3. Cardinality(Opened(k)) = 0 \/ Cardinality(Opened(k)) = 1
    BY <2>2, FS_EmptySet, FS_Singleton
  <2> QED BY <2>1, <2>3 DEF TicketsOf
<1> QED BY <1>1, CallsInvariance, PTL

-----------------------------------------------------------------------------
(* The rate limiter.                                                       *)

(* Counted from the newest, every request let through is at least as old   *)
(* as the one in the list of its address, and out of the window where the  *)
(* list has none.                                                          *)
Matched(listed, through) ==
    \A j \in 1 .. Len(through) :
        IF j <= Len(listed)
        THEN through[Len(through) - j + 1] >= listed[Len(listed) - j + 1]
        ELSE through[Len(through) - j + 1] >= Window

(* Only the newest of those let through can still be in the window. *)
Limited(through) ==
    \A j \in 1 .. Len(through) : j > MaxRequests => through[Len(through) - j + 1] >= Window

LimiterOK ==
    /\ LimiterTypeOK
    /\ \A c \in Addresses : Matched(requests[c], admitted[c]) /\ Limited(admitted[c])

Ages == 0 .. Window

(* The expired are the first of a list, as many as are counted. *)
LEMMA ExpiredFirst ==
    ASSUME NEW s \in Seq(Ages), InOrder(s)
    PROVE  \E m \in 0 .. Len(s) : m = Cardinality(Expired(s)) /\ Expired(s) = 1 .. m

<1>0. Len(s) \in Nat /\ DOMAIN s = 1 .. Len(s) /\ \A i \in DOMAIN s : s[i] \in Ages
  OBVIOUS
<1>a. Ages \subseteq Nat /\ Window \in Nat
  BY LimiterAssumption DEF Ages
<1>1. Len(s) \in Nat /\ DOMAIN s = 1 .. Len(s) /\ \A i \in DOMAIN s : s[i] \in Nat
  BY <1>0, <1>a
<1>2. IsFiniteSet(1 .. Len(s)) /\ Cardinality(1 .. Len(s)) = Len(s)
  <2>1. \A n \in Nat : IsFiniteSet(1 .. n) /\ Cardinality(1 .. n) = n
    BY FS_Interval
  <2> QED
    BY <1>1, <2>1
<1>3. Expired(s) \in SUBSET (1 .. Len(s))
  BY <1>1, LimiterAssumption DEF Expired
<1>4. IsFiniteSet(Expired(s)) /\ Cardinality(Expired(s)) <= Len(s)
  BY <1>2, <1>3, FS_Subset
<1>5. PICK m : m = Cardinality(Expired(s))
  OBVIOUS
<1>6. m \in 0 .. Len(s)
  BY <1>1, <1>4, <1>5, FS_CardinalityType
<1>7. Expired(s) \in SUBSET (1 .. m)
  <2>1. SUFFICES ASSUME NEW i \in Expired(s) PROVE i <= m
    BY <1>1, <1>3, <1>6
  <2>2. i \in 1 .. Len(s) /\ s[i] >= Window
    BY <1>1, LimiterAssumption DEF Expired
  <2>3. 1 .. i \in SUBSET Expired(s)
    <3>1. SUFFICES ASSUME NEW k \in 1 .. i PROVE k \in DOMAIN s /\ s[k] >= Window
      BY DEF Expired
    <3>2. k \in DOMAIN s /\ i \in DOMAIN s /\ k <= i
      BY <1>1, <2>2
    <3>3. s[k] >= s[i]
      BY <3>2 DEF InOrder
    <3>4. s[k] \in Nat /\ s[i] \in Nat
      BY <1>1, <3>2
    <3> QED
      BY <1>a, <2>2, <3>2, <3>3, <3>4
  <2>4. Cardinality(1 .. i) <= m
    BY <1>4, <1>5, <2>3, FS_Subset
  <2>5. Cardinality(1 .. i) = i
    BY <2>2, FS_Interval
  <2> QED
    BY <2>4, <2>5
<1>8. IsFiniteSet(1 .. m) /\ Cardinality(1 .. m) = m
  BY <1>6, FS_Interval
<1>9. Expired(s) = 1 .. m
  BY <1>5, <1>7, <1>8, FS_Subset
<1> QED
  BY <1>5, <1>6, <1>9

(* What goes with the expired is out of the window, the rest is in it. *)
LEMMA KeptFacts ==
    ASSUME NEW s \in Seq(Ages), InOrder(s)
    PROVE  \E m \in 0 .. Len(s) :
               /\ m = Cardinality(Expired(s))
               /\ Kept(s) \in Seq(Ages)
               /\ Len(Kept(s)) = Len(s) - m
               /\ \A i \in 1 .. Len(s) - m : Kept(s)[i] = s[i + m] /\ s[i + m] < Window
               /\ \A i \in 1 .. m : s[i] >= Window
<1>1. PICK m \in 0 .. Len(s) : m = Cardinality(Expired(s)) /\ Expired(s) = 1 .. m
  BY ExpiredFirst
<1>2. Len(s) \in Nat /\ DOMAIN s = 1 .. Len(s) /\ m \in Nat /\ m <= Len(s)
  BY <1>1
<1>3. \A i \in m + 1 .. Len(s) : s[i] \in Ages
  BY <1>2
<1>4. PICK t : t = SubSeq(s, m + 1, Len(s))
  OBVIOUS
<1>5. /\ t \in Seq(Ages)
      /\ Len(t) = IF m + 1 <= Len(s) THEN Len(s) - (m + 1) + 1 ELSE 0
      /\ \A i \in 1 .. Len(s) - (m + 1) + 1 : t[i] = s[(m + 1) + i - 1]
  <2>1. m + 1 \in Int /\ Len(s) \in Int
    BY <1>2
  <2> HIDE DEF Ages
  <2> QED
    BY <1>3, <1>4, <2>1, SubSeqProperties
<1>6. Len(t) = Len(s) - m
  BY <1>2, <1>5
<1>7. \A i \in 1 .. Len(s) - m : t[i] = s[i + m]
  <2>1. SUFFICES ASSUME NEW i \in 1 .. Len(s) - m PROVE t[i] = s[i + m]
    OBVIOUS
  <2>2. i \in 1 .. Len(s) - (m + 1) + 1 /\ (m + 1) + i - 1 = i + m
    BY <1>2
  <2> QED
    BY <1>5, <2>2
<1>8. \A i \in 1 .. Len(s) - m : s[i + m] < Window
  <2>1. SUFFICES ASSUME NEW i \in 1 .. Len(s) - m PROVE s[i + m] < Window
    OBVIOUS
  <2>2. i + m \in 1 .. Len(s) /\ i + m \notin 1 .. m
    BY <1>2
  <2>3. ~(s[i + m] >= Window)
    BY <1>1, <1>2, <2>2 DEF Expired
  <2>4. s[i + m] \in Ages
    BY <2>2
  <2> QED
    BY <2>3, <2>4, LimiterAssumption DEF Ages
<1>9. \A i \in 1 .. m : s[i] >= Window
  BY <1>1, LimiterAssumption DEF Expired
<1>10. Kept(s) = t
  BY <1>1, <1>4 DEF Kept, WithoutFirst
<1> QED
  BY <1>1, <1>5, <1>6, <1>7, <1>8, <1>9, <1>10

LEMMA AgesAreNumbers == Ages \subseteq Nat /\ Window \in Ages /\ 0 \in Ages /\ Window \in Nat \ {0}
  BY LimiterAssumption DEF Ages

(* A list after the expired are gone is still in order. *)
LEMMA KeptInOrder == ASSUME NEW s \in Seq(Ages), InOrder(s) PROVE InOrder(Kept(s))
<1>1. PICK m \in 0 .. Len(s) :
          /\ Kept(s) \in Seq(Ages)
          /\ Len(Kept(s)) = Len(s) - m
          /\ \A i \in 1 .. Len(s) - m : Kept(s)[i] = s[i + m]
  BY KeptFacts
<1>2. SUFFICES ASSUME NEW i \in DOMAIN Kept(s), NEW k \in DOMAIN Kept(s), i <= k
               PROVE  Kept(s)[i] >= Kept(s)[k]
  BY DEF InOrder
<1>3. Len(s) \in Nat /\ DOMAIN s = 1 .. Len(s) /\ DOMAIN Kept(s) = 1 .. Len(s) - m
  BY <1>1
<1>4. /\ i \in 1 .. Len(s) - m /\ k \in 1 .. Len(s) - m
      /\ i + m \in DOMAIN s /\ k + m \in DOMAIN s /\ i + m <= k + m
  BY <1>2, <1>3
<1>5. s[i + m] >= s[k + m]
  BY <1>4 DEF InOrder
<1> QED
  BY <1>1, <1>4, <1>5

(* A new entry is the newest. *)
LEMMA NewestInOrder ==
    ASSUME NEW s \in Seq(Ages), InOrder(s)
    PROVE  /\ Append(s, 0) \in Seq(Ages)
           /\ Len(Append(s, 0)) = Len(s) + 1
           /\ Append(s, 0)[Len(s) + 1] = 0
           /\ \A i \in 1 .. Len(s) : Append(s, 0)[i] = s[i]
           /\ InOrder(Append(s, 0))
<1>1. PICK t : t = Append(s, 0)
  OBVIOUS
<1>2. /\ t \in Seq(Ages) /\ Len(t) = Len(s) + 1 /\ t[Len(s) + 1] = 0
      /\ \A i \in 1 .. Len(s) : t[i] = s[i]
  BY <1>1, AgesAreNumbers, AppendProperties
<1>3. Len(s) \in Nat /\ DOMAIN s = 1 .. Len(s) /\ DOMAIN t = 1 .. Len(s) + 1
  BY <1>2
<1>4. ASSUME NEW i \in DOMAIN t, NEW k \in DOMAIN t, i <= k PROVE t[i] >= t[k]
  <2>1. t[i] \in Ages
    BY <1>2, <1>4
  <2>2. t[i] \in Nat
    BY <2>1, AgesAreNumbers
  <2>3. CASE k = Len(s) + 1
    BY <1>2, <2>2, <2>3
  <2>4. CASE k \in 1 .. Len(s)
    <3>1. i \in DOMAIN s /\ k \in DOMAIN s /\ i \in 1 .. Len(s)
      BY <1>3, <1>4, <2>4
    <3>2. s[i] >= s[k]
      BY <3>1, <1>4 DEF InOrder
    <3> QED
      BY <1>2, <2>4, <3>1, <3>2
  <2> QED
    BY <1>3, <1>4, <2>3, <2>4
<1>5. InOrder(t)
  BY <1>4 DEF InOrder
<1> QED
  BY <1>1, <1>2, <1>5

(* A tick makes every age one more, up to the window, in the same order. *)
LEMMA OlderFacts ==
    ASSUME NEW s \in Seq(Ages), InOrder(s)
    PROVE  /\ Older(s) \in Seq(Ages)
           /\ Len(Older(s)) = Len(s)
           /\ \A i \in 1 .. Len(s) : Older(s)[i] = IF s[i] < Window THEN s[i] + 1 ELSE Window
           /\ InOrder(Older(s))
<1>1. PICK t : t = Older(s)
  OBVIOUS
<1>2. Len(s) \in Nat /\ DOMAIN s = 1 .. Len(s) /\ \A i \in 1 .. Len(s) : s[i] \in Ages
  OBVIOUS
<1>3. DOMAIN t = 1 .. Len(s) /\ \A i \in 1 .. Len(s) : t[i] = IF s[i] < Window THEN s[i] + 1 ELSE Window
  BY <1>1, <1>2 DEF Older
<1>4. \A i \in 1 .. Len(s) : t[i] \in Ages /\ s[i] \in Nat
  <2>1. \A n \in Ages : (IF n < Window THEN n + 1 ELSE Window) \in Ages
    BY LimiterAssumption DEF Ages
  <2> QED
    BY <1>2, <1>3, <2>1, AgesAreNumbers
<1>5. t \in [1 .. Len(s) -> Ages]
  <2>1. t = [i \in 1 .. Len(s) |-> IF s[i] < Window THEN s[i] + 1 ELSE Window]
    BY <1>1, <1>2 DEF Older
  <2> QED
    BY <1>3, <1>4, <2>1
<1>6. t \in Seq(Ages) /\ Len(t) = Len(s)
  BY <1>2, <1>5, <1>3
<1>7. InOrder(t)
  <2>1. SUFFICES ASSUME NEW i \in 1 .. Len(s), NEW k \in 1 .. Len(s), i <= k PROVE t[i] >= t[k]
    BY <1>3 DEF InOrder
  <2>2. s[i] >= s[k]
    BY <1>2, <2>1 DEF InOrder
  <2>3. t[i] = (IF s[i] < Window THEN s[i] + 1 ELSE Window)
        /\ t[k] = (IF s[k] < Window THEN s[k] + 1 ELSE Window)
    BY <1>3
  <2>4. s[i] \in Nat /\ s[k] \in Nat /\ s[i] <= Window /\ s[k] <= Window
    BY <1>2, LimiterAssumption DEF Ages
  <2> QED
    BY <2>2, <2>3, <2>4, AgesAreNumbers
<1> QED
  BY <1>1, <1>3, <1>6, <1>7

(* The list of the address forgets only what has left the window. *)
LEMMA KeptMatches ==
    ASSUME NEW r \in Seq(Ages), NEW a \in Seq(Ages), InOrder(r), Matched(r, a)
    PROVE  Matched(Kept(r), a)
<1>1. PICK m \in 0 .. Len(r) :
          /\ Len(Kept(r)) = Len(r) - m
          /\ \A i \in 1 .. Len(r) - m : Kept(r)[i] = r[i + m]
          /\ \A i \in 1 .. m : r[i] >= Window
  BY KeptFacts
<1>2. Len(r) \in Nat /\ Len(a) \in Nat
  OBVIOUS
<1>3. SUFFICES ASSUME NEW j \in 1 .. Len(a)
               PROVE  IF j <= Len(Kept(r))
                      THEN a[Len(a) - j + 1] >= Kept(r)[Len(Kept(r)) - j + 1]
                      ELSE a[Len(a) - j + 1] >= Window
  BY DEF Matched
<1>4. IF j <= Len(r) THEN a[Len(a) - j + 1] >= r[Len(r) - j + 1]
                     ELSE a[Len(a) - j + 1] >= Window
  BY <1>3 DEF Matched
<1>5. CASE j <= Len(r) - m
  <2>1. Len(r) - m - j + 1 \in 1 .. Len(r) - m /\ (Len(r) - m - j + 1) + m = Len(r) - j + 1
        /\ j <= Len(r)
    BY <1>2, <1>5
  <2>2. Kept(r)[Len(r) - m - j + 1] = r[Len(r) - j + 1]
    BY <1>1, <2>1
  <2> QED
    BY <1>1, <1>4, <1>5, <2>1, <2>2
<1>6. CASE ~(j <= Len(r) - m) /\ j <= Len(r)
  <2>1. Len(r) - j + 1 \in 1 .. m /\ Len(r) - j + 1 \in 1 .. Len(r) /\ Len(a) - j + 1 \in 1 .. Len(a)
    BY <1>2, <1>6
  <2>2. r[Len(r) - j + 1] >= Window /\ a[Len(a) - j + 1] >= r[Len(r) - j + 1]
    BY <1>1, <1>4, <1>6, <2>1
  <2>3. r[Len(r) - j + 1] \in Ages /\ a[Len(a) - j + 1] \in Ages
    BY <2>1
  <2>4. r[Len(r) - j + 1] \in Nat /\ a[Len(a) - j + 1] \in Nat
    BY <2>3, AgesAreNumbers
  <2>5. a[Len(a) - j + 1] >= Window
    BY <2>2, <2>4, AgesAreNumbers
  <2> QED
    BY <1>1, <1>6, <2>5
<1>7. CASE ~(j <= Len(r))
  BY <1>1, <1>2, <1>4, <1>7
<1> QED
  BY <1>5, <1>6, <1>7

(* A request that is noted and let through is matched with itself. *)
LEMMA LetThroughMatches ==
    ASSUME NEW r \in Seq(Ages), NEW a \in Seq(Ages), InOrder(r), InOrder(a), Matched(r, a)
    PROVE  Matched(Append(r, 0), Append(a, 0))
<1>1. PICK s : s = Append(r, 0)
  OBVIOUS
<1>2. PICK b : b = Append(a, 0)
  OBVIOUS
<1>3. /\ Len(s) = Len(r) + 1 /\ s[Len(r) + 1] = 0 /\ \A i \in 1 .. Len(r) : s[i] = r[i]
      /\ Len(b) = Len(a) + 1 /\ b[Len(a) + 1] = 0 /\ \A i \in 1 .. Len(a) : b[i] = a[i]
  BY <1>1, <1>2, NewestInOrder
<1>4. Len(r) \in Nat /\ Len(a) \in Nat
  OBVIOUS
<1>5. ASSUME NEW j \in 1 .. Len(b)
      PROVE  IF j <= Len(s) THEN b[Len(b) - j + 1] >= s[Len(s) - j + 1]
                            ELSE b[Len(b) - j + 1] >= Window
  <2>1. CASE j = 1
    <3>1. j <= Len(s) /\ Len(b) - j + 1 = Len(a) + 1 /\ Len(s) - j + 1 = Len(r) + 1
      BY <1>3, <1>4, <2>1
    <3>2. b[Len(b) - j + 1] = 0 /\ s[Len(s) - j + 1] = 0
      BY <1>3, <3>1
    <3> QED
      BY <3>1, <3>2
  <2>2. CASE j # 1
    <3>1. PICK k : k = j - 1
      OBVIOUS
    <3>2. /\ k \in 1 .. Len(a) /\ Len(b) - j + 1 = Len(a) - k + 1
          /\ Len(s) - j + 1 = Len(r) - k + 1 /\ Len(a) - k + 1 \in 1 .. Len(a)
          /\ (j <= Len(s) <=> k <= Len(r))
          /\ (k <= Len(r) => Len(r) - k + 1 \in 1 .. Len(r))
      BY <1>3, <1>4, <2>2, <3>1
    <3>3. IF k <= Len(r) THEN a[Len(a) - k + 1] >= r[Len(r) - k + 1]
                         ELSE a[Len(a) - k + 1] >= Window
      BY <3>2 DEF Matched
    <3>4. b[Len(b) - j + 1] = a[Len(a) - k + 1]
      BY <1>3, <3>2
    <3>5. k <= Len(r) => s[Len(s) - j + 1] = r[Len(r) - k + 1]
      BY <1>3, <3>2
    <3> QED
      BY <3>2, <3>3, <3>4, <3>5
  <2> QED
    BY <2>1, <2>2
<1> QED
  BY <1>1, <1>2, <1>5 DEF Matched

(* One that is noted and turned away only makes the list newer. *)
LEMMA TurnedAwayMatches ==
    ASSUME NEW r \in Seq(Ages), NEW a \in Seq(Ages), InOrder(r), Matched(r, a)
    PROVE  Matched(Append(r, 0), a)
<1>1. PICK s : s = Append(r, 0)
  OBVIOUS
<1>2. /\ s \in Seq(Ages) /\ Len(s) = Len(r) + 1 /\ s[Len(r) + 1] = 0
      /\ \A i \in 1 .. Len(r) : s[i] = r[i]
      /\ InOrder(s)
  BY <1>1, NewestInOrder
<1>3. Len(r) \in Nat /\ Len(a) \in Nat
  OBVIOUS
<1>4. ASSUME NEW j \in 1 .. Len(a)
      PROVE  IF j <= Len(s) THEN a[Len(a) - j + 1] >= s[Len(s) - j + 1]
                            ELSE a[Len(a) - j + 1] >= Window
  <2>1. IF j <= Len(r) THEN a[Len(a) - j + 1] >= r[Len(r) - j + 1]
                       ELSE a[Len(a) - j + 1] >= Window
    BY DEF Matched
  <2>2. Len(a) - j + 1 \in 1 .. Len(a)
    BY <1>3
  <2>3. a[Len(a) - j + 1] \in Ages
    BY <2>2
  <2>4. a[Len(a) - j + 1] \in Nat
    BY <2>3, AgesAreNumbers
  <2>5. CASE j <= Len(r)
    <3>1. /\ Len(s) - j + 1 \in 1 .. Len(s) /\ Len(r) - j + 1 \in 1 .. Len(r)
          /\ Len(r) - j + 1 \in 1 .. Len(s) /\ Len(r) - j + 1 <= Len(s) - j + 1
          /\ DOMAIN s = 1 .. Len(s)
      BY <1>2, <1>3, <2>5
    <3>2. s[Len(r) - j + 1] >= s[Len(s) - j + 1]
      BY <1>2, <3>1 DEF InOrder
    <3>3. s[Len(r) - j + 1] = r[Len(r) - j + 1]
      BY <1>2, <3>1
    <3>4. s[Len(r) - j + 1] \in Ages /\ s[Len(s) - j + 1] \in Ages
      BY <1>2, <3>1
    <3>5. s[Len(r) - j + 1] \in Nat /\ s[Len(s) - j + 1] \in Nat
      BY <3>4, AgesAreNumbers
    <3>6. a[Len(a) - j + 1] >= s[Len(r) - j + 1]
      BY <2>1, <2>5, <3>3
    <3>7. a[Len(a) - j + 1] >= s[Len(s) - j + 1]
      BY <2>4, <3>2, <3>5, <3>6
    <3>8. j <= Len(s)
      BY <1>2, <1>3, <2>5
    <3> QED
      BY <3>7, <3>8
  <2>6. CASE j = Len(r) + 1
    <3>1. j <= Len(s) /\ Len(s) - j + 1 = 1 /\ Len(s) \in Nat /\ Len(s) >= 1
      BY <1>2, <1>3, <2>6
    <3>2. s[1] \in Ages
      BY <1>2, <3>1
    <3>3. s[1] <= Window
      BY <3>2, LimiterAssumption DEF Ages
    <3>4. s[1] \in Nat
      BY <3>2, AgesAreNumbers
    <3>5. a[Len(a) - j + 1] >= Window
      BY <1>3, <2>1, <2>6
    <3>6. a[Len(a) - j + 1] >= s[1]
      BY <2>4, <3>3, <3>4, <3>5, AgesAreNumbers
    <3> QED
      BY <3>1, <3>6
  <2>7. CASE j > Len(r) + 1
    <3>1. ~(j <= Len(s)) /\ ~(j <= Len(r))
      BY <1>2, <1>3, <2>7
    <3> QED
      BY <2>1, <3>1
  <2> QED
    BY <1>3, <2>5, <2>6, <2>7
<1> QED
  BY <1>1, <1>4 DEF Matched

(* No more than the limit are in the window: the newest of them found a    *)
(* list that was not longer, and all that were let through before are      *)
(* matched there.                                                          *)
LEMMA LetThroughLimited ==
    ASSUME NEW r \in Seq(Ages), NEW a \in Seq(Ages), InOrder(a),
           Matched(r, a), Len(r) + 1 <= MaxRequests
    PROVE  Limited(Append(a, 0))
<1>1. PICK b : b = Append(a, 0)
  OBVIOUS
<1>2. Len(b) = Len(a) + 1 /\ \A i \in 1 .. Len(a) : b[i] = a[i]
  BY <1>1, NewestInOrder
<1>3. Len(r) \in Nat /\ Len(a) \in Nat /\ MaxRequests \in Nat
  BY LimiterAssumption
<1>4. ASSUME NEW j \in 1 .. Len(b), j > MaxRequests PROVE b[Len(b) - j + 1] >= Window
  <2>1. PICK k : k = j - 1
    OBVIOUS
  <2>2. /\ k \in 1 .. Len(a) /\ ~(k <= Len(r))
        /\ Len(b) - j + 1 = Len(a) - k + 1 /\ Len(a) - k + 1 \in 1 .. Len(a)
    BY <1>2, <1>3, <1>4, <2>1
  <2>3. a[Len(a) - k + 1] >= Window
    BY <2>2 DEF Matched
  <2> QED
    BY <1>2, <2>2, <2>3
<1> QED
  BY <1>1, <1>4 DEF Limited

(* The history forgets what has left the window, too. *)
LEMMA ForgottenMatches ==
    ASSUME NEW r \in Seq(Ages), NEW a \in Seq(Ages), InOrder(a), Matched(r, a), Limited(a)
    PROVE  Matched(r, Kept(a)) /\ Limited(Kept(a))
<1>1. PICK m \in 0 .. Len(a) :
          /\ Len(Kept(a)) = Len(a) - m
          /\ \A i \in 1 .. Len(a) - m : Kept(a)[i] = a[i + m]
  BY KeptFacts
<1>2. Len(r) \in Nat /\ Len(a) \in Nat
  OBVIOUS
<1>3. ASSUME NEW j \in 1 .. Len(Kept(a))
      PROVE  j \in 1 .. Len(a) /\ Kept(a)[Len(Kept(a)) - j + 1] = a[Len(a) - j + 1]
  <2>1. /\ Len(Kept(a)) - j + 1 \in 1 .. Len(a) - m /\ j \in 1 .. Len(a)
        /\ (Len(Kept(a)) - j + 1) + m = Len(a) - j + 1
    BY <1>1, <1>2, <1>3
  <2> QED
    BY <1>1, <2>1
<1>4. Matched(r, Kept(a))
  BY <1>3 DEF Matched
<1>5. Limited(Kept(a))
  BY <1>3 DEF Limited
<1> QED
  BY <1>4, <1>5

(* A tick keeps what is older older. *)
LEMMA OlderMatches ==
    ASSUME NEW r \in Seq(Ages), NEW a \in Seq(Ages), InOrder(r), InOrder(a), Matched(r, a), Limited(a)
    PROVE  Matched(Older(r), Older(a)) /\ Limited(Older(a))
<1>1. PICK s : s = Older(r)
  OBVIOUS
<1>2. PICK b : b = Older(a)
  OBVIOUS
<1>3. /\ Len(s) = Len(r) /\ Len(b) = Len(a)
      /\ \A i \in 1 .. Len(r) : s[i] = IF r[i] < Window THEN r[i] + 1 ELSE Window
      /\ \A i \in 1 .. Len(a) : b[i] = IF a[i] < Window THEN a[i] + 1 ELSE Window
  BY <1>1, <1>2, OlderFacts
<1>4. /\ Len(r) \in Nat /\ Len(a) \in Nat
      /\ \A i \in 1 .. Len(r) : r[i] \in Ages
      /\ \A i \in 1 .. Len(a) : a[i] \in Ages
  OBVIOUS
<1>5. /\ \A i \in 1 .. Len(r) : r[i] \in Nat /\ r[i] <= Window
      /\ \A i \in 1 .. Len(a) : a[i] \in Nat /\ a[i] <= Window
  BY <1>4, LimiterAssumption DEF Ages
<1>6. \A i \in 1 .. Len(a) : a[i] >= Window => b[i] >= Window
  BY <1>3, <1>5, AgesAreNumbers
<1>7. \A i \in 1 .. Len(a), k \in 1 .. Len(r) : a[i] >= r[k] => b[i] >= s[k]
  BY <1>3, <1>5, AgesAreNumbers
<1>8. Matched(s, b)
  <2>1. SUFFICES ASSUME NEW j \in 1 .. Len(a)
                 PROVE  IF j <= Len(r) THEN b[Len(a) - j + 1] >= s[Len(r) - j + 1]
                                       ELSE b[Len(a) - j + 1] >= Window
    BY <1>3 DEF Matched
  <2>2. Len(a) - j + 1 \in 1 .. Len(a) /\ (j <= Len(r) => Len(r) - j + 1 \in 1 .. Len(r))
    BY <1>4
  <2>3. IF j <= Len(r) THEN a[Len(a) - j + 1] >= r[Len(r) - j + 1]
                       ELSE a[Len(a) - j + 1] >= Window
    BY DEF Matched
  <2> QED
    BY <1>6, <1>7, <2>2, <2>3
<1>9. Limited(b)
  <2>1. SUFFICES ASSUME NEW j \in 1 .. Len(a), j > MaxRequests PROVE b[Len(a) - j + 1] >= Window
    BY <1>3 DEF Limited
  <2>2. Len(a) - j + 1 \in 1 .. Len(a) /\ a[Len(a) - j + 1] >= Window
    BY <1>4, <2>1 DEF Limited
  <2> QED
    BY <1>6, <2>2
<1> QED
  BY <1>1, <1>2, <1>8, <1>9

(* A request of an address, let through or turned away. *)
LEMMA NoteLimits == ASSUME LimiterOK, NEW c \in Addresses, Note(c) PROVE LimiterOK'
<1>1. PICK r : r = requests[c]
  OBVIOUS
<1>2. PICK a : a = admitted[c]
  OBVIOUS
<1>3. r \in Seq(Ages) /\ a \in Seq(Ages) /\ InOrder(r) /\ InOrder(a) /\ Matched(r, a) /\ Limited(a)
  BY <1>1, <1>2 DEF LimiterOK, LimiterTypeOK, Ages
<1>4. Kept(r) \in Seq(Ages) /\ InOrder(Kept(r)) /\ Matched(Kept(r), a)
  BY <1>3, KeptFacts, KeptInOrder, KeptMatches
<1>5. PICK s : s = Append(Kept(r), 0)
  OBVIOUS
<1>6. s \in Seq(Ages) /\ InOrder(s) /\ Len(s) = Len(Kept(r)) + 1
  BY <1>4, <1>5, NewestInOrder
<1>7. \E b : /\ b \in Seq(Ages) /\ InOrder(b) /\ Matched(s, b) /\ Limited(b)
             /\ admitted' = [admitted EXCEPT ![c] = b]
  <2>1. CASE LetThrough(c)
    <3>1. Len(Kept(r)) + 1 <= MaxRequests
      BY <1>1, <1>5, <1>6, <2>1 DEF LetThrough, Noted
    <3>2. Append(a, 0) \in Seq(Ages) /\ InOrder(Append(a, 0))
      BY <1>3, NewestInOrder
    <3>3. Limited(Append(a, 0))
      BY <1>3, <1>4, <3>1, LetThroughLimited
    <3>4. Matched(s, Append(a, 0))
      BY <1>3, <1>4, <1>5, LetThroughMatches
    <3>5. admitted' = [admitted EXCEPT ![c] = Append(a, 0)]
      BY <1>2, <2>1 DEF Note
    <3> QED
      BY <3>2, <3>3, <3>4, <3>5
  <2>2. CASE ~LetThrough(c)
    <3>1. Matched(s, a)
      BY <1>3, <1>4, <1>5, TurnedAwayMatches
    <3>2. admitted' = [admitted EXCEPT ![c] = a]
      BY <1>2, <2>2 DEF Note, LimiterOK, LimiterTypeOK
    <3> QED
      BY <1>3, <3>1, <3>2
  <2> QED
    BY <2>1, <2>2
<1>8. PICK b : /\ b \in Seq(Ages) /\ InOrder(b) /\ Matched(s, b) /\ Limited(b)
               /\ admitted' = [admitted EXCEPT ![c] = b]
  BY <1>7
<1>9. requests' = [requests EXCEPT ![c] = s]
  BY <1>1, <1>5 DEF Note, Noted
<1>10. /\ requests \in [Addresses -> Seq(Ages)] /\ admitted \in [Addresses -> Seq(Ages)]
       /\ \A d \in Addresses : InOrder(requests[d]) /\ InOrder(admitted[d])
       /\ \A d \in Addresses : Matched(requests[d], admitted[d]) /\ Limited(admitted[d])
  BY DEF LimiterOK, LimiterTypeOK, Ages
<1>11. /\ requests' \in [Addresses -> Seq(Ages)] /\ admitted' \in [Addresses -> Seq(Ages)]
       /\ requests'[c] = s /\ admitted'[c] = b
       /\ \A d \in Addresses \ {c} : requests'[d] = requests[d] /\ admitted'[d] = admitted[d]
  BY <1>6, <1>8, <1>9, <1>10
<1>12. \A d \in Addresses : /\ InOrder(requests'[d]) /\ InOrder(admitted'[d])
                            /\ Matched(requests'[d], admitted'[d]) /\ Limited(admitted'[d])
  BY <1>6, <1>8, <1>10, <1>11
<1>13. LimiterTypeOK'
  BY <1>11, <1>12 DEF LimiterTypeOK, InOrder, Ages
<1> QED
  BY <1>12, <1>13 DEF LimiterOK, Matched, Limited

(* Time goes on. *)
LEMMA TickLimits == ASSUME LimiterOK, LimiterTick PROVE LimiterOK'
<1>1. /\ requests \in [Addresses -> Seq(Ages)] /\ admitted \in [Addresses -> Seq(Ages)]
      /\ \A c \in Addresses : InOrder(requests[c]) /\ InOrder(admitted[c])
      /\ \A c \in Addresses : Matched(requests[c], admitted[c]) /\ Limited(admitted[c])
  BY DEF LimiterOK, LimiterTypeOK, Ages
<1>2. ASSUME NEW c \in Addresses
      PROVE  LET r == Older(requests[c]) b == Older(Kept(admitted[c]))
             IN  /\ r \in Seq(Ages) /\ InOrder(r) /\ b \in Seq(Ages) /\ InOrder(b)
                 /\ Matched(r, b) /\ Limited(b)
  <2>1. /\ requests[c] \in Seq(Ages) /\ admitted[c] \in Seq(Ages)
        /\ InOrder(requests[c]) /\ InOrder(admitted[c])
        /\ Matched(requests[c], admitted[c]) /\ Limited(admitted[c])
    BY <1>1
  <2>2. /\ Kept(admitted[c]) \in Seq(Ages) /\ InOrder(Kept(admitted[c]))
        /\ Matched(requests[c], Kept(admitted[c])) /\ Limited(Kept(admitted[c]))
    BY <2>1, KeptFacts, KeptInOrder, ForgottenMatches
  <2>3. /\ Older(requests[c]) \in Seq(Ages) /\ InOrder(Older(requests[c]))
        /\ Older(Kept(admitted[c])) \in Seq(Ages) /\ InOrder(Older(Kept(admitted[c])))
    BY <2>1, <2>2, OlderFacts
  <2>4. Matched(Older(requests[c]), Older(Kept(admitted[c]))) /\ Limited(Older(Kept(admitted[c])))
    BY <2>1, <2>2, OlderMatches
  <2> QED
    BY <2>3, <2>4
<1>3. /\ requests' = [c \in Addresses |-> Older(requests[c])]
      /\ admitted' = [c \in Addresses |-> Older(Kept(admitted[c]))]
  BY DEF LimiterTick, Kept
<1>4. \A c \in Addresses : /\ requests'[c] \in Seq(Ages) /\ admitted'[c] \in Seq(Ages)
                           /\ InOrder(requests'[c]) /\ InOrder(admitted'[c])
                           /\ Matched(requests'[c], admitted'[c]) /\ Limited(admitted'[c])
  BY <1>2, <1>3
<1>5. requests' \in [Addresses -> Seq(Ages)] /\ admitted' \in [Addresses -> Seq(Ages)]
  BY <1>3, <1>4
<1>6. LimiterTypeOK'
  BY <1>4, <1>5 DEF LimiterTypeOK, InOrder, Ages
<1> QED
  BY <1>4, <1>6 DEF LimiterOK, Matched, Limited

(* The lists of the rate limiter are inductive. *)
THEOREM LimiterInvariance == Spec => [](Inv /\ LimiterOK)
<1>1. Init => LimiterOK
  <2> SUFFICES ASSUME Init PROVE LimiterOK
    OBVIOUS
  <2>1. \A c \in Addresses : requests[c] = <<>> /\ admitted[c] = <<>>
    BY DEF Init, LimiterInit
  <2>2. <<>> \in Seq(0 .. Window) /\ Len(<<>>) = 0 /\ DOMAIN <<>> = {}
    OBVIOUS
  <2>3. InOrder(<<>>) /\ Matched(<<>>, <<>>) /\ Limited(<<>>)
    BY <2>2 DEF InOrder, Matched, Limited
  <2>4. /\ requests \in [Addresses -> Seq(0 .. Window)]
        /\ admitted \in [Addresses -> Seq(0 .. Window)]
    BY <2>2 DEF Init, LimiterInit
  <2> QED BY <2>1, <2>3, <2>4 DEF LimiterOK, LimiterTypeOK
<1>2. Inv /\ LimiterOK /\ [Next]_vars => LimiterOK'
  <2> SUFFICES ASSUME Inv, LimiterOK, [Next]_vars PROVE LimiterOK'
    OBVIOUS
  <2>1. ASSUME UNCHANGED limiterVars PROVE LimiterOK'
    BY <2>1 DEF limiterVars, LimiterOK, LimiterTypeOK, InOrder, Matched, Limited
  <2>2. ASSUME NEW q \in inbox, Deliver(q) \/ TurnAway(q) PROVE LimiterOK'
    <3>1. AddressOf[q.from] \in Addresses
      BY DeskAssumption DEF Inv, RequestsOK, Request
    <3>2. Note(AddressOf[q.from])
      BY <2>2 DEF Deliver, TurnAway
    <3> QED BY <3>1, <3>2, NoteLimits
  <2>3. CASE Tick
    BY <2>3, TickLimits DEF Tick
  <2>4. ASSUME NEW s \in Senders, NEW c \in Call, Click(s, c) PROVE LimiterOK'
    BY <2>1, <2>4 DEF Click
  <2>5. ASSUME NEW s \in Senders, NetworkFails(s) PROVE LimiterOK'
    BY <2>1, <2>5 DEF NetworkFails
  <2>6. ASSUME NEW h \in handling, HandlerStores(h) \/ HandlerEnds(h) PROVE LimiterOK'
    BY <2>1, <2>6 DEF HandlerStores, HandlerEnds
  <2>7. CASE PolicyAsks \/ UNCHANGED vars
    BY <2>1, <2>7 DEF PolicyAsks, vars
  <2> QED BY <2>2, <2>3, <2>4, <2>5, <2>6, <2>7 DEF Next
<1> QED BY <1>1, <1>2, Invariance, PTL DEF Spec

(* In no window of time are more requests of an address handled than the   *)
(* limit, for any limit and window, however many dashboards share the      *)
(* address and whatever is sent again.                                     *)
THEOREM LimitHolds == Spec => []AdmittedPerWindow
<1>1. LimiterOK => AdmittedPerWindow
  <2>1. SUFFICES ASSUME LimiterOK, NEW c \in Addresses
                 PROVE  Cardinality({i \in DOMAIN admitted[c] : admitted[c][i] < Window}) <= MaxRequests
    BY DEF AdmittedPerWindow
  <2>2. PICK a : a = admitted[c]
    OBVIOUS
  <2>3. a \in Seq(Ages) /\ Limited(a)
    BY <2>1, <2>2 DEF LimiterOK, LimiterTypeOK, Ages
  <2>4. Len(a) \in Nat /\ DOMAIN a = 1 .. Len(a) /\ MaxRequests \in Nat
    BY <2>3, LimiterAssumption
  <2>5. PICK low \in Int : low = Len(a) - MaxRequests + 1
    <3>1. Len(a) - MaxRequests + 1 \in Int
      BY <2>4
    <3> QED BY <3>1
  <2>6. {i \in DOMAIN a : a[i] < Window} \in SUBSET (low .. Len(a))
    <3>1. SUFFICES ASSUME NEW i \in 1 .. Len(a), a[i] < Window PROVE i >= low
      BY <2>4, <2>5
    <3>2. PICK j : j = Len(a) - i + 1
      OBVIOUS
    <3>3. j \in 1 .. Len(a) /\ Len(a) - j + 1 = i
      BY <2>4, <3>2
    <3>4. a[i] \in Ages
      BY <2>3
    <3>5. ~(a[i] >= Window)
      <4>1. a[i] \in Nat
        BY <3>4, AgesAreNumbers
      <4> QED BY <3>1, <4>1, AgesAreNumbers
    <3>6. ~(j > MaxRequests)
      BY <2>3, <3>3, <3>5 DEF Limited
    <3> QED BY <2>4, <2>5, <3>2, <3>3, <3>6
  <2>7. \A n \in Int, k \in Int :
            IsFiniteSet(n .. k) /\ Cardinality(n .. k) = IF n > k THEN 0 ELSE k - n + 1
    BY FS_Interval
  <2>8. IsFiniteSet(low .. Len(a)) /\ Cardinality(low .. Len(a)) <= MaxRequests
    <3>1. PICK n \in Nat : n = Len(a)
      BY <2>4
    <3>2. n \in Int
      BY <3>1
    <3>3. IsFiniteSet(low .. n) /\ Cardinality(low .. n) = IF low > n THEN 0 ELSE n - low + 1
      BY <2>7, <3>2
    <3>4. low = n - MaxRequests + 1
      BY <2>5, <3>1
    <3>5. (IF low > n THEN 0 ELSE n - low + 1) <= MaxRequests
      BY <2>4, <3>1, <3>4
    <3> QED BY <3>1, <3>3, <3>5
  <2>9. /\ IsFiniteSet({i \in DOMAIN a : a[i] < Window})
        /\ Cardinality({i \in DOMAIN a : a[i] < Window}) <= Cardinality(low .. Len(a))
    BY <2>6, <2>8, FS_Subset
  <2>10. /\ Cardinality({i \in DOMAIN a : a[i] < Window}) \in Nat
         /\ Cardinality(low .. Len(a)) \in Nat
    BY <2>8, <2>9, FS_CardinalityType
  <2> QED BY <2>2, <2>4, <2>8, <2>9, <2>10
<1> QED BY <1>1, LimiterInvariance, PTL
-----------------------------------------------------------------------------
(* There are ids enough: every ticket has a slot of its own, an attempt of *)
(* a call or a number of a policy's.                                       *)

Slots == (Clicks \X Routes) \cup ({Policy} \X (1 .. MaxPolicyTickets))

(* The requests that may still open a ticket. *)
Attempts == inbox \cup {h.request : h \in {g \in handling : g.step = "store"}}

(* An attempt is there once, and a call that waits for its first has not   *)
(* made its second.                                                        *)
AttemptsDistinct ==
    /\ \A q, r \in inbox : q.click = r.click /\ q.route = r.route => q = r
    /\ \A q \in inbox, h \in handling :
           h.step = "store" => q.click # h.request.click \/ q.route # h.request.route
    /\ \A s, t \in Senders :
           \A q \in waiting[s], r \in waiting[t] : s = t \/ q.click = r.click => q = r
    /\ \A s \in Senders : \A q \in waiting[s], r \in Attempts :
           q.route = "primary" /\ r.click = q.click => r.route = "primary"

(* The attempt of this slot is over, and is not made again. *)
Spent(x) ==
    x[1] # Policy =>
        /\ x[1] \in DOMAIN told
        /\ \A q \in Attempts : q.click = x[1] => q.route # x[2]
        /\ x[2] = "secondary" =>
               \A s \in Senders : \A q \in waiting[s] : q.click = x[1] => q.route = "secondary"

Booking(f) ==
    /\ \A i, j \in DOMAIN tickets : f[i] = f[j] => i = j
    /\ \A i \in DOMAIN tickets : f[i][1] = tickets[i].by /\ Spent(f[i])

Booked == \E f \in [DOMAIN tickets -> Slots] : Booking(f)

(* What the type invariant says and Inv, CallsOK and LimiterOK do not. *)
LimitsOK ==
    /\ AttemptsDistinct
    /\ Booked
    /\ \A h \in handling : h.id \in Ids \cup {0}
    /\ unlucky \subseteq Clicks
    /\ broken \subseteq ({"call"} \X Clicks) \cup ({"ticket"} \X DOMAIN tickets)

(* With no new attempt, a slot that is spent stays so. *)
LEMMA StaysSpent ==
    ASSUME NEW x, Spent(x), DOMAIN told \subseteq DOMAIN told', Attempts' \subseteq Attempts,
           \A s \in Senders : waiting'[s] \subseteq waiting[s]
    PROVE  Spent(x)'
BY DEF Spent

(* The bookings stand while the spent slots stay spent. *)
LEMMA StaysBooked ==
    ASSUME Booked, DOMAIN tickets' = DOMAIN tickets,
           \A i \in DOMAIN tickets : tickets'[i].by = tickets[i].by,
           \A x \in Slots : Spent(x) => Spent(x)'
    PROVE  Booked'
<1>1. PICK f \in [DOMAIN tickets -> Slots] : Booking(f)
  BY DEF Booked
<1>2. Booking(f)'
  BY <1>1 DEF Booking
<1> QED BY <1>1, <1>2 DEF Booked, Slots

(* A new ticket with a slot of its own is booked, too. *)
LEMMA BooksOneMore ==
    ASSUME NEW f \in [DOMAIN tickets -> Slots], Booking(f), NEW x \in Slots, NEW n,
           n \notin DOMAIN tickets, DOMAIN tickets' = DOMAIN tickets \cup {n},
           \A i \in DOMAIN tickets : tickets'[i] = tickets[i],
           \A i \in DOMAIN tickets : f[i] # x,
           \A i \in DOMAIN tickets : Spent(f[i])',
           tickets'[n].by = x[1], Spent(x)'
    PROVE  Booked'
<1>1. PICK g \in [DOMAIN tickets' -> Slots] :
          g[n] = x /\ \A i \in DOMAIN tickets : g[i] = f[i]
  <2> DEFINE new == [i \in DOMAIN tickets' |-> IF i = n THEN x ELSE f[i]]
  <2>1. /\ new \in [DOMAIN tickets' -> Slots]
        /\ new[n] = x /\ \A i \in DOMAIN tickets : new[i] = f[i]
    OBVIOUS
  <2> HIDE DEF new
  <2> QED BY <2>1
<1>2. Booking(g)'
  <2>1. \A i, j \in DOMAIN tickets' : g[i] = g[j] => i = j
    BY <1>1 DEF Booking
  <2>2. ASSUME NEW i \in DOMAIN tickets' PROVE g[i][1] = tickets'[i].by /\ Spent(g[i])'
    <3>1. CASE i = n
      BY <1>1, <3>1
    <3>2. CASE i # n
      BY <1>1, <3>2 DEF Booking
    <3> QED BY <3>1, <3>2
  <2> QED BY <2>1, <2>2 DEF Booking
<1> QED BY <1>1, <1>2 DEF Booked, Slots

(* Requests that go, and handlers that are past the store, free no slot    *)
(* and make no attempt.                                                    *)
LEMMA FewerAttempts ==
    ASSUME AttemptsDistinct, Booked,
           DOMAIN told \subseteq DOMAIN told', inbox' \subseteq inbox,
           \A s \in Senders : waiting'[s] \subseteq waiting[s],
           \A h \in handling' : h.step = "store" => h \in handling,
           DOMAIN tickets' = DOMAIN tickets,
           \A i \in DOMAIN tickets : tickets'[i].by = tickets[i].by
    PROVE  AttemptsDistinct' /\ Booked'
<1>1. Attempts' \subseteq Attempts
  BY DEF Attempts
<1>2. AttemptsDistinct'
  BY <1>1 DEF AttemptsDistinct
<1>3. Booked'
  BY <1>1, StaysSpent, StaysBooked
<1> QED BY <1>2, <1>3

(* A new call has two slots that nothing has spent. *)
LEMMA ClickBooks ==
    ASSUME RequestsOK, CallsOK, AttemptsDistinct, Booked,
           NEW s \in Senders, NEW c \in Call, Click(s, c)
    PROVE  AttemptsDistinct' /\ Booked'
<1>0. PICK n : n = Len(told) + 1
  OBVIOUS
<1> DEFINE new == [from |-> s, click |-> n, route |-> "primary", call |-> c]
<1>1. PICK q : /\ q.click = n /\ q.route = "primary"
               /\ waiting' = [waiting EXCEPT ![s] = {q}] /\ inbox' = inbox \cup {q}
  <2>1. /\ new.click = n /\ new.route = "primary"
        /\ waiting' = [waiting EXCEPT ![s] = {new}] /\ inbox' = inbox \cup {new}
    BY <1>0 DEF Click
  <2> HIDE DEF new
  <2> QED BY <2>1
<1>2. told' = Append(told, "nothing") /\ UNCHANGED <<tickets, handling>>
  BY DEF Click, approvalVars
<1>3. DOMAIN told' = DOMAIN told \cup {n} /\ n \notin DOMAIN told
  BY <1>0, <1>2 DEF RequestsOK, Answers
<1>4. waiting'[s] = {q} /\ \A t \in Senders : t # s => waiting'[t] = waiting[t]
  BY <1>1 DEF RequestsOK
<1>5. \A r \in Live : r.click # n
  BY <1>3 DEF CallsOK, AttemptOK
<1>6. \A t \in Senders : \A r \in waiting[t] : r.click # n
  BY <1>3 DEF CallsOK, AttemptOK
<1>7. Attempts \subseteq Live /\ Attempts' = Attempts \cup {q}
  BY <1>1, <1>2 DEF Attempts, Live
<1>8. AttemptsDistinct'
  <2>1. \A p, r \in inbox' : p.click = r.click /\ p.route = r.route => p = r
    BY <1>1, <1>5 DEF AttemptsDistinct, Live
  <2>2. \A p \in inbox', h \in handling' :
            h.step = "store" => p.click # h.request.click \/ p.route # h.request.route
    BY <1>1, <1>2, <1>5 DEF AttemptsDistinct, Live
  <2>3. \A t, u \in Senders :
            \A p \in waiting'[t], r \in waiting'[u] : t = u \/ p.click = r.click => p = r
    BY <1>1, <1>4, <1>6 DEF AttemptsDistinct
  <2>4. \A t \in Senders : \A p \in waiting'[t], r \in Attempts' :
            p.route = "primary" /\ r.click = p.click => r.route = "primary"
    BY <1>1, <1>4, <1>5, <1>6, <1>7 DEF AttemptsDistinct
  <2> QED BY <2>1, <2>2, <2>3, <2>4 DEF AttemptsDistinct
<1>9. ASSUME NEW x \in Slots, Spent(x) PROVE Spent(x)'
  BY <1>1, <1>3, <1>4, <1>7, <1>9 DEF Spent
<1> QED BY <1>2, <1>8, <1>9, StaysBooked

(* The second attempt of a call that still waits for its first is new. *)
LEMMA NetworkFailsBooks ==
    ASSUME RequestsOK, CallsOK, AttemptsDistinct, Booked, NEW s \in Senders, NetworkFails(s)
    PROVE  AttemptsDistinct' /\ Booked'
<1>1. PICK q \in waiting[s], left \in {inbox, inbox \ waiting[s]} : SendAgain(q, left)
  BY DEF NetworkFails
<1>2. /\ q \in Request /\ left \subseteq inbox /\ q.from = s
      /\ UNCHANGED <<tickets, handling>>
  BY <1>1 DEF NetworkFails, RequestsOK, CallsOK, approvalVars
<1>3. DOMAIN told' = DOMAIN told
  BY <1>1 DEF SendAgain, RequestsOK
<1>4. CASE q.route = "primary"
  <2> DEFINE new == [q EXCEPT !.route = "secondary"]
  <2>1. PICK r : /\ r.click = q.click /\ r.route = "secondary"
                 /\ inbox' = left \cup {r} /\ waiting' = [waiting EXCEPT ![s] = {r}]
    <3>1. new.click = q.click /\ new.route = "secondary"
      BY <1>2 DEF Request
    <3>2. inbox' = left \cup {new} /\ waiting' = [waiting EXCEPT ![s] = {new}]
      BY <1>1, <1>2, <1>4 DEF SendAgain
    <3> HIDE DEF new
    <3> QED BY <3>1, <3>2
  <2>2. waiting'[s] = {r} /\ \A t \in Senders : t # s => waiting'[t] = waiting[t]
    BY <2>1 DEF RequestsOK
  <2>3. \A p \in Attempts : p.click = r.click => p.route = "primary"
    BY <1>1, <1>4, <2>1 DEF AttemptsDistinct
  <2>4. \A t \in Senders : \A p \in waiting[t] : p.click = r.click => t = s
    <3>1. \A t \in Senders : \A p \in waiting[t] : p.click = r.click => p = q
      BY <1>1, <2>1 DEF AttemptsDistinct
    <3>2. \A t \in Senders : \A p \in waiting[t] : p.from = t
      BY DEF CallsOK
    <3> QED BY <1>2, <3>1, <3>2
  <2>5. inbox \subseteq Attempts /\ Attempts' \subseteq Attempts \cup {r}
    BY <1>2, <2>1 DEF Attempts
  <2>6. \A h \in handling : h.step = "store" => h.request \in Attempts
    BY DEF Attempts
  <2>7. AttemptsDistinct'
    <3>1. \A p \in inbox : p.click = r.click => p.route # r.route
      BY <2>1, <2>3, <2>5
    <3>2. \A p1, p2 \in inbox' : p1.click = p2.click /\ p1.route = p2.route => p1 = p2
      BY <1>2, <2>1, <3>1 DEF AttemptsDistinct
    <3>3. \A p \in inbox', h \in handling' :
              h.step = "store" => p.click # h.request.click \/ p.route # h.request.route
      BY <1>2, <2>1, <2>3, <2>6 DEF AttemptsDistinct
    <3>4. \A t, u \in Senders :
              \A p1 \in waiting'[t], p2 \in waiting'[u] : t = u \/ p1.click = p2.click => p1 = p2
      BY <2>2, <2>4 DEF AttemptsDistinct
    <3>5. \A t \in Senders : \A p1 \in waiting'[t], p2 \in Attempts' :
              p1.route = "primary" /\ p2.click = p1.click => p2.route = "primary"
      BY <2>1, <2>2, <2>4, <2>5 DEF AttemptsDistinct
    <3> QED BY <3>2, <3>3, <3>4, <3>5 DEF AttemptsDistinct
  <2>8. ASSUME NEW x \in Slots, Spent(x) PROVE Spent(x)'
    BY <1>1, <1>3, <1>4, <2>1, <2>2, <2>5, <2>8 DEF Spent
  <2> QED BY <1>2, <2>7, <2>8, StaysBooked
<1>5. CASE q.route # "primary"
  <2>1. inbox' \subseteq inbox /\ \A t \in Senders : waiting'[t] \subseteq waiting[t]
    BY <1>1, <1>2, <1>5 DEF SendAgain, RequestsOK
  <2> QED BY <1>2, <1>3, <2>1, FewerAttempts
<1> QED BY <1>4, <1>5

(* A ticket takes the slot of the attempt whose handler stores it. *)
LEMMA CreateTicketBooks ==
    ASSUME Inv, CallsOK, AttemptsDistinct, Booked, NEW h \in handling, CreateTicket(h),
           UNCHANGED <<waiting, told, inbox, unlucky>>
    PROVE  AttemptsDistinct' /\ Booked'
<1> DEFINE t == [status |-> Pending, by |-> h.request.click]
           n == Len(tickets) + 1
<1>1. PICK k \in Clicks : k = h.request.click
  BY DEF Inv, ServerOK, HandlerOK, Job, Request
<1>2. PICK x \in Slots : x[1] = k /\ x[2] = h.request.route
  <2>1. <<k, h.request.route>> \in Slots
    BY DEF Slots, Inv, ServerOK, HandlerOK, Job, Request
  <2>2. <<k, h.request.route>>[1] = k /\ <<k, h.request.route>>[2] = h.request.route
    OBVIOUS
  <2> QED BY <2>1, <2>2
<1>3. /\ tickets' = Append(tickets, t) /\ t \in Row /\ t.by = k
      /\ h.step = "store" /\ h.request \in Attempts /\ h.request \in Live
  BY <1>1 DEF CreateTicket, Proceed, Inv, ServerOK, HandlerOK, Row, Job, Status, Request,
              Attempts, Live
<1> HIDE DEF t
<1>4. /\ DOMAIN tickets' = DOMAIN tickets \cup {n} /\ n \notin DOMAIN tickets
      /\ tickets'[n].by = k /\ \A i \in DOMAIN tickets : tickets'[i] = tickets[i]
  BY <1>3 DEF Inv, ServerOK, TablesOK
<1> HIDE DEF n
<1>5. \A g \in handling' : g.step # "store"
  <2> DEFINE new == [h EXCEPT !.step = "audit", !.id = Len(tickets) + 1]
  <2>1. h \in Job /\ handling' = {new}
    BY DEF Inv, ServerOK, HandlerOK, CreateTicket
  <2>2. new.step = "audit"
    BY <2>1 DEF Job
  <2> HIDE DEF new
  <2> QED BY <2>1, <2>2
<1>6. Attempts' = inbox /\ Attempts' \subseteq Attempts
  BY <1>5 DEF Attempts
<1>7. AttemptsDistinct'
  BY <1>5, <1>6 DEF AttemptsDistinct
<1>8. Spent(x)'
  <2>1. k \in DOMAIN told
    BY <1>1, <1>3 DEF CallsOK, AttemptOK
  <2>2. \A q \in inbox : q.click = k => q.route # x[2]
    BY <1>1, <1>2, <1>3 DEF AttemptsDistinct
  <2>3. ASSUME x[2] = "secondary", NEW s \in Senders, NEW q \in waiting[s], q.click = k
        PROVE  q.route = "secondary"
    <3>1. q.route = "primary" /\ h.request.click = q.click => h.request.route = "primary"
      BY <1>3, <2>3 DEF AttemptsDistinct
    <3>2. q.route \in Routes
      BY <2>3 DEF Inv, RequestsOK, Request
    <3> QED BY <1>1, <1>2, <2>3, <3>1, <3>2 DEF Routes
  <2> QED BY <1>2, <1>6, <2>1, <2>2, <2>3 DEF Spent
<1>9. ~Spent(x)
  BY <1>1, <1>2, <1>3 DEF Spent, Policy, Clicks
<1>10. PICK f \in [DOMAIN tickets -> Slots] : Booking(f)
  BY DEF Booked
<1>11. \A i \in DOMAIN tickets : f[i] # x
  BY <1>9, <1>10 DEF Booking
<1>12. \A i \in DOMAIN tickets : Spent(f[i])'
  BY <1>6, <1>10, StaysSpent DEF Booking
<1> QED BY <1>2, <1>4, <1>7, <1>8, <1>10, <1>11, <1>12, BooksOneMore

(* A policy that opens a ticket has a number left. *)
LEMMA PolicyTicketBooks ==
    ASSUME Inv, AttemptsDistinct, Booked, PolicyAsks
    PROVE  AttemptsDistinct' /\ Booked'
<1> DEFINE t == [status |-> Pending, by |-> Policy]
           n == Len(tickets) + 1
           P == {i \in DOMAIN tickets : tickets[i].by = Policy}
<1>1. /\ tickets' = Append(tickets, t) /\ t \in Row /\ t.by = Policy
      /\ UNCHANGED <<handling, waiting, told, inbox>>
  BY DEF PolicyAsks, PolicyTicket, Row, Status
<1> HIDE DEF t
<1>2. /\ DOMAIN tickets' = DOMAIN tickets \cup {n} /\ n \notin DOMAIN tickets
      /\ tickets'[n].by = Policy /\ \A i \in DOMAIN tickets : tickets'[i] = tickets[i]
  BY <1>1 DEF Inv, ServerOK, TablesOK
<1> HIDE DEF n
<1>3. PICK f \in [DOMAIN tickets -> Slots] : Booking(f)
  BY DEF Booked
<1>4. IsFiniteSet(P) /\ Cardinality(P) < MaxPolicyTickets
  <2>1. DOMAIN tickets = 1 .. Len(tickets) /\ Len(tickets) \in Int
    BY DEF Inv, ServerOK, TablesOK
  <2>2. IsFiniteSet(DOMAIN tickets)
    BY <2>1, FS_Interval
  <2>3. P \in SUBSET DOMAIN tickets
    OBVIOUS
  <2> QED BY <2>2, <2>3, FS_Subset DEF PolicyAsks, PolicyTicket
<1>5. PICK m \in 1 .. MaxPolicyTickets : \A i \in P : f[i] # <<Policy, m>>
  <2>1. SUFFICES ASSUME \A m \in 1 .. MaxPolicyTickets : \E i \in P : f[i] = <<Policy, m>>
                 PROVE  FALSE
    OBVIOUS
  <2> HIDE DEF P
  <2>2. PICK g : g = [m \in 1 .. MaxPolicyTickets |-> CHOOSE i \in P : f[i] = <<Policy, m>>]
    OBVIOUS
  <2>3. \A m \in 1 .. MaxPolicyTickets : g[m] \in P /\ f[g[m]] = <<Policy, m>>
    BY <2>1, <2>2
  <2>4. g \in [1 .. MaxPolicyTickets -> P]
    BY <2>2, <2>3
  <2>5. \A a, b \in 1 .. MaxPolicyTickets : g[a] = g[b] => a = b
    <3>1. SUFFICES ASSUME NEW a \in 1 .. MaxPolicyTickets, NEW b \in 1 .. MaxPolicyTickets,
                          g[a] = g[b]
                   PROVE  a = b
      OBVIOUS
    <3>2. <<Policy, a>> = <<Policy, b>>
      BY <2>3, <3>1
    <3> QED BY <3>2
  <2>6. g \in Injection(1 .. MaxPolicyTickets, P)
    BY <2>4, <2>5 DEF Injection, IsInjective
  <2>7. Cardinality(1 .. MaxPolicyTickets) <= Cardinality(P)
    BY <1>4, <2>6, FS_Injection
  <2>8. MaxPolicyTickets \in Nat /\ Cardinality(P) \in Nat
    BY <1>4, ApprovalAssumption, FS_CardinalityType
  <2>9. Cardinality(1 .. MaxPolicyTickets) = MaxPolicyTickets
    BY <2>8, FS_Interval
  <2> QED BY <1>4, <2>7, <2>8, <2>9
<1>6. PICK x \in Slots : x[1] = Policy /\ \A i \in P : f[i] # x
  <2>1. <<Policy, m>> \in Slots /\ <<Policy, m>>[1] = Policy
    BY DEF Slots
  <2> QED BY <1>5, <2>1
<1>7. \A i \in DOMAIN tickets : f[i] # x
  BY <1>3, <1>6 DEF Booking
<1>8. Attempts' = Attempts
  BY <1>1 DEF Attempts
<1>9. Spent(x)' /\ \A i \in DOMAIN tickets : Spent(f[i])'
  BY <1>1, <1>3, <1>6, <1>8, StaysSpent DEF Spent, Booking
<1>10. AttemptsDistinct'
  BY <1>1, <1>8 DEF AttemptsDistinct
<1> QED BY <1>2, <1>3, <1>6, <1>7, <1>9, <1>10, BooksOneMore

(* A request that goes from the inbox to a handler is the same attempt. *)
LEMMA DeliverBooks ==
    ASSUME AttemptsDistinct, Booked, NEW q \in inbox, Deliver(q)
    PROVE  AttemptsDistinct' /\ Booked'
<1>1. PICK h : h.request = q /\ h.step = "store" /\ handling = {} /\ handling' = {h}
  BY DEF Deliver, Begin
<1>2. inbox' = inbox \ {q} /\ UNCHANGED <<tickets, waiting, told>>
  BY DEF Deliver, Begin
<1>3. Attempts' = Attempts
  BY <1>1, <1>2 DEF Attempts
<1>4. AttemptsDistinct'
  BY <1>1, <1>2, <1>3 DEF AttemptsDistinct
<1> QED BY <1>2, <1>3, <1>4, StaysSpent, StaysBooked

(* An answer makes no attempt. *)
LEMMA ReplyBooks ==
    ASSUME RequestsOK, AttemptsDistinct, Booked, NEW q, NEW answer, Reply(q, answer),
           handling' \subseteq handling, UNCHANGED tickets
    PROVE  AttemptsDistinct' /\ Booked'
<1>1. DOMAIN told' = DOMAIN told /\ inbox' \subseteq inbox
  BY DEF Reply, RequestsOK
<1>2. \A s \in Senders : waiting'[s] \subseteq waiting[s]
  BY DEF Reply, RequestsOK
<1> QED BY <1>1, <1>2, FewerAttempts

(* A decision changes who opened no ticket. *)
LEMMA UpdateTicketBooks ==
    ASSUME Inv, AttemptsDistinct, Booked, NEW h \in handling, UpdateTicket(h),
           UNCHANGED <<waiting, told, inbox>>
    PROVE  AttemptsDistinct' /\ Booked'
<1> DEFINE id == h.request.call.id
<1>1. \A g \in handling' : g.step # "store"
  <2> DEFINE new == [h EXCEPT !.step = "audit", !.id = id]
  <2>1. h \in Job /\ handling' = {new}
    BY DEF Inv, ServerOK, HandlerOK, UpdateTicket
  <2>2. new.step = "audit"
    BY <2>1 DEF Job
  <2> HIDE DEF new
  <2> QED BY <2>1, <2>2
<1>2. DOMAIN tickets' = DOMAIN tickets
  BY DEF UpdateTicket
<1>3. ASSUME NEW i \in DOMAIN tickets PROVE tickets'[i].by = tickets[i].by
  <2>1. /\ tickets' = [tickets EXCEPT ![id].status = h.request.call.status]
        /\ tickets[i] \in Row
    BY DEF UpdateTicket, Inv, ServerOK, TablesOK
  <2> HIDE DEF id
  <2>2. CASE i = id
    <3>1. tickets'[i] = [tickets[i] EXCEPT !.status = h.request.call.status]
      BY <2>1, <2>2
    <3> QED BY <2>1, <3>1 DEF Row
  <2>3. CASE i # id
    BY <2>1, <2>3
  <2> QED BY <2>2, <2>3
<1> QED BY <1>1, <1>2, <1>3, FewerAttempts

(* As many slots as the bound allows ids. *)
LEMMA SlotsCount ==
    IsFiniteSet(Slots) /\ Cardinality(Slots) = 2 * MaxClicks + MaxPolicyTickets
<1>1. MaxClicks \in Nat /\ MaxPolicyTickets \in Nat
  BY ApprovalAssumption
<1>2. \A n \in Nat : IsFiniteSet(1 .. n) /\ Cardinality(1 .. n) = n
  BY FS_Interval
<1>3. /\ IsFiniteSet(Clicks) /\ Cardinality(Clicks) = MaxClicks
      /\ IsFiniteSet(1 .. MaxPolicyTickets)
      /\ Cardinality(1 .. MaxPolicyTickets) = MaxPolicyTickets
  BY <1>1, <1>2 DEF Clicks
<1>4. IsFiniteSet(Routes) /\ Cardinality(Routes) = 2
  <2>1. IsFiniteSet({"primary"}) /\ Cardinality({"primary"}) = 1
    BY FS_Singleton
  <2>2. Routes = {"primary"} \cup {"secondary"} /\ "secondary" \notin {"primary"}
    BY DEF Routes
  <2> QED BY <2>1, <2>2, FS_AddElement
<1>5. IsFiniteSet(Clicks \X Routes) /\ Cardinality(Clicks \X Routes) = MaxClicks * 2
  BY <1>3, <1>4, FS_Product
<1>6. /\ IsFiniteSet({Policy} \X (1 .. MaxPolicyTickets))
      /\ Cardinality({Policy} \X (1 .. MaxPolicyTickets)) = MaxPolicyTickets
  <2>1. IsFiniteSet({Policy}) /\ Cardinality({Policy}) = 1
    BY FS_Singleton
  <2>2. /\ IsFiniteSet({Policy} \X (1 .. MaxPolicyTickets))
        /\ Cardinality({Policy} \X (1 .. MaxPolicyTickets)) = 1 * MaxPolicyTickets
    BY <1>3, <2>1, FS_Product
  <2> QED BY <1>1, <2>2
<1>7. (Clicks \X Routes) \cap ({Policy} \X (1 .. MaxPolicyTickets)) = {}
  BY DEF Clicks, Policy
<1> QED
  <2>1. /\ IsFiniteSet(Slots)
        /\ Cardinality(Slots) = MaxClicks * 2 + MaxPolicyTickets - Cardinality({})
    <3>1. PICK A, B : A = Clicks \X Routes /\ B = {Policy} \X (1 .. MaxPolicyTickets)
      OBVIOUS
    <3>2. /\ IsFiniteSet(A \cup B)
          /\ Cardinality(A \cup B) = Cardinality(A) + Cardinality(B) - Cardinality(A \cap B)
      BY <1>5, <1>6, <3>1, FS_Union
    <3> QED BY <1>5, <1>6, <1>7, <3>1, <3>2 DEF Slots
  <2>2. Cardinality({}) = 0
    BY FS_EmptySet
  <2> QED BY <1>1, <2>1, <2>2

(* There are no more tickets than slots. *)
LEMMA SlotsBound ==
    ASSUME NEW n \in Nat, NEW f \in [1 .. n -> Slots],
           \A i, j \in 1 .. n : f[i] = f[j] => i = j
    PROVE  n <= 2 * MaxClicks + MaxPolicyTickets
<1>1. f \in Injection(1 .. n, Slots)
  BY DEF Injection, IsInjective
<1>2. Cardinality(1 .. n) <= Cardinality(Slots)
  BY <1>1, SlotsCount, FS_Injection
<1>3. Cardinality(1 .. n) = n
  BY FS_Interval
<1> QED BY <1>2, <1>3, SlotsCount

(* The bookings are inductive. *)
THEOREM LimitsInvariance == Spec => []LimitsOK
<1>1. Init => LimitsOK
  <2> SUFFICES ASSUME Init PROVE LimitsOK
    OBVIOUS
  <2>1. /\ tickets = <<>> /\ handling = {} /\ broken = {} /\ inbox = {} /\ unlucky = {}
        /\ \A s \in Senders : waiting[s] = {}
    BY DEF Init, ApprovalInit
  <2>2. AttemptsDistinct
    BY <2>1 DEF AttemptsDistinct
  <2>3. Booked
    <3>1. PICK f : f = [i \in {} |-> <<>>]
      OBVIOUS
    <3>2. DOMAIN tickets = {}
      BY <2>1
    <3>3. f \in [DOMAIN tickets -> Slots]
      BY <3>1, <3>2
    <3>4. Booking(f)
      BY <3>2 DEF Booking
    <3> QED BY <3>3, <3>4 DEF Booked
  <2> QED BY <2>1, <2>2, <2>3 DEF LimitsOK
<1>2. Inv /\ CallsOK /\ LimitsOK /\ TablesOK' /\ [Next]_vars => LimitsOK'
  <2> SUFFICES ASSUME Inv, CallsOK, LimitsOK, TablesOK', [Next]_vars PROVE LimitsOK'
    OBVIOUS
  <2> USE DEF LimitsOK
  <2>1. ASSUME UNCHANGED <<waiting, told, inbox, tickets, handling, broken, unlucky>>
        PROVE  LimitsOK'
    <3>1. AttemptsDistinct' /\ Booked'
      BY <2>1, FewerAttempts
    <3> QED BY <2>1, <3>1
  <2>2. ASSUME NEW s \in Senders, NEW c \in Call, Click(s, c) PROVE LimitsOK'
    BY <2>2, ClickBooks DEF Inv, Click, approvalVars
  <2>3. ASSUME NEW s \in Senders, NetworkFails(s) PROVE LimitsOK'
    <3>1. AttemptsDistinct' /\ Booked'
      BY <2>3, NetworkFailsBooks DEF Inv
    <3>2. unlucky' \subseteq Clicks /\ UNCHANGED <<tickets, handling, broken>>
      BY <2>3 DEF NetworkFails, approvalVars, Inv, RequestsOK, Request
    <3> QED BY <3>1, <3>2
  <2>4. ASSUME NEW q \in inbox, Deliver(q) PROVE LimitsOK'
    <3>1. AttemptsDistinct' /\ Booked'
      BY <2>4, DeliverBooks
    <3>2. /\ UNCHANGED <<tickets, broken, unlucky>>
          /\ \A h \in handling' : h.id = 0
      BY <2>4 DEF Deliver, Begin
    <3> QED BY <3>1, <3>2
  <2>5. ASSUME NEW q \in inbox, TurnAway(q) PROVE LimitsOK'
    <3>1. AttemptsDistinct' /\ Booked'
      BY <2>5, ReplyBooks DEF TurnAway, approvalVars, Inv
    <3> QED BY <2>5, <3>1 DEF TurnAway, approvalVars
  <2>6. ASSUME NEW h \in handling, HandlerStores(h) PROVE LimitsOK'
    <3>1. AttemptsDistinct' /\ Booked'
      BY <2>6, CreateTicketBooks, UpdateTicketBooks DEF HandlerStores
    <3>2. unlucky' = unlucky /\ broken' = broken /\ DOMAIN tickets \subseteq DOMAIN tickets'
      BY <2>6 DEF HandlerStores, CreateTicket, UpdateTicket, Inv, ServerOK, TablesOK
    <3>3. h \in Job /\ h.request \in Request /\ handling = {h}
      BY DEF Inv, ServerOK, HandlerOK, Job
    <3>4. \A g \in handling' : g.id \in Ids
      <4>1. CASE CreateTicket(h)
        <5> DEFINE new == [h EXCEPT !.step = "audit", !.id = Len(tickets) + 1]
        <5>1. handling' = {new} /\ new.id = Len(tickets) + 1
          BY <3>3, <4>1 DEF CreateTicket, Job
        <5>2. Len(tickets) + 1 = Len(tickets') /\ Len(tickets) \in Nat
          BY <4>1 DEF CreateTicket, Inv, ServerOK, TablesOK
        <5>3. Len(tickets') <= 2 * MaxClicks + MaxPolicyTickets
          <6>1. PICK f \in [DOMAIN tickets' -> Slots] :
                    \A i, j \in DOMAIN tickets' : f[i] = f[j] => i = j
            BY <3>1 DEF Booked, Booking, Slots
          <6>2. DOMAIN tickets' = 1 .. Len(tickets') /\ Len(tickets') \in Nat
            BY DEF TablesOK
          <6> QED BY <6>1, <6>2, SlotsBound
        <5> HIDE DEF new
        <5> QED BY <5>1, <5>2, <5>3, ApprovalAssumption DEF Ids
      <4>2. CASE UpdateTicket(h)
        <5> DEFINE new == [h EXCEPT !.step = "audit", !.id = h.request.call.id]
        <5>1. handling' = {new} /\ new.id = h.request.call.id
          BY <3>3, <4>2 DEF UpdateTicket, Job
        <5>2. h.request.call \in Call /\ h.request.call.op = "resolve"
          BY <3>3, <4>2 DEF UpdateTicket, Request
        <5>3. h.request.call.id \in Ids
          BY <5>2 DEF Call
        <5> HIDE DEF new
        <5> QED BY <5>1, <5>3
      <4> QED BY <2>6, <4>1, <4>2 DEF HandlerStores
    <3> QED BY <3>1, <3>2, <3>4
  <2>7. ASSUME NEW h \in handling, HandlerEnds(h) PROVE LimitsOK'
    <3>1. /\ handling' \subseteq handling /\ UNCHANGED <<tickets, unlucky>>
          /\ \E answer : Reply(h.request, answer)
      BY <2>7 DEF HandlerEnds, WriteAudit, Refuse, StoreFails, BreaksOff
    <3>2. AttemptsDistinct' /\ Booked'
      BY <3>1, ReplyBooks DEF Inv
    <3>3. h.request.click \in Clicks /\ (Resolves(h) => h.id \in DOMAIN tickets)
      BY DEF Inv, ServerOK, HandlerOK, Job, Request
    <3>4. broken' \subseteq broken \cup {<<"call", h.request.click>>}
                     \cup (IF Resolves(h) THEN {<<"ticket", h.id>>} ELSE {})
      BY <2>7 DEF HandlerEnds, WriteAudit, Refuse, StoreFails, BreaksOff, Resolves
    <3>5. broken' \subseteq ({"call"} \X Clicks) \cup ({"ticket"} \X DOMAIN tickets)
      BY <3>3, <3>4
    <3> QED BY <3>1, <3>2, <3>5
  <2>8. CASE PolicyAsks
    <3>1. AttemptsDistinct' /\ Booked'
      BY <2>8, PolicyTicketBooks
    <3>2. UNCHANGED <<handling, broken, unlucky>> /\ DOMAIN tickets \subseteq DOMAIN tickets'
      BY <2>8 DEF PolicyAsks, PolicyTicket, Inv, ServerOK, TablesOK
    <3> QED BY <3>1, <3>2
  <2>9. CASE Tick \/ UNCHANGED vars
    BY <2>1, <2>9 DEF Tick, vars, approvalVars
  <2> QED BY <2>2, <2>3, <2>4, <2>5, <2>6, <2>7, <2>8, <2>9 DEF Next
<1>3. Inv => TablesOK
  BY DEF Inv, ServerOK
<1> QED BY <1>1, <1>2, <1>3, CallsInvariance, PTL DEF Spec

(* Whatever is sent twice, no id passes the bound of the table, a          *)
(* dashboard waits for one request at a time, and every variable keeps its *)
(* type.                                                                   *)
THEOREM TypeCorrect == Spec => []TypeOK
<1>1. Inv /\ LimiterOK /\ LimitsOK => TypeOK
  <2> SUFFICES ASSUME Inv, LimiterOK, LimitsOK PROVE TypeOK
    OBVIOUS
  <2>1. LimiterTypeOK
    BY DEF LimiterOK
  <2>2. handling \subseteq Handling
    <3>1. SUFFICES ASSUME NEW h \in handling PROVE h \in Handling
      OBVIOUS
    <3>2. h \in Job /\ h.id \in Ids \cup {0}
      BY DEF Inv, ServerOK, HandlerOK, LimitsOK
    <3> QED BY <3>2 DEF Job, Handling
  <2>3. ApprovalTypeOK
    BY <2>2 DEF ApprovalTypeOK, Inv, ServerOK, TablesOK, LimitsOK, Row, Ticket, Status
  <2>4. ASSUME NEW s \in Senders PROVE Cardinality(waiting[s]) <= 1
    <3>1. \A q, r \in waiting[s] : q = r
      BY DEF LimitsOK, AttemptsDistinct
    <3>2. waiting[s] = {} \/ \E q : waiting[s] = {q}
      BY <3>1
    <3>3. Cardinality(waiting[s]) = 0 \/ Cardinality(waiting[s]) = 1
      BY <3>2, FS_EmptySet, FS_Singleton
    <3> QED BY <3>3
  <2> QED BY <2>1, <2>3, <2>4 DEF TypeOK, Inv, RequestsOK, LimitsOK, Answers
<1> QED BY <1>1, LimiterInvariance, LimitsInvariance, PTL
=============================================================================
