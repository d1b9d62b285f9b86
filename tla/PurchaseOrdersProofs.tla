-------------------------- MODULE PurchaseOrdersProofs --------------------------
(* Theorems about PurchaseOrders, for any number of calls, intents, merchants,   *)
(* offers, price changes and failures.                                           *)
EXTENDS PurchaseOrders, SequenceTheorems, FiniteFacts

-------------------------------------------------------------------------------
(* The inductive invariant.  What the tables say of each other; what each call   *)
(* relies on from one of its statements to the next; and that the merchant's     *)
(* cancellations reach the orders.                                               *)

\* The statements of each operation, but for the writes of intents and the answer.
Visits ==
  [none |-> {}, discover |-> {"fanout"}, select |-> {"selected"}, cancel |-> {}, limit |-> {},
   request |-> {"evaluate", "create"},
   approve |-> {"update", "reload"}, reject |-> {"update", "reload"}, reapprove |-> {"update", "reload"},
   execute |-> {"load", "gate", "approval", "refresh", "policy", "update", "claim", "checkout", "record"},
   authenticate |-> {"answer", "record"}, cancel_order |-> {"merchant", "stamp"}]
Ends == {"idle", "write", "return", "done"}
Label == Ends \cup UNION {Visits[op] : op \in Operations}

Paths == {<<s>> : s \in Status} \cup {<<"EXECUTING", "FAILED">>}
Memory == [row : PurchaseIntent, path : Seq(Status), then : Label, at : Nat \cup Calls,
           a : ApprovalRow \cup {NONE}, offer : Terms, sale : Order \cup {NONE}]

\* TypeOK, and what it leaves out: the calls' memory, histories and domains.
Types ==
  /\ TypeOK
  /\ pc \in [Calls -> Label] /\ mem \in [Calls -> Memory]
  /\ quotes \in [Intents -> SUBSET Quote] /\ approvals \in [Intents -> Seq(ApprovalRow)]
  /\ orders \in [Calls -> Order \cup {NONE}] /\ sold \in [Calls -> Sale \cup {NONE}]
  /\ claim \in [Calls -> Claim \cup {NONE}]
  /\ faults \in Nat

Consenting(c) == Op(c) \in {"request", "approve", "reapprove"}
\* An approval rests on an act of consent to its intent; and on its terms.
Consented(a, i) == On(a.by) = i /\ Consenting(a.by)
Granted(a, i) == Consented(a, i) /\ granted[a.by] = a.terms

\* A row that is APPROVED rests on a consent that no execution has claimed and that no
\* other row rests on.
ApprovalsRest ==
  \A i \in Intents : \A at \in DOMAIN approvals[i] :
    LET a == approvals[i][at]
    IN  /\ Consented(a, i)
        /\ a.status = "APPROVED" =>
             /\ Granted(a, i)
             /\ \A e \in Calls : claim[e] # NONE => claim[e].by # a.by
             /\ \A k \in DOMAIN approvals[i] :
                  approvals[i][k].status = "APPROVED" /\ approvals[i][k].by = a.by => k = at

\* A claim rests on a consent to the same intent, and its terms on consented terms;
\* no consent is claimed twice.
ClaimsRest ==
  \A e \in Calls : claim[e] # NONE =>
    /\ granted[claim[e].by] # NONE /\ On(claim[e].by) = On(e)
    /\ \E c \in Calls : granted[c] # NONE /\ On(c) = On(e) /\ Matches([terms |-> granted[c]], claim[e].terms)
    /\ \A f \in Calls : claim[f] # NONE /\ claim[f].by = claim[e].by => f = e

\* An order a call records is of a placed sale, to the call's own intent unless a
\* completion recorded it, and CANCELLED only if the sale is.
Covers(order, r) ==
  /\ order.of \in Placed
  /\ On(order.of) = On(r) \/ Op(r) = "authenticate"
  /\ order.status = "CANCELLED" => sold[order.of].state = "CANCELLED"
OrdersRest == \A r \in Calls : orders[r] # NONE => Covers(orders[r], r)

\* Statuses that say something about another table.
StatusRests ==
  \A i \in Intents :
    /\ intents[i].status = "APPROVED" => approvals[i] # <<>>
    /\ intents[i].status = "SUCCEEDED" => \E r \in Calls : orders[r] # NONE /\ On(r) = i

Tables == ApprovalsRest /\ ClaimsRest /\ OrdersRest /\ StatusRests

\* A call is at a statement of its operation.
Position(c) ==
  /\ pc[c] \in Ends \cup Visits[Op(c)]
  /\ pc[c] = "write" =>
       /\ mem[c].path \in Paths
       /\ mem[c].then \in {"return"} \cup {l \in {"fanout", "evaluate", "checkout"} : l \in Visits[Op(c)]}
       /\ mem[c].then = "evaluate" => mem[c].row.quote # NONE
       /\ mem[c].path = <<"APPROVED">> => approvals[On(c)] # <<>>
       /\ mem[c].path = <<"SUCCEEDED">> => orders[c] # NONE
Writes(c, then) == pc[c] = "write" /\ mem[c].then = then

\* A call that has consented did so once, and will not again; what it is about to
\* write over an approval is its own consent or an end of one.
Consent(c) ==
  /\ granted[c] # NONE => /\ Consenting(c)
                          /\ pc[c] \in {"reload", "return", "done"} \/ Writes(c, "return")
  /\ pc[c] = "selected" => mem[c].row.status = "QUOTED"
  /\ pc[c] = "evaluate" => mem[c].row.quote # NONE
  /\ pc[c] = "create" => /\ mem[c].a \in ApprovalRow
                          /\ mem[c].a.by = c /\ mem[c].a.status \in {"PENDING", "APPROVED"}
  /\ pc[c] = "update" =>
       /\ mem[c].at \in DOMAIN approvals[On(c)]
       /\ mem[c].a \in ApprovalRow /\ Consented(mem[c].a, On(c))
       /\ \/ mem[c].a.status = "APPROVED" /\ mem[c].a.by = c
          \/ mem[c].a.status \in {"REJECTED", "REAPPROVAL_REQUIRED"} /\ mem[c].a.by # c
  /\ pc[c] = "reload" => approvals[On(c)] # <<>>

\* An execution claims once, after it has compared the terms with those of an approval
\* it read, and is at the checkout only with its claim.
Execution(c) ==
  /\ pc[c] \in {"gate", "approval"} => approvals[On(c)] # <<>>
  /\ pc[c] \in {"refresh", "policy", "claim"} =>
       /\ mem[c].at \in DOMAIN approvals[On(c)]
       /\ mem[c].a \in ApprovalRow /\ Granted(mem[c].a, On(c))
  /\ pc[c] \in {"policy", "claim"} => mem[c].offer \in Offers /\ Matches(mem[c].a, mem[c].offer)
  /\ claim[c] # NONE => Op(c) = "execute" /\ pc[c] \in {"write", "checkout", "record", "return", "done"}
  /\ pc[c] = "checkout" \/ Writes(c, "checkout") => claim[c] # NONE
  /\ sold[c] # NONE => /\ claim[c] # NONE
                       /\ pc[c] \in {"record", "return", "done"} \/ Writes(c, "return")

\* A call records one order, of a sale that is placed; a cancellation is of an order on
\* record.
Ordering(c) ==
  /\ orders[c] # NONE => pc[c] \in {"return", "done"} \/ Writes(c, "return")
  /\ pc[c] = "record" => mem[c].sale \in Order /\ Covers(mem[c].sale, c)
  /\ pc[c] \in {"merchant", "stamp"} => mem[c].at \in Calls /\ orders[mem[c].at] # NONE
  /\ pc[c] = "stamp" => sold[orders[mem[c].at].of].state = "CANCELLED"

Call(c) == Position(c) /\ Consent(c) /\ Execution(c) /\ Ordering(c)

\* A sale the merchant cancelled is cancelled on record, or will be by the call that
\* asked for it, or that call was cut short.
Stamps(c, e) == pc[c] = "stamp" /\ orders[mem[c].at].of = e
CancelledFor(e) == \E r \in Calls : orders[r] # NONE /\ orders[r].of = e /\ orders[r].status = "CANCELLED"
CancelsArrive ==
  faults = 0 => \A e \in Placed : sold[e].state = "CANCELLED" =>
    CancelledFor(e) \/ \E c \in Calls : Stamps(c, e)

OrdersAccounted == Types /\ Tables /\ (\A c \in Calls : Call(c)) /\ CancelsArrive

-------------------------------------------------------------------------------
(* Frames.  Facts only grow: what one call does leaves to the others what they   *)
(* rely on.                                                                      *)

Grows(c) ==
  /\ job' = job
  /\ \A d \in Calls \ {c} :
       /\ pc'[d] = pc[d] /\ mem'[d] = mem[d]
       /\ granted'[d] = granted[d] /\ claim'[d] = claim[d]
       /\ orders'[d] = NONE <=> orders[d] = NONE
       /\ sold'[d] = NONE <=> sold[d] = NONE
  /\ \A i \in Intents : /\ DOMAIN approvals[i] \subseteq DOMAIN approvals'[i]
                        /\ approvals[i] # <<>> => approvals'[i] # <<>>
  /\ \A d \in Calls :
       /\ granted[d] # NONE => granted'[d] = granted[d]
       /\ orders[d] # NONE => orders'[d] # NONE /\ orders'[d].of = orders[d].of
       /\ d \in Placed => d \in Placed'
       /\ d \in Placed /\ sold[d].state = "CANCELLED" => sold'[d].state = "CANCELLED"

LEMMA JobFacts ==
  ASSUME TypeOK, NEW c \in Calls
  PROVE  On(c) \in Intents /\ Op(c) \in Operations
BY WorkloadsAssumption DEF TypeOK, On, Op

LEMMA OthersGoOn ==
  ASSUME Types, Tables, NEW c, Grows(c), NEW d \in Calls, d # c, Call(d)
  PROVE  Call(d)'
<1> On(d) \in Intents
  BY JobFacts DEF Types
<1>0. On(d)' = On(d) /\ Op(d)' = Op(d) /\ pc'[d] = pc[d] /\ mem'[d] = mem[d]
  BY DEF Grows, On, Op
<1>1. Position(d)'
  BY <1>0 DEF Call, Position, Grows
<1>2. Consent(d)'
  <2>1. \A a : Consented(a, On(d))' <=> Consented(a, On(d))
    BY DEF Consented, Consenting, Grows, On, Op
  <2> QED BY <1>0, <2>1 DEF Call, Consent, Grows, Writes, Consenting
<1>3. Execution(d)'
  <2>1. \A a \in ApprovalRow : Granted(a, On(d)) => Granted(a, On(d))'
    BY NoneAssumption DEF Granted, Consented, Consenting, Grows, On, Op, ApprovalRow
  <2> QED BY <1>0, <2>1 DEF Call, Execution, Grows, Writes
<1>4. Ordering(d)'
  <2>1. ASSUME NEW o \in Order, Covers(o, d) PROVE Covers(o, d)'
    BY <2>1 DEF Covers, Order, Grows, On, Op
  <2>2. pc[d] = "stamp" => sold'[orders'[mem[d].at].of].state = "CANCELLED"
    <3> SUFFICES ASSUME pc[d] = "stamp"
                 PROVE  sold'[orders'[mem[d].at].of].state = "CANCELLED"
      OBVIOUS
    <3>1. mem[d].at \in Calls /\ orders[mem[d].at] # NONE
      BY DEF Call, Ordering
    <3>2. orders[mem[d].at].of \in Placed /\ orders'[mem[d].at].of = orders[mem[d].at].of
      BY <3>1 DEF Tables, OrdersRest, Covers, Grows
    <3>3. orders[mem[d].at].of \in Calls
      BY <3>2 DEF Placed
    <3> QED BY <3>2, <3>3 DEF Call, Ordering, Grows
  <2>3. mem[d].at \in Calls /\ orders[mem[d].at] # NONE => orders'[mem[d].at] # NONE
    BY DEF Grows
  <2>4. orders[d] # NONE <=> orders'[d] # NONE
    BY DEF Grows
  <2> QED BY <1>0, <2>1, <2>2, <2>3, <2>4 DEF Call, Ordering, Writes
<1> QED BY <1>1, <1>2, <1>3, <1>4 DEF Call

\* It is enough to look at the tables and at the call that moves.
LEMMA StepOf ==
  ASSUME OrdersAccounted, NEW c, Grows(c), Types', Tables', c \in Calls => Call(c)', CancelsArrive'
  PROVE  OrdersAccounted'
<1>1. \A d \in Calls : Call(d)'
  BY OthersGoOn DEF OrdersAccounted
<1> QED BY <1>1 DEF OrdersAccounted

\* Most statements write no row that another table refers to.
LEMMA QuietStep ==
  ASSUME OrdersAccounted, NEW c \in Calls, NEW l, NEW m, Keep(c, m, l),
         UNCHANGED <<job, intents, approvals, orders, sold, granted, claim>>,
         Types', Call(c)', (pc[c] # "stamp" /\ faults' = faults) \/ faults' # 0
  PROVE  OrdersAccounted'
<1>0. /\ \A d \in Calls \ {c} : pc'[d] = pc[d] /\ mem'[d] = mem[d]
      /\ Placed' = Placed
  BY DEF Keep, OrdersAccounted, Types, Placed
<1>1. Grows(c)
  BY <1>0 DEF Grows
<1>2. Tables'
  BY DEF OrdersAccounted, Tables, ApprovalsRest, ClaimsRest, OrdersRest, StatusRests, Consented, Granted,
         Consenting, Covers, Placed, On, Op
<1>3. CancelsArrive'
  BY <1>0 DEF OrdersAccounted, CancelsArrive, CancelledFor, Stamps
<1> QED BY <1>1, <1>2, <1>3, StepOf

-------------------------------------------------------------------------------
(* The paths a call writes, and its memory.                                      *)

LEMMA StatusNames ==
  Status = {"DRAFT", "DISCOVERING", "QUOTED", "POLICY_CHECK", "APPROVAL_REQUIRED", "APPROVED",
            "REAPPROVAL_REQUIRED", "EXECUTING", "AUTHENTICATION_REQUIRED",
            "MERCHANT_INTERVENTION_REQUIRED", "USER_INTERVENTION_REQUIRED", "POLICY_REJECTED",
            "SUCCEEDED", "FAILED", "CANCELLED", "EXPIRED", "PARTIALLY_COMPLETED"}
BY DEF Status, Transitions, Final

LEMMA PathFacts ==
  /\ \A s \in Status : <<s>> \in Paths /\ <<s>> \in Seq(Status)
  /\ <<"EXECUTING", "FAILED">> \in Paths /\ <<"EXECUTING", "FAILED">> \in Seq(Status)
  /\ \A p \in Paths : /\ p \in Seq(Status) /\ Head(p) \in Status /\ Tail(p) \in Seq(Status)
                      /\ \/ Len(p) = 1 /\ p = <<Head(p)>>
                         \/ Len(p) = 2 /\ Head(p) = "EXECUTING" /\ Tail(p) = <<"FAILED">>
  /\ \A s, t : <<s>> = <<t>> => s = t
  /\ \A s : <<s>> # <<"EXECUTING", "FAILED">>
<1>1. "EXECUTING" \in Status /\ "FAILED" \in Status
  BY StatusNames
<1>2. \A s \in Status : /\ <<s>> \in Paths /\ <<s>> \in Seq(Status)
                         /\ Len(<<s>>) = 1 /\ Head(<<s>>) = s /\ Tail(<<s>>) = <<>>
  BY DEF Paths
<1>3. LET p == <<"EXECUTING", "FAILED">>
      IN  p \in Paths /\ p \in Seq(Status) /\ Len(p) = 2 /\ Head(p) = "EXECUTING" /\ Tail(p) = <<"FAILED">>
  BY <1>1 DEF Paths
<1>4. <<>> \in Seq(Status) /\ <<"FAILED">> \in Seq(Status)
  BY <1>1
<1>5. \A p \in Paths : p = <<"EXECUTING", "FAILED">> \/ \E s \in Status : p = <<s>>
  BY DEF Paths
<1>6. (\A s, t : <<s>> = <<t>> => s = t) /\ (\A s : <<s>> # <<"EXECUTING", "FAILED">>)
  OBVIOUS
<1>7. ASSUME NEW p \in Paths
      PROVE  /\ p \in Seq(Status) /\ Head(p) \in Status /\ Tail(p) \in Seq(Status)
             /\ \/ Len(p) = 1 /\ p = <<Head(p)>>
                \/ Len(p) = 2 /\ Head(p) = "EXECUTING" /\ Tail(p) = <<"FAILED">>
  <2>1. CASE p = <<"EXECUTING", "FAILED">>
    BY <1>1, <1>3, <1>4, <2>1
  <2>2. CASE \E s \in Status : p = <<s>>
    BY <1>2, <1>4, <2>2
  <2> QED BY <1>5, <2>1, <2>2
<1> QED BY <1>2, <1>3, <1>6, <1>7

LEMMA LabelNames ==
  Label = {"idle", "write", "return", "done", "fanout", "selected", "evaluate", "create", "update", "reload",
           "load", "gate", "approval", "refresh", "policy", "claim", "checkout", "record", "answer",
           "merchant", "stamp"}
BY DEF Label, Ends, Visits, Operations

\* Each part of Tables stands while the tables it speaks of stay as they are.
LEMMA TablesStay ==
  ASSUME Tables, job' = job
  PROVE  /\ UNCHANGED <<approvals, granted, claim>> => ApprovalsRest'
         /\ UNCHANGED <<granted, claim>> => ClaimsRest'
         /\ UNCHANGED <<orders, sold>> => OrdersRest'
         /\ UNCHANGED <<intents, approvals, orders>> => StatusRests'
<1>1. ASSUME UNCHANGED <<approvals, granted, claim>> PROVE ApprovalsRest'
  BY <1>1 DEF Tables, ApprovalsRest, Consented, Granted, Consenting, On, Op
<1>2. ASSUME UNCHANGED <<granted, claim>> PROVE ClaimsRest'
  BY <1>2 DEF Tables, ClaimsRest, On
<1>3. ASSUME UNCHANGED <<orders, sold>> PROVE OrdersRest'
  BY <1>3 DEF Tables, OrdersRest, Covers, Placed, On, Op
<1>4. ASSUME UNCHANGED <<intents, approvals, orders>> PROVE StatusRests'
  BY <1>4 DEF Tables, StatusRests, On
<1> QED BY <1>1, <1>2, <1>3, <1>4

\* Remembering what to write and where to go on.
LEMMA MoveIsKeep ==
  ASSUME NEW c \in Calls, NEW m \in Memory, NEW path \in Seq(Status), NEW then \in Label,
         Move(c, m, path, then)
  PROVE  \E n \in Memory : /\ Keep(c, n, "write") /\ n.path = path /\ n.then = then
                           /\ n.row = m.row /\ n.at = m.at /\ n.a = m.a /\ n.offer = m.offer
                           /\ n.sale = m.sale
<1> DEFINE n == [m EXCEPT !.path = path, !.then = then]
<1>1. n \in Memory
  BY DEF Memory
<1>2. /\ n.path = path /\ n.then = then
      /\ n.row = m.row /\ n.at = m.at /\ n.a = m.a /\ n.offer = m.offer /\ n.sale = m.sale
  BY DEF Memory
<1>3. Keep(c, n, "write")
  BY DEF Move
<1> HIDE DEF n
<1> QED BY <1>1, <1>2, <1>3

LEMMA GotoIsKeep == ASSUME Types, NEW c \in Calls, NEW l, Goto(c, l) PROVE Keep(c, mem[c], l)
BY DEF Goto, Keep, Types

LEMMA KeepMoves ==
  ASSUME Types, NEW c \in Calls, NEW m, NEW l, Keep(c, m, l)
  PROVE  pc'[c] = l /\ mem'[c] = m /\ \A d \in Calls \ {c} : pc'[d] = pc[d] /\ mem'[d] = mem[d]
BY DEF Keep, Types

LEMMA FreshIsMemory == Fresh \in Memory
<1> Created \in PurchaseIntent
  BY StatusNames DEF Created, PurchaseIntent
<1> QED BY LabelNames DEF Fresh, Memory, Terms

LEMMA MemoryTypes ==
  ASSUME Types, NEW c \in Calls
  PROVE  /\ mem[c] \in Memory /\ Loaded(c) \in Memory
         /\ Loaded(c) = [mem[c] EXCEPT !.row = intents[On(c)]]
         /\ \A q \in Quote : [mem[c] EXCEPT !.row = [status |-> "QUOTED", quote |-> q]] \in Memory
         /\ \A at \in Nat \cup Calls : [mem[c] EXCEPT !.at = at] \in Memory
         /\ \A at \in Nat \cup Calls, a \in ApprovalRow : [mem[c] EXCEPT !.at = at, !.a = a] \in Memory
         /\ \A a \in ApprovalRow : [mem[c] EXCEPT !.a = a] \in Memory
         /\ \A o \in Offers : [mem[c] EXCEPT !.offer = o] \in Memory
         /\ \A s \in Order : [mem[c] EXCEPT !.sale = s] \in Memory
<1>1. mem[c] \in Memory /\ intents[On(c)] \in PurchaseIntent
  BY JobFacts DEF Types, TypeOK
<1>2. \A q \in Quote : [status |-> "QUOTED", quote |-> q] \in PurchaseIntent
  BY StatusNames DEF PurchaseIntent
<1> QED BY <1>1, <1>2 DEF Memory, Loaded, Terms

\* A statement that changes nothing but what its call remembers.
LEMMA OnlyStep ==
  ASSUME OrdersAccounted, NEW c \in Calls, NEW l \in Label, NEW m \in Memory, Keep(c, m, l), Only(c),
         Call(c)', pc[c] # "stamp"
  PROVE  OrdersAccounted'
<1>1. Types'
  BY DEF OrdersAccounted, Types, TypeOK, Rulesets, Keep, Only, rows, shop, history, bounds
<1> QED BY <1>1, QuietStep DEF Only, rows, shop, history, bounds

\* A call that is to write an intent.
LEMMA MoveCall ==
  ASSUME Types, job' = job, NEW c \in Calls, NEW m \in Memory, NEW path \in Paths,
         NEW then \in {"return", "fanout", "evaluate", "checkout"}, Move(c, m, path, then),
         then # "return" => then \in Visits[Op(c)]
                            /\ granted'[c] = NONE /\ sold'[c] = NONE /\ orders'[c] = NONE,
         then = "evaluate" => m.row.quote # NONE,
         then = "checkout" => claim'[c] # NONE,
         path = <<"APPROVED">> => approvals'[On(c)] # <<>>,
         path = <<"SUCCEEDED">> => orders'[c] # NONE,
         granted'[c] # NONE => Consenting(c),
         claim'[c] # NONE => Op(c) = "execute",
         sold'[c] # NONE => claim'[c] # NONE
  PROVE  Call(c)'
<1>1. PICK n \in Memory : Keep(c, n, "write") /\ n.path = path /\ n.then = then /\ n.row = m.row
  BY MoveIsKeep, PathFacts, LabelNames
<1>2. pc'[c] = "write" /\ mem'[c] = n /\ On(c)' = On(c) /\ Op(c)' = Op(c)
  BY <1>1, KeepMoves DEF On, Op
<1>3. Position(c)'
  BY <1>1, <1>2 DEF Position, Ends
<1>4. Consent(c)' /\ Execution(c)' /\ Ordering(c)'
  BY <1>1, <1>2 DEF Consent, Execution, Ordering, Writes, Consenting
<1> QED BY <1>3, <1>4 DEF Call

\* A call that is to answer, or has.
LEMMA EndCall ==
  ASSUME Types, job' = job, NEW c \in Calls, NEW m, NEW l \in {"return", "done"}, Keep(c, m, l),
         granted'[c] # NONE => Consenting(c),
         claim'[c] # NONE => Op(c) = "execute",
         sold'[c] # NONE => claim'[c] # NONE
  PROVE  Call(c)'
<1>2. pc'[c] = l /\ On(c)' = On(c) /\ Op(c)' = Op(c)
  BY KeepMoves DEF On, Op
<1>3. Position(c)'
  BY <1>2 DEF Position, Ends
<1>4. Consent(c)' /\ Execution(c)' /\ Ordering(c)'
  BY <1>2 DEF Consent, Execution, Ordering, Writes, Consenting
<1> QED BY <1>3, <1>4 DEF Call

\* What is known of a call by where it is.
LEMMA Standing ==
  ASSUME NEW c \in Calls, Call(c)
  PROVE  /\ pc[c] \in Ends \cup Visits[Op(c)]
         /\ granted[c] # NONE => Consenting(c)
         /\ claim[c] # NONE => Op(c) = "execute"
         /\ sold[c] # NONE => claim[c] # NONE
         /\ pc[c] \notin {"write", "reload", "return", "done"} => granted[c] = NONE
         /\ pc[c] \notin {"write", "record", "return", "done"} => sold[c] = NONE
         /\ pc[c] \notin {"write", "return", "done"} => orders[c] = NONE
         /\ pc[c] \notin {"write", "checkout", "record", "return", "done"} => claim[c] = NONE
BY DEF Call, Position, Consent, Execution, Ordering, Writes

\* Whose statement it is.
LEMMA WhoseStatement ==
  ASSUME Types, NEW c \in Calls, Call(c)
  PROVE  /\ pc[c] \in {"evaluate", "create"} => Op(c) = "request"
         /\ pc[c] = "fanout" => Op(c) = "discover"
         /\ pc[c] = "reload" => Op(c) \in {"approve", "reject", "reapprove"}
         /\ pc[c] = "update" => Op(c) \in {"approve", "reject", "reapprove", "execute"}
         /\ pc[c] \in {"load", "gate", "approval", "refresh", "policy", "claim", "checkout"}
               => Op(c) = "execute"
         /\ pc[c] = "answer" => Op(c) = "authenticate"
         /\ pc[c] = "record" => Op(c) \in {"authenticate", "execute"}
         /\ pc[c] \in {"merchant", "stamp"} => Op(c) = "cancel_order"
<1>1. Op(c) \in Operations /\ pc[c] \in Ends \cup Visits[Op(c)]
  BY JobFacts DEF Types, Call, Position
<1> QED BY <1>1 DEF Operations, Visits, Ends

LEMMA MoveStep ==
  ASSUME OrdersAccounted, NEW c \in Calls, NEW m \in Memory, NEW path \in Paths,
         NEW then \in {"return", "fanout", "evaluate"}, Move(c, m, path, then), Only(c), pc[c] # "stamp",
         then # "return" => then \in Visits[Op(c)] /\ pc[c] = "idle",
         then = "evaluate" => m.row.quote # NONE,
         path = <<"APPROVED">> => approvals[On(c)] # <<>>,
         path # <<"SUCCEEDED">>
  PROVE  OrdersAccounted'
<1>1. PICK n \in Memory : Keep(c, n, "write")
  BY MoveIsKeep, PathFacts, LabelNames
<1>2. Call(c)'
  <2>1. Types /\ UNCHANGED <<job, approvals, orders, sold, granted, claim>>
    BY DEF OrdersAccounted, Only, rows, shop, history
  <2>2. Call(c)
    BY DEF OrdersAccounted
  <2> QED BY <2>1, <2>2, Standing, MoveCall
<1> QED BY <1>1, <1>2, OnlyStep, LabelNames

LEMMA EndStep ==
  ASSUME OrdersAccounted, NEW c \in Calls, NEW l \in {"return", "done"}, Goto(c, l), Only(c), pc[c] # "stamp"
  PROVE  OrdersAccounted'
<1>1. Keep(c, mem[c], l) /\ mem[c] \in Memory
  BY GotoIsKeep, MemoryTypes DEF OrdersAccounted
<1>2. Call(c)'
  <2>1. Types /\ UNCHANGED <<job, approvals, orders, sold, granted, claim>>
    BY DEF OrdersAccounted, Only, rows, shop, history
  <2>2. Call(c)
    BY DEF OrdersAccounted
  <2> QED BY <1>1, <2>1, <2>2, Standing, EndCall
<1> QED BY <1>1, <1>2, OnlyStep, LabelNames

-------------------------------------------------------------------------------
(* The statements that write no row.                                             *)

\* A call that goes on to another statement of its operation, without a write.
LEMMA WorkStep ==
  ASSUME OrdersAccounted, NEW c \in Calls, NEW m \in Memory, NEW l \in Visits[Op(c)], Keep(c, m, l), Only(c),
         pc[c] # "stamp", (Consent(c) /\ Execution(c) /\ Ordering(c))'
  PROVE  OrdersAccounted'
<1>1. pc'[c] = l /\ Op(c)' = Op(c) /\ Op(c) \in Operations
  BY KeepMoves, JobFacts DEF OrdersAccounted, Types, Only, Op
<1>2. l \in Label /\ l # "write"
  BY <1>1 DEF Label, Visits, Operations
<1>3. Position(c)'
  BY <1>1, <1>2 DEF Position
<1> QED BY <1>2, <1>3, OnlyStep DEF Call

LEMMA DiscoverySteps ==
  ASSUME OrdersAccounted, NEW c \in Calls,
         Discover(c) \/ SelectQuote(c) \/ CancelIntent(c) \/ EvaluateAndTransition(c)
  PROVE  OrdersAccounted'
<1>0. Types /\ Loaded(c) \in Memory /\ On(c) \in Intents /\ Call(c)
  BY MemoryTypes, JobFacts DEF OrdersAccounted, Types
<1>1. CASE Discover(c)
  <2>1. "fanout" \in Visits[Op(c)] /\ Only(c) /\ pc[c] = "idle"
        /\ Move(c, Loaded(c), <<"DISCOVERING">>, "fanout")
    BY <1>1 DEF Discover, Opens, Visits
  <2> QED BY <1>0, <2>1, MoveStep, PathFacts, StatusNames
<1>2. CASE SelectQuote(c)
  <2>1. PICK q \in quotes[On(c)] : Keep(c, [mem[c] EXCEPT !.row = [status |-> "QUOTED", quote |-> q]], "selected")
    BY <1>2 DEF SelectQuote
  <2>2. q \in Quote
    BY <1>0 DEF Types
  <2>3. "selected" \in Visits[Op(c)] /\ Only(c) /\ pc[c] = "idle"
    BY <1>2 DEF SelectQuote, Opens, Visits
  <2> DEFINE m == [mem[c] EXCEPT !.row = [status |-> "QUOTED", quote |-> q]]
  <2>m. m.row.status = "QUOTED"
    BY <1>0, MemoryTypes DEF OrdersAccounted, Memory
  <2>4. pc'[c] = "selected" /\ mem'[c] = m
    BY <1>0, <2>1, KeepMoves
  <2>5. (Consent(c) /\ Execution(c) /\ Ordering(c))'
    BY <1>0, <2>3, <2>4, <2>m, Standing DEF Consent, Execution, Ordering, Writes, Only, rows, shop, history
  <2> QED BY <1>0, <2>1, <2>2, <2>3, <2>5, WorkStep, MemoryTypes
<1>3. CASE CancelIntent(c)
  <2>1. Only(c) /\ pc[c] = "idle" /\ Move(c, Loaded(c), <<"CANCELLED">>, "return")
    BY <1>3 DEF CancelIntent, Opens
  <2> QED BY <1>0, <2>1, MoveStep, PathFacts, StatusNames
<1>4. CASE EvaluateAndTransition(c)
  <2>1. /\ "evaluate" \in Visits[Op(c)] /\ Only(c) /\ pc[c] = "idle" /\ intents[On(c)].quote # NONE
        /\ Move(c, Loaded(c), <<"POLICY_CHECK">>, "evaluate")
    BY <1>4 DEF EvaluateAndTransition, Opens, Visits
  <2>2. Loaded(c).row = intents[On(c)]
    BY MemoryTypes DEF OrdersAccounted, Memory
  <2> QED BY <1>0, <2>1, <2>2, MoveStep, PathFacts, StatusNames
<1> QED BY <1>1, <1>2, <1>3, <1>4

LEMMA EvaluateStep == ASSUME OrdersAccounted, NEW c \in Calls, Evaluate(c) PROVE OrdersAccounted'
<1>0. Types /\ mem[c] \in Memory /\ On(c) \in Intents /\ Call(c)
  BY MemoryTypes, JobFacts DEF OrdersAccounted, Types
<1>1. Only(c) /\ pc[c] = "evaluate" /\ mem[c].row.quote \in Quote
  BY <1>0 DEF Evaluate, Call, Consent, Memory, PurchaseIntent
<1>2. CASE Move(c, mem[c], <<"POLICY_REJECTED">>, "return")
  BY <1>0, <1>1, <1>2, MoveStep, PathFacts, StatusNames
<1>3. ASSUME NEW s \in {"PENDING", "APPROVED"}, Keep(c, [mem[c] EXCEPT !.a = NewApproval(c, s)], "create")
      PROVE  OrdersAccounted'
  <2>1. NewApproval(c, s) \in ApprovalRow /\ NewApproval(c, s).by = c /\ NewApproval(c, s).status = s
    BY <1>1 DEF NewApproval, ApprovalRow, Quote
  <2>2. [mem[c] EXCEPT !.a = NewApproval(c, s)] \in Memory
        /\ [mem[c] EXCEPT !.a = NewApproval(c, s)].a = NewApproval(c, s)
    BY <1>0, <2>1 DEF Memory
  <2>3. pc'[c] = "create" /\ mem'[c].a = NewApproval(c, s)
    BY <1>0, <1>3, <2>2, KeepMoves
  <2>4. "create" \in Visits[Op(c)]
    BY <1>0, <1>1, WhoseStatement DEF Visits
  <2>5. (Consent(c) /\ Execution(c) /\ Ordering(c))'
    BY <1>0, <1>1, <2>1, <2>3, Standing DEF Consent, Execution, Ordering, Writes, Only, rows, shop, history
  <2> QED BY <1>1, <1>3, <2>2, <2>4, <2>5, WorkStep
<1> QED BY <1>2, <1>3 DEF Evaluate

\* Approve, Reject and Reapprove hold the row they are going to write.
LEMMA DecideSteps ==
  ASSUME OrdersAccounted, NEW c \in Calls, Approve(c) \/ Reject(c) \/ Reapprove(c)
  PROVE  OrdersAccounted'
<1>0. Types /\ mem[c] \in Memory /\ On(c) \in Intents /\ Call(c) /\ Only(c)
  BY MemoryTypes, JobFacts DEF OrdersAccounted, Types, Approve, Reject, Reapprove
<1>1. ASSUME NEW at \in DOMAIN approvals[On(c)]
      PROVE  at \in Nat /\ approvals[On(c)][at] \in ApprovalRow /\ Consented(approvals[On(c)][at], On(c))
  <2>1. approvals[On(c)] \in Seq(ApprovalRow)
    BY <1>0 DEF Types
  <2> QED BY <1>0, <1>1, <2>1 DEF OrdersAccounted, Tables, ApprovalsRest
<1>2. ASSUME NEW at \in DOMAIN approvals[On(c)], NEW a \in ApprovalRow,
             pc[c] = "idle", Keep(c, [mem[c] EXCEPT !.at = at, !.a = a], "update"),
             Op(c) \in {"approve", "reject", "reapprove"},
             Consented(a, On(c)),
             \/ a.status = "APPROVED" /\ a.by = c
             \/ a.status \in {"REJECTED", "REAPPROVAL_REQUIRED"} /\ a.by # c
      PROVE  OrdersAccounted'
  <2> DEFINE m == [mem[c] EXCEPT !.at = at, !.a = a]
  <2>1. m \in Memory /\ m.at = at /\ m.a = a
    BY <1>0, <1>1 DEF Memory
  <2>2. pc'[c] = "update" /\ mem'[c] = m /\ Keep(c, m, "update")
    BY <1>0, <1>2, KeepMoves
  <2> HIDE DEF m
  <2>3. "update" \in Visits[Op(c)]
    BY <1>2 DEF Visits
  <2>4. (Consent(c) /\ Execution(c) /\ Ordering(c))'
    BY <1>0, <1>2, <2>1, <2>2, Standing
    DEF Consent, Execution, Ordering, Writes, Only, rows, shop, history, Consented, Consenting, On, Op
  <2> QED BY <1>0, <1>2, <2>1, <2>2, <2>3, <2>4, WorkStep
<1>3. CASE Approve(c)
  <2>1. PICK at \in DOMAIN approvals[On(c)] :
          /\ pc[c] = "idle"
          /\ Keep(c, [mem[c] EXCEPT !.at = at,
                        !.a = [approvals[On(c)][at] EXCEPT !.status = "APPROVED", !.by = c]], "update")
    BY <1>3 DEF Approve, Decides
  <2>2. LET a == [approvals[On(c)][at] EXCEPT !.status = "APPROVED", !.by = c]
        IN  a \in ApprovalRow /\ a.status = "APPROVED" /\ a.by = c
    BY <1>1 DEF ApprovalRow
  <2>3. Op(c) = "approve"
    BY <1>3 DEF Approve
  <2> QED BY <1>2, <2>1, <2>2, <2>3 DEF Consented, Consenting
<1>4. CASE Reject(c)
  <2>1. PICK at \in DOMAIN approvals[On(c)] :
          /\ pc[c] = "idle"
          /\ Keep(c, [mem[c] EXCEPT !.at = at,
                        !.a = [approvals[On(c)][at] EXCEPT !.status = "REJECTED"]], "update")
    BY <1>4 DEF Reject, Decides
  <2>2. LET a == [approvals[On(c)][at] EXCEPT !.status = "REJECTED"]
        IN  a \in ApprovalRow /\ a.status = "REJECTED" /\ a.by = approvals[On(c)][at].by
    BY <1>1 DEF ApprovalRow
  <2>3. Op(c) = "reject" /\ Consented(approvals[On(c)][at], On(c))
    BY <1>1, <1>4 DEF Reject
  <2> QED BY <1>2, <2>1, <2>2, <2>3 DEF Consented, Consenting
<1>5. CASE Reapprove(c)
  <2>1. PICK at \in DOMAIN approvals[On(c)] :
          /\ pc[c] = "idle"
          /\ Keep(c, [mem[c] EXCEPT !.at = at,
                        !.a = [approvals[On(c)][at] EXCEPT !.status = "APPROVED",
                                 !.terms = offer[On(c)], !.by = c]], "update")
    BY <1>5 DEF Reapprove, Decides
  <2>2. LET a == [approvals[On(c)][at] EXCEPT !.status = "APPROVED", !.terms = offer[On(c)], !.by = c]
        IN  a \in ApprovalRow /\ a.status = "APPROVED" /\ a.by = c
    BY <1>0, <1>1 DEF ApprovalRow, Types, TypeOK
  <2>3. Op(c) = "reapprove"
    BY <1>5 DEF Reapprove
  <2> QED BY <1>2, <2>1, <2>2, <2>3 DEF Consented, Consenting
<1> QED BY <1>3, <1>4, <1>5

LEMMA ReloadStep == ASSUME OrdersAccounted, NEW c \in Calls, Reload(c) PROVE OrdersAccounted'
<1>1. Loaded(c) \in Memory /\ pc[c] = "reload" /\ approvals[On(c)] # <<>> /\ Only(c)
  BY MemoryTypes DEF OrdersAccounted, Reload, Call, Consent
<1>2. \E s \in {"CANCELLED", "APPROVED"} : Move(c, Loaded(c), <<s>>, "return")
  BY DEF Reload
<1> QED BY <1>1, <1>2, MoveStep, PathFacts, StatusNames

\* Execute up to its claim: the row it reads is one the user consented to, and the terms
\* it goes on with match that row's.
LEMMA BeforeClaimSteps ==
  ASSUME OrdersAccounted, NEW c \in Calls,
         LoadApproved(c) \/ ReadApproval(c) \/ Refresh(c) \/ CheckPayment(c)
  PROVE  OrdersAccounted'
<1>0. Types /\ mem[c] \in Memory /\ On(c) \in Intents /\ Call(c) /\ Only(c) /\ Tables
  BY MemoryTypes, JobFacts DEF OrdersAccounted, Types, LoadApproved, ReadApproval, Refresh, CheckPayment
<1>1. Op(c) = "execute"
  BY <1>0, WhoseStatement DEF LoadApproved, ReadApproval, Refresh, CheckPayment
<1>2. /\ pc[c] \in {"load", "approval", "refresh", "policy"}
      /\ granted[c] = NONE /\ claim[c] = NONE /\ sold[c] = NONE /\ orders[c] = NONE
  BY <1>0, Standing DEF LoadApproved, ReadApproval, Refresh, CheckPayment
<1>3. UNCHANGED <<job, approvals, granted, claim, sold, orders>> /\ On(c)' = On(c) /\ Op(c)' = Op(c)
  BY <1>0 DEF Only, rows, shop, history, On, Op
<1>4. \A a : Granted(a, On(c))' <=> Granted(a, On(c))
  BY <1>3 DEF Granted, Consented, Consenting, On, Op
<1>5. ASSUME Goto(c, "return") PROVE OrdersAccounted'
  BY <1>0, <1>2, <1>5, EndStep
<1>6. ASSUME NEW m \in Memory, m.at = mem[c].at, m.a = [mem[c].a EXCEPT !.status = "REAPPROVAL_REQUIRED"],
             Keep(c, m, "update"), pc[c] \in {"refresh", "policy"}
      PROVE  OrdersAccounted'
  <2>1. mem[c].at \in DOMAIN approvals[On(c)] /\ mem[c].a \in ApprovalRow /\ Granted(mem[c].a, On(c))
    BY <1>0, <1>6 DEF Call, Execution
  <2>2. m.a \in ApprovalRow /\ m.a.status = "REAPPROVAL_REQUIRED" /\ m.a.by = mem[c].a.by
    BY <1>6, <2>1 DEF ApprovalRow
  <2>3. Consented(m.a, On(c)) /\ m.a.by # c
    BY <1>1, <2>1, <2>2 DEF Granted, Consented, Consenting
  <2>4. pc'[c] = "update" /\ mem'[c] = m /\ "update" \in Visits[Op(c)]
    BY <1>0, <1>1, <1>6, KeepMoves DEF Visits
  <2>5. (Consent(c) /\ Execution(c) /\ Ordering(c))'
    BY <1>2, <1>3, <1>6, <2>1, <2>2, <2>3, <2>4
    DEF Consent, Execution, Ordering, Writes, Consented, Consenting, On, Op
  <2> QED BY <1>0, <1>2, <1>6, <2>4, <2>5, WorkStep
<1>7. CASE LoadApproved(c)
  <2>1. CASE intents[On(c)].status = "APPROVED"
    <3>1. Keep(c, Loaded(c), "gate") /\ Loaded(c) \in Memory /\ approvals[On(c)] # <<>>
      BY <1>0, <1>7, <2>1, MemoryTypes DEF LoadApproved, Tables, StatusRests
    <3>2. pc'[c] = "gate" /\ "gate" \in Visits[Op(c)]
      BY <1>0, <1>1, <3>1, KeepMoves DEF Visits
    <3>3. (Consent(c) /\ Execution(c) /\ Ordering(c))'
      BY <1>2, <1>3, <3>1, <3>2 DEF Consent, Execution, Ordering, Writes
    <3> QED BY <1>0, <1>2, <3>1, <3>2, <3>3, WorkStep
  <2>2. CASE intents[On(c)].status # "APPROVED"
    BY <1>5, <1>7, <2>2 DEF LoadApproved
  <2> QED BY <2>1, <2>2
<1>8. CASE ReadApproval(c)
  <2> DEFINE at == Len(approvals[On(c)])
             a == approvals[On(c)][at]
             m == [mem[c] EXCEPT !.at = at, !.a = a]
  <2>1. CASE Executable(a)
    <3>1. approvals[On(c)] # <<>> /\ approvals[On(c)] \in Seq(ApprovalRow)
      BY <1>0, <1>8 DEF ReadApproval, Call, Execution, Types
    <3>2. at \in DOMAIN approvals[On(c)] /\ at \in Nat /\ a \in ApprovalRow
      BY <3>1
    <3>3. Granted(a, On(c))
      BY <1>0, <2>1, <3>2 DEF Tables, ApprovalsRest, Executable
    <3>4. m \in Memory /\ m.at = at /\ m.a = a /\ Keep(c, m, "refresh")
      BY <1>0, <1>8, <2>1, <3>2 DEF Memory, ReadApproval
    <3>5. pc'[c] = "refresh" /\ mem'[c] = m /\ "refresh" \in Visits[Op(c)]
      BY <1>0, <1>1, <3>4, KeepMoves DEF Visits
    <3> HIDE DEF m, a, at
    <3>6. (Consent(c) /\ Execution(c) /\ Ordering(c))'
      BY <1>2, <1>3, <1>4, <3>2, <3>3, <3>4, <3>5 DEF Consent, Execution, Ordering, Writes
    <3> QED BY <1>0, <1>2, <3>4, <3>5, <3>6, WorkStep
  <2>2. CASE ~Executable(a)
    BY <1>5, <1>8, <2>2 DEF ReadApproval
  <2> QED BY <2>1, <2>2
<1>9. CASE Refresh(c)
  <2> DEFINE m == [mem[c] EXCEPT !.offer = offer[On(c)]]
  <2>1. /\ mem[c].at \in DOMAIN approvals[On(c)] /\ mem[c].a \in ApprovalRow /\ Granted(mem[c].a, On(c))
        /\ pc[c] = "refresh"
    BY <1>0, <1>9 DEF Call, Execution, Refresh
  <2>2. m \in Memory /\ m.at = mem[c].at /\ m.a = mem[c].a /\ m.offer = offer[On(c)]
        /\ offer[On(c)] \in Offers
    BY <1>0 DEF Memory, Types, TypeOK, Terms
  <2>3. \/ Goto(c, "return")
        \/ Stale(c, m)
        \/ Matches(mem[c].a, offer[On(c)]) /\ Keep(c, m, "policy")
    BY <1>9, <2>2 DEF Refresh, Holds
  <2>4. CASE Stale(c, m)
    <3>1. LET n == [m EXCEPT !.a.status = "REAPPROVAL_REQUIRED"]
          IN  n \in Memory /\ n.at = mem[c].at /\ n.a = [mem[c].a EXCEPT !.status = "REAPPROVAL_REQUIRED"]
      BY <2>1, <2>2 DEF Memory, ApprovalRow
    <3> QED BY <1>6, <2>1, <2>4, <3>1 DEF Stale
  <2>5. CASE Matches(mem[c].a, offer[On(c)]) /\ Keep(c, m, "policy")
    <3>1. pc'[c] = "policy" /\ mem'[c] = m /\ "policy" \in Visits[Op(c)]
      BY <1>0, <1>1, <2>5, KeepMoves DEF Visits
    <3> HIDE DEF m
    <3>2. (Consent(c) /\ Execution(c) /\ Ordering(c))'
      BY <1>2, <1>3, <1>4, <2>1, <2>2, <2>5, <3>1 DEF Consent, Execution, Ordering, Writes, Matches
    <3> QED BY <1>0, <1>2, <2>2, <2>5, <3>1, <3>2, WorkStep
  <2> QED BY <1>5, <2>3, <2>4, <2>5
<1>10. CASE CheckPayment(c)
  <2>1. /\ mem[c].at \in DOMAIN approvals[On(c)] /\ mem[c].a \in ApprovalRow /\ Granted(mem[c].a, On(c))
        /\ mem[c].offer \in Offers /\ Matches(mem[c].a, mem[c].offer) /\ pc[c] = "policy"
    BY <1>0, <1>10 DEF Call, Execution, CheckPayment
  <2>2. \/ Move(c, mem[c], <<"EXECUTING", "FAILED">>, "return")
        \/ Stale(c, mem[c])
        \/ Goto(c, "claim")
    BY <1>10 DEF CheckPayment
  <2>3. CASE Move(c, mem[c], <<"EXECUTING", "FAILED">>, "return")
    BY <1>0, <1>2, <2>3, MoveStep, PathFacts
  <2>4. CASE Stale(c, mem[c])
    <3>1. LET n == [mem[c] EXCEPT !.a.status = "REAPPROVAL_REQUIRED"]
          IN  n \in Memory /\ n.at = mem[c].at /\ n.a = [mem[c].a EXCEPT !.status = "REAPPROVAL_REQUIRED"]
      BY <1>0, <2>1 DEF Memory, ApprovalRow
    <3> QED BY <1>6, <2>1, <2>4, <3>1 DEF Stale
  <2>5. CASE Goto(c, "claim")
    <3>1. Keep(c, mem[c], "claim")
      BY <1>0, <2>5, GotoIsKeep
    <3>2. pc'[c] = "claim" /\ mem'[c] = mem[c] /\ "claim" \in Visits[Op(c)]
      BY <1>0, <1>1, <3>1, KeepMoves DEF Visits
    <3>3. (Consent(c) /\ Execution(c) /\ Ordering(c))'
      BY <1>2, <1>3, <1>4, <2>1, <3>2 DEF Consent, Execution, Ordering, Writes, Matches
    <3> QED BY <1>0, <1>2, <3>1, <3>2, <3>3, WorkStep
  <2> QED BY <2>2, <2>3, <2>4, <2>5
<1> QED BY <1>7, <1>8, <1>9, <1>10

\* The checkout that sells nothing, and the steps before a completed order's row or a
\* cancellation: the sale named is one the merchant has.
LEMMA MerchantSteps ==
  ASSUME OrdersAccounted, NEW c \in Calls,
         CheckoutFails(c) \/ CompleteAuthentication(c) \/ Answer(c) \/ CancelOrder(c) \/ MerchantRefuses(c)
  PROVE  OrdersAccounted'
<1>0. Types /\ mem[c] \in Memory /\ On(c) \in Intents /\ Call(c) /\ Only(c) /\ Tables
  BY MemoryTypes, JobFacts
  DEF OrdersAccounted, Types, CheckoutFails, CompleteAuthentication, Answer, CancelOrder, MerchantRefuses
<1>1. UNCHANGED <<job, approvals, granted, claim, sold, orders>> /\ On(c)' = On(c) /\ Op(c)' = Op(c)
      /\ Placed' = Placed
  BY <1>0 DEF Only, rows, shop, history, On, Op, Placed
<1>2. ASSUME NEW o \in Order PROVE Covers(o, c)' <=> Covers(o, c)
  BY <1>1 DEF Covers, On, Op
<1>3. CASE CheckoutFails(c)
  <2>1. PICK told \in {"FAILED", "USER_INTERVENTION_REQUIRED", "MERCHANT_INTERVENTION_REQUIRED"} :
          Move(c, mem[c], <<told>>, "return") /\ pc[c] = "checkout"
    BY <1>3 DEF CheckoutFails
  <2> QED BY <1>0, <2>1, MoveStep, PathFacts, StatusNames
<1>4. CASE CompleteAuthentication(c)
  <2>1. Keep(c, Loaded(c), "answer") /\ pc[c] = "idle" /\ "answer" \in Visits[Op(c)]
    BY <1>4 DEF CompleteAuthentication, Opens, Visits
  <2>2. pc'[c] = "answer"
    BY <1>0, <2>1, KeepMoves
  <2>3. (Consent(c) /\ Execution(c) /\ Ordering(c))'
    BY <1>0, <1>1, <2>1, <2>2, Standing DEF Consent, Execution, Ordering, Writes
  <2>4. Loaded(c) \in Memory
    BY <1>0, MemoryTypes
  <2> QED BY <1>0, <2>1, <2>3, <2>4, WorkStep
<1>5. CASE Answer(c)
  <2>1. CASE Move(c, mem[c], <<"FAILED">>, "return")
    BY <1>0, <1>5, <2>1, MoveStep, PathFacts, StatusNames DEF Answer
  <2>2. ASSUME NEW e \in Calls, MerchantConfirms(e),
               Keep(c, [mem[c] EXCEPT !.sale = [of |-> e, status |-> sold[e].state]], "record")
        PROVE  OrdersAccounted'
    <3> DEFINE s == [of |-> e, status |-> sold[e].state]
               m == [mem[c] EXCEPT !.sale = s]
    <3>1. s \in Order
      BY <1>0, <2>2 DEF MerchantConfirms, Placed, Types, Sale, Order
    <3>2. m \in Memory /\ m.sale = s
      BY <1>0, <3>1 DEF Memory
    <3>3. pc[c] = "answer" /\ pc'[c] = "record" /\ mem'[c] = m /\ Keep(c, m, "record")
      BY <1>0, <1>5, <2>2, KeepMoves DEF Answer
    <3>4. Op(c) = "authenticate" /\ "record" \in Visits[Op(c)]
      BY <1>0, <3>3, WhoseStatement DEF Visits
    <3>5. Covers(s, c)
      BY <2>2, <3>4 DEF MerchantConfirms, Covers
    <3> HIDE DEF m, s
    <3>6. (Consent(c) /\ Execution(c) /\ Ordering(c))'
      BY <1>0, <1>1, <1>2, <3>1, <3>2, <3>3, <3>5, Standing DEF Consent, Execution, Ordering, Writes
    <3> QED BY <1>0, <3>2, <3>3, <3>4, <3>6, WorkStep
  <2> QED BY <1>5, <2>1, <2>2 DEF Answer
<1>6. CASE CancelOrder(c)
  <2>1. PICK r \in Live : Keep(c, [mem[c] EXCEPT !.at = r], "merchant")
    BY <1>6 DEF CancelOrder
  <2> DEFINE m == [mem[c] EXCEPT !.at = r]
  <2>2. r \in Calls /\ orders[r] # NONE
    BY DEF Live
  <2>3. m \in Memory /\ m.at = r
    BY <1>0, <2>2 DEF Memory
  <2>4. pc[c] = "idle" /\ pc'[c] = "merchant" /\ mem'[c] = m /\ Keep(c, m, "merchant")
        /\ "merchant" \in Visits[Op(c)]
    BY <1>0, <1>6, <2>1, KeepMoves DEF CancelOrder, Visits
  <2> HIDE DEF m
  <2>5. (Consent(c) /\ Execution(c) /\ Ordering(c))'
    BY <1>0, <1>1, <2>2, <2>3, <2>4, Standing DEF Consent, Execution, Ordering, Writes
  <2> QED BY <1>0, <2>3, <2>4, <2>5, WorkStep
<1>7. CASE MerchantRefuses(c)
  BY <1>0, <1>7, EndStep DEF MerchantRefuses
<1> QED BY <1>3, <1>4, <1>5, <1>6, <1>7

\* The statements that write what no other table refers to: the quotes, the user's rules,
\* the lock, the history of the gate; and a call that is cut short.
LEMMA AsideSteps ==
  ASSUME OrdersAccounted, NEW c \in Calls,
         FanOut(c) \/ SetGuardrails(c) \/ Lock(c) \/ Gate(c) \/ Return(c) \/ Fails(c)
  PROVE  OrdersAccounted'
<1>0. Types /\ mem[c] \in Memory /\ On(c) \in Intents /\ Op(c) \in Operations /\ Call(c)
  BY MemoryTypes, JobFacts DEF OrdersAccounted, Types
<1> USE DEF rows, shop, history, bounds
<1>1. CASE FanOut(c)
  <2>1. PICK found \in SUBSET Quotable(Connectors, Wants[On(c)]) :
          /\ quotes' = [quotes EXCEPT ![On(c)] = @ \cup [merchant : found, terms : {offer[On(c)]}]]
          /\ cart' = [cart EXCEPT ![On(c)] = @ \/ found # {}]
          /\ Move(c, mem[c], <<IF found = {} THEN "FAILED" ELSE "QUOTED">>, "return")
    BY <1>1 DEF FanOut
  <2>2. PICK path \in {<<"FAILED">>, <<"QUOTED">>} : Move(c, mem[c], path, "return")
    BY <2>1
  <2>3. path \in Paths /\ path \in Seq(Status) /\ path # <<"APPROVED">> /\ path # <<"SUCCEEDED">>
    BY PathFacts, StatusNames
  <2>4. PICK n \in Memory : Keep(c, n, "write")
    <3>1. mem[c] \in Memory /\ path \in Seq(Status) /\ "return" \in Label
      BY <1>0, <2>3, LabelNames
    <3> QED BY <2>2, <3>1, MoveIsKeep
  <2>5. /\ pc[c] = "fanout"
        /\ UNCHANGED <<job, intents, approvals, orders, rules, lock, offer, sold, history, bounds>>
    BY <1>1 DEF FanOut
  <2>6. Call(c)'
    BY <1>0, <2>2, <2>3, <2>5, MoveCall, Standing
  <2>7. [merchant : found, terms : {offer[On(c)]}] \subseteq Quote
    BY <1>0 DEF Quotable, Candidates, Quote, Types, TypeOK
  <2>8. quotes' \in [Intents -> SUBSET Quote] /\ cart' \in [Intents -> BOOLEAN]
    BY <1>0, <2>1, <2>7 DEF Types, TypeOK
  <2>9. Types'
    BY <1>0, <2>4, <2>5, <2>8, LabelNames DEF Types, TypeOK, Rulesets, Keep
  <2> QED BY <2>4, <2>5, <2>6, <2>9, QuietStep
<1>2. CASE SetGuardrails(c)
  <2>1. Keep(c, mem[c], "return") /\ pc[c] = "idle" /\ rules' \in Rulesets
        /\ UNCHANGED <<job, rows, lock, shop, history, bounds>>
    BY <1>0, <1>2, GotoIsKeep DEF SetGuardrails, Rulesets
  <2>2. Types'
    BY <1>0, <2>1, LabelNames DEF Types, TypeOK, Rulesets, Keep
  <2>3. Call(c)'
    BY <1>0, <2>1, EndCall, Standing
  <2> QED BY <2>1, <2>2, <2>3, QuietStep
<1>3. CASE Lock(c)
  <2>1. Keep(c, mem[c], "load") /\ pc[c] = "idle" /\ Op(c) = "execute" /\ lock' = [lock EXCEPT ![On(c)] = c]
        /\ UNCHANGED <<job, rows, rules, shop, history, bounds>>
    BY <1>0, <1>3, GotoIsKeep DEF Lock
  <2>2. Types'
    BY <1>0, <2>1, LabelNames DEF Types, TypeOK, Rulesets, Keep
  <2>3. pc'[c] = "load" /\ Op(c)' = "execute"
    BY <1>0, <2>1, KeepMoves DEF Op
  <2>4. Position(c)'
    BY <2>3 DEF Position, Visits
  <2>5. (Consent(c) /\ Execution(c) /\ Ordering(c))'
    BY <1>0, <2>1, <2>3, Standing DEF Consent, Execution, Ordering, Writes
  <2> QED BY <2>1, <2>2, <2>4, <2>5, QuietStep DEF Call
<1>4. CASE Gate(c)
  <2>1. PICK l \in {"approval", "return"} : Keep(c, mem[c], l)
    BY <1>0, <1>4, GotoIsKeep DEF Gate
  <2>2. pc[c] = "gate" /\ UNCHANGED <<job, rows, rules, lock, shop, granted, claim, bounds>>
    BY <1>4 DEF Gate
  <2>3. Types'
    BY <1>0, <2>1, <2>2, LabelNames DEF Types, TypeOK, Rulesets, Keep
  <2>4. Call(c)'
    <3>1. CASE l = "return"
      BY <1>0, <2>1, <2>2, <3>1, EndCall, Standing
    <3>2. CASE l = "approval"
      <4>1. Op(c) = "execute" /\ approvals[On(c)] # <<>>
        BY <1>0, <2>2, WhoseStatement DEF Call, Execution
      <4>2. pc'[c] = "approval" /\ Op(c)' = Op(c) /\ On(c)' = On(c)
        BY <1>0, <2>1, <2>2, <3>2, KeepMoves DEF Op, On
      <4>3. Position(c)'
        BY <4>1, <4>2 DEF Position, Visits
      <4>4. (Consent(c) /\ Execution(c) /\ Ordering(c))'
        BY <1>0, <2>2, <4>1, <4>2, Standing DEF Consent, Execution, Ordering, Writes
      <4> QED BY <4>3, <4>4 DEF Call
    <3> QED BY <3>1, <3>2
  <2> QED BY <2>1, <2>2, <2>3, <2>4, QuietStep
<1>5. CASE Return(c)
  <2>1. Keep(c, Fresh, "done") /\ pc[c] = "return" /\ UNCHANGED <<job, rows, rules, shop, history, bounds>>
        /\ lock' = [i \in Intents |-> IF lock[i] = c THEN NONE ELSE lock[i]]
    BY <1>5 DEF Return
  <2>2. Types'
    BY <1>0, <2>1, LabelNames, FreshIsMemory DEF Types, TypeOK, Rulesets, Keep
  <2>3. Call(c)'
    BY <1>0, <2>1, EndCall, Standing
  <2> QED BY <2>1, <2>2, <2>3, QuietStep
<1>6. CASE Fails(c)
  <2>1. PICK l \in {"return", "done"} : Keep(c, Fresh, l)
    BY <1>6 DEF Fails
  <2>2. faults' = faults + 1 /\ UNCHANGED <<job, rows, rules, lock, shop, history>>
    BY <1>6 DEF Fails
  <2>3. Types' /\ faults' # 0
    BY <1>0, <2>1, <2>2, LabelNames, FreshIsMemory DEF Types, TypeOK, Rulesets, Keep
  <2>4. Call(c)'
    BY <1>0, <2>1, <2>2, EndCall, Standing
  <2> QED BY <2>1, <2>2, <2>3, <2>4, QuietStep
<1> QED BY <1>1, <1>2, <1>3, <1>4, <1>5, <1>6

-------------------------------------------------------------------------------
(* The statements that write rows.                                               *)

\* An intent's row says SUCCEEDED or APPROVED only when the order or the approval is there.
LEMMA WriteStep == ASSUME OrdersAccounted, NEW c \in Calls, Write(c) PROVE OrdersAccounted'
<1>0. Types /\ mem[c] \in Memory /\ On(c) \in Intents /\ Call(c) /\ Tables
  BY MemoryTypes, JobFacts DEF OrdersAccounted, Types
<1> DEFINE m == mem[c]
           to == Head(m.path)
           row == [m.row EXCEPT !.status = to]
           n == [m EXCEPT !.row = row, !.path = Tail(m.path)]
           l == IF Len(m.path) = 1 THEN m.then ELSE "write"
<1>1. CASE ~CanMove(m.row.status, to)
  <2>1. Goto(c, "return") /\ UNCHANGED intents
    BY <1>1 DEF Write
  <2> QED BY <2>1, EndStep DEF Write, Only, rows
<1>2. CASE CanMove(m.row.status, to)
  <2>1. /\ intents' = [intents EXCEPT ![On(c)] = row] /\ Keep(c, n, l) /\ pc[c] = "write"
        /\ UNCHANGED <<job, quotes, approvals, orders, rules, lock, offer, cart, sold, granted, claim,
              seen, drifts, faults>>
    BY <1>2 DEF Write, shop, history, bounds
  <2>2. m.path \in Paths
    BY <1>0, <2>1 DEF Call, Position
  <2>3. /\ to \in Status /\ Tail(m.path) \in Seq(Status)
        /\ \/ Len(m.path) = 1 /\ m.path = <<to>> /\ l = m.then
           \/ Len(m.path) = 2 /\ to = "EXECUTING" /\ Tail(m.path) = <<"FAILED">> /\ l = "write"
    BY <2>2, PathFacts
  <2>4. row \in PurchaseIntent /\ row.status = to /\ row.quote = m.row.quote
    BY <1>0, <2>3 DEF Memory, PurchaseIntent
  <2>5. n \in Memory /\ n.row = row /\ n.path = Tail(m.path) /\ n.then = m.then
    BY <1>0, <2>3, <2>4 DEF Memory
  <2>6. l \in Label
    BY <1>0, <2>3, LabelNames DEF Memory
  <2>7. pc'[c] = l /\ mem'[c] = n /\ On(c)' = On(c) /\ Op(c)' = Op(c)
    BY <1>0, <2>1, KeepMoves DEF On, Op
  <2>8. intents' \in [Intents -> PurchaseIntent]
    BY <1>0, <2>1, <2>4 DEF Types, TypeOK
  <2>9. Types'
    BY <1>0, <2>1, <2>5, <2>6, <2>8 DEF Types, TypeOK, Rulesets, Keep
  <2>10. /\ to = "APPROVED" => approvals[On(c)] # <<>>
         /\ to = "SUCCEEDED" => orders[c] # NONE
    BY <1>0, <2>1, <2>3 DEF Call, Position
  <2>11. /\ \A i \in Intents \ {On(c)} : intents'[i] = intents[i]
         /\ intents'[On(c)].status = to
    BY <1>0, <2>1, <2>4 DEF Types, TypeOK
  <2>12. StatusRests'
    <3> SUFFICES ASSUME NEW i \in Intents
                 PROVE  /\ intents'[i].status = "APPROVED" => approvals[i] # <<>>
                        /\ intents'[i].status = "SUCCEEDED" => \E r \in Calls : orders[r] # NONE /\ On(r) = i
      BY <2>1 DEF StatusRests, On
    <3>1. CASE i = On(c)
      BY <2>10, <2>11, <3>1
    <3>2. CASE i # On(c)
      BY <1>0, <2>11, <3>2 DEF Tables, StatusRests
    <3> QED BY <3>1, <3>2
  <2>13. Tables'
    BY <1>0, <2>1, <2>12, TablesStay DEF Tables
  <2>14. Grows(c)
    BY <1>0, <2>1, KeepMoves DEF Grows, Placed
  <2>15. CancelsArrive'
    <3>1. \A d \in Calls \ {c} : pc'[d] = pc[d] /\ mem'[d] = mem[d]
      BY <1>0, <2>1, KeepMoves
    <3> QED BY <2>1, <3>1 DEF OrdersAccounted, CancelsArrive, CancelledFor, Stamps, Placed
  <2>16. Call(c)'
    <3>1. /\ m.then \in {"return"} \cup {k \in {"fanout", "evaluate", "checkout"} : k \in Visits[Op(c)]}
          /\ m.then = "evaluate" => m.row.quote # NONE
          /\ m.then = "checkout" => claim[c] # NONE
          /\ granted[c] # NONE => Consenting(c) /\ m.then = "return"
          /\ sold[c] # NONE => claim[c] # NONE /\ m.then = "return"
          /\ orders[c] # NONE => m.then = "return"
          /\ claim[c] # NONE => Op(c) = "execute"
      BY <1>0, <2>1 DEF Call, Position, Consent, Execution, Ordering, Writes
    <3>e. claim[c] # NONE => m.then \in {"return", "checkout"}
      BY <3>1 DEF Visits
    <3> HIDE DEF l, n
    <3>2. CASE l = "write" /\ n.path = <<"FAILED">>
      <4>1. <<"FAILED">> \in Paths /\ <<"FAILED">> # <<"APPROVED">> /\ <<"FAILED">> # <<"SUCCEEDED">>
        BY PathFacts, StatusNames
      <4>2. Position(c)'
        BY <2>4, <2>5, <2>7, <3>1, <3>2, <4>1 DEF Position, Ends
      <4>3. (Consent(c) /\ Execution(c) /\ Ordering(c))'
        BY <2>1, <2>5, <2>7, <3>1, <3>2 DEF Consent, Execution, Ordering, Writes, Consenting
      <4> QED BY <4>2, <4>3 DEF Call
    <3>3. CASE l = m.then
      <4>1. l \in {"return", "fanout", "evaluate", "checkout"} /\ l \in Ends \cup Visits[Op(c)]
        BY <3>1, <3>3 DEF Ends
      <4>2. Position(c)'
        BY <2>7, <4>1 DEF Position
      <4>3. /\ granted'[c] = granted[c] /\ sold'[c] = sold[c] /\ orders'[c] = orders[c]
            /\ claim'[c] = claim[c]
            /\ pc'[c] = l /\ mem'[c].row.quote = m.row.quote
        BY <2>1, <2>4, <2>5, <2>7
      <4>4. Consent(c)'
        BY <2>7, <3>1, <3>3, <4>1, <4>3 DEF Consent, Writes, Consenting
      <4>5. Execution(c)'
        BY <2>7, <3>1, <3>e, <3>3, <4>1, <4>3 DEF Execution, Writes
      <4>6. Ordering(c)'
        BY <2>7, <3>1, <3>3, <4>1, <4>3 DEF Ordering, Writes
      <4> QED BY <4>2, <4>4, <4>5, <4>6 DEF Call
    <3> QED BY <2>3, <2>5, <3>2, <3>3
  <2> QED BY <2>9, <2>13, <2>14, <2>15, <2>16, StepOf
<1> QED BY <1>1, <1>2

\* The selection is saved with the status it was read with, QUOTED.
LEMMA SaveSelectionStep == ASSUME OrdersAccounted, NEW c \in Calls, SaveSelection(c) PROVE OrdersAccounted'
<1>0. Types /\ mem[c] \in Memory /\ On(c) \in Intents /\ Call(c) /\ Tables
  BY MemoryTypes, JobFacts DEF OrdersAccounted, Types
<1>1. /\ pc[c] = "selected" /\ Keep(c, mem[c], "return") /\ intents' = [intents EXCEPT ![On(c)] = mem[c].row]
      /\ UNCHANGED <<job, quotes, approvals, orders, rules, lock, offer, cart, sold, granted, claim,
            seen, drifts, faults>>
  BY <1>0, GotoIsKeep DEF SaveSelection, shop, history, bounds
<1>2. mem[c].row \in PurchaseIntent /\ mem[c].row.status = "QUOTED"
  BY <1>0, <1>1 DEF Memory, Call, Consent
<1>3. intents' \in [Intents -> PurchaseIntent]
  BY <1>0, <1>1, <1>2 DEF Types, TypeOK
<1>4. Types'
  BY <1>0, <1>1, <1>3, LabelNames DEF Types, TypeOK, Rulesets, Keep
<1>5. \A i \in Intents : intents'[i] = intents[i] \/ intents'[i].status = "QUOTED"
  BY <1>0, <1>1, <1>2 DEF Types, TypeOK
<1>6. Tables'
  <2>1. StatusRests'
    BY <1>0, <1>1, <1>5 DEF Tables, StatusRests, On
  <2> QED BY <1>0, <1>1, <2>1, TablesStay DEF Tables
<1>7. Grows(c)
  BY <1>0, <1>1, KeepMoves DEF Grows, Placed
<1>8. CancelsArrive'
  <2>1. \A d \in Calls \ {c} : pc'[d] = pc[d] /\ mem'[d] = mem[d]
    BY <1>0, <1>1, KeepMoves
  <2> QED BY <1>1, <2>1 DEF OrdersAccounted, CancelsArrive, CancelledFor, Stamps, Placed
<1>9. Call(c)'
  BY <1>0, <1>1, EndCall, Standing
<1> QED BY <1>4, <1>6, <1>7, <1>8, <1>9, StepOf

\* One row of an approval is written: as a new consent, or as no consent.
LEMMA ConsentWritten ==
  ASSUME Types, Types', Tables, NEW c \in Calls, NEW i \in Intents, NEW p \in DOMAIN approvals'[i],
         UNCHANGED <<job, claim>>,
         \A j \in Intents \ {i} : approvals'[j] = approvals[j],
         \A k \in DOMAIN approvals'[i] \ {p} : k \in DOMAIN approvals[i]
         /\ approvals'[i][k] = approvals[i][k],
         Consented(approvals'[i][p], i),
         \/ approvals'[i][p].status # "APPROVED" /\ granted' = granted
         \/ /\ approvals'[i][p].by = c /\ granted[c] = NONE /\ granted'[c] = approvals'[i][p].terms
            /\ \A d \in Calls \ {c} : granted'[d] = granted[d]
  PROVE  ApprovalsRest' /\ ClaimsRest'
<1>1. \A j \in Intents : \A k \in DOMAIN approvals[j] : approvals[j][k] \in ApprovalRow
  BY DEF Types
<1>2. \A d \in Calls : granted[d] # NONE => granted'[d] = granted[d]
  OBVIOUS
<1>3. ClaimsRest'
  <2>1. \A e \in Calls : claim[e] # NONE => claim[e] \in Claim
    BY DEF Types
  <2> QED BY <1>2, <2>1 DEF Tables, ClaimsRest, On, Matches, Claim
<1>4. ASSUME NEW j \in Intents, NEW at \in DOMAIN approvals'[j], <<j, at>> # <<i, p>>
      PROVE  /\ at \in DOMAIN approvals[j] /\ approvals'[j][at] = approvals[j][at]
             /\ Consented(approvals[j][at], j) /\ Consented(approvals[j][at], j)'
             /\ approvals[j][at].status = "APPROVED" =>
                  /\ Granted(approvals[j][at], j)
                  /\ \A e \in Calls : claim[e] # NONE => claim[e].by # approvals[j][at].by
                  /\ \A k \in DOMAIN approvals[j] :
                       approvals[j][k].status = "APPROVED" /\ approvals[j][k].by = approvals[j][at].by
                       => k = at
  <2>1. at \in DOMAIN approvals[j] /\ approvals'[j][at] = approvals[j][at]
    BY <1>4
  <2> QED BY <2>1 DEF Tables, ApprovalsRest, Consented, Consenting, On, Op
<1>5. ASSUME NEW j \in Intents, NEW at \in DOMAIN approvals[j], approvals[j][at].status = "APPROVED"
      PROVE  granted[approvals[j][at].by] # NONE
             /\ granted'[approvals[j][at].by] = granted[approvals[j][at].by]
  <2>1. Granted(approvals[j][at], j) /\ approvals[j][at] \in ApprovalRow
    BY <1>1, <1>5 DEF Tables, ApprovalsRest
  <2> QED BY <1>2, <2>1, NoneAssumption DEF Granted, ApprovalRow
<1>6. ASSUME NEW j \in Intents, NEW at \in DOMAIN approvals'[j], approvals'[j][at].status = "APPROVED"
      PROVE  /\ Granted(approvals[j][at], j)'
             /\ \A e \in Calls : claim[e] # NONE => claim[e].by # approvals'[j][at].by
             /\ \A k \in DOMAIN approvals'[j] :
                  approvals'[j][k].status = "APPROVED" /\ approvals'[j][k].by = approvals'[j][at].by => k = at
  <2>1. CASE <<j, at>> = <<i, p>>
    <3>1. j = i /\ at = p /\ approvals'[i][p].by = c /\ granted[c] = NONE
          /\ granted'[c] = approvals'[i][p].terms
      BY <1>6, <2>1
    <3>2. Granted(approvals[j][at], j)'
      BY <3>1 DEF Granted, Consented, Consenting, On, Op
    <3>3. \A e \in Calls : claim[e] # NONE => claim[e].by # c
      BY <3>1 DEF Tables, ClaimsRest
    <3>4. ASSUME NEW k \in DOMAIN approvals'[i], k # p, approvals'[i][k].status = "APPROVED"
          PROVE  approvals'[i][k].by # c
      BY <1>5, <3>1, <3>4
    <3> QED BY <3>1, <3>2, <3>3, <3>4
  <2>2. CASE <<j, at>> # <<i, p>>
    <3>1. at \in DOMAIN approvals[j] /\ approvals'[j][at] = approvals[j][at]
          /\ approvals[j][at].status = "APPROVED"
      BY <1>4, <1>6, <2>2
    <3>2. Granted(approvals[j][at], j)'
      BY <1>4, <1>5, <2>2, <3>1 DEF Granted
    <3>3. \A e \in Calls : claim[e] # NONE => claim[e].by # approvals[j][at].by
      BY <1>4, <2>2, <3>1
    <3>4. ASSUME NEW k \in DOMAIN approvals'[j], approvals'[j][k].status = "APPROVED",
                 approvals'[j][k].by = approvals[j][at].by
          PROVE  k = at
      <4>1. CASE <<j, k>> = <<i, p>>
        <5>1. approvals[j][at].by = c /\ granted[c] = NONE
          BY <3>4, <4>1
        <5> QED BY <1>5, <3>1, <5>1
      <4>2. CASE <<j, k>> # <<i, p>>
        BY <1>4, <2>2, <3>1, <3>4, <4>2
      <4> QED BY <4>1, <4>2
    <3> QED BY <3>1, <3>2, <3>3, <3>4
  <2> QED BY <2>1, <2>2
<1>7. ASSUME NEW j \in Intents, NEW at \in DOMAIN approvals'[j]
      PROVE  Consented(approvals[j][at], j)'
  BY <1>4, <1>7 DEF Consented, Consenting, On, Op
<1>8. ApprovalsRest'
  BY <1>6, <1>7 DEF ApprovalsRest
<1> QED BY <1>3, <1>8

\* A row of the approvals of a call's intent is created or written back.
LEMMA ApprovalStep ==
  ASSUME OrdersAccounted, NEW c \in Calls, NEW p \in DOMAIN approvals'[On(c)], pc[c] # "stamp",
         NEW n \in Memory, NEW l \in Label, Keep(c, n, l), Call(c)',
         UNCHANGED <<job, intents, quotes, orders, rules, lock, offer, cart, sold, claim, seen, drifts,
         faults>>,
         approvals' \in [Intents -> Seq(ApprovalRow)], granted' \in [Calls -> Terms],
         \A j \in Intents \ {On(c)} : approvals'[j] = approvals[j],
         DOMAIN approvals[On(c)] \subseteq DOMAIN approvals'[On(c)],
         \A k \in DOMAIN approvals'[On(c)] \ {p} :
           k \in DOMAIN approvals[On(c)] /\ approvals'[On(c)][k] = approvals[On(c)][k],
         Consented(approvals'[On(c)][p], On(c)),
         \/ approvals'[On(c)][p].status # "APPROVED" /\ granted' = granted
         \/ /\ approvals'[On(c)][p].by = c /\ granted[c] = NONE /\ granted'[c] = approvals'[On(c)][p].terms
            /\ \A d \in Calls \ {c} : granted'[d] = granted[d]
  PROVE  OrdersAccounted'
<1>0. Types /\ Tables /\ On(c) \in Intents
  BY JobFacts DEF OrdersAccounted, Types
<1>1. Types'
  BY <1>0 DEF Types, TypeOK, Rulesets, Keep
<1>2. ApprovalsRest' /\ ClaimsRest'
  BY <1>0, <1>1, ConsentWritten
<1>3. approvals'[On(c)] # <<>>
  OBVIOUS
<1>4. StatusRests'
  BY <1>0, <1>3 DEF Tables, StatusRests, On
<1>5. OrdersRest'
  BY <1>0 DEF Tables, OrdersRest, Covers, Placed, On, Op
<1>6. \A d \in Calls \ {c} : /\ pc'[d] = pc[d] /\ mem'[d] = mem[d] /\ granted'[d] = granted[d]
  BY <1>0, KeepMoves
<1>7. \A i \in Intents : /\ DOMAIN approvals[i] \subseteq DOMAIN approvals'[i]
                         /\ approvals[i] # <<>> => approvals'[i] # <<>>
  BY <1>3
<1>8. Grows(c)
  BY <1>6, <1>7 DEF Grows, Placed
<1>9. CancelsArrive'
  BY <1>6 DEF OrdersAccounted, CancelsArrive, CancelledFor, Stamps, Placed
<1> QED BY <1>1, <1>2, <1>4, <1>5, <1>8, <1>9, StepOf DEF Tables

LEMMA CreateApprovalStep == ASSUME OrdersAccounted, NEW c \in Calls, CreateApproval(c) PROVE OrdersAccounted'
<1>0. Types /\ mem[c] \in Memory /\ On(c) \in Intents /\ Call(c)
  BY MemoryTypes, JobFacts DEF OrdersAccounted, Types
<1> DEFINE a == mem[c].a
           s == approvals[On(c)]
           path == <<IF a.status = "APPROVED" THEN "APPROVED" ELSE "APPROVAL_REQUIRED">>
<1>1. /\ pc[c] = "create" /\ approvals' = [approvals EXCEPT ![On(c)] = Append(s, a)]
      /\ granted' = IF a.status = "APPROVED" THEN [granted EXCEPT ![c] = a.terms] ELSE granted
      /\ Move(c, mem[c], path, "return")
      /\ UNCHANGED <<job, intents, quotes, orders, rules, lock, offer, cart, sold, claim, seen, drifts,
            faults>>
  BY DEF CreateApproval, shop, bounds
<1>2. /\ a \in ApprovalRow /\ a.by = c /\ Op(c) = "request" /\ Consenting(c)
      /\ granted[c] = NONE /\ claim[c] = NONE /\ sold[c] = NONE /\ orders[c] = NONE
  BY <1>0, <1>1, Standing, WhoseStatement DEF Call, Consent, Consenting
<1>3. path \in Paths /\ path \in Seq(Status) /\ path # <<"SUCCEEDED">>
  BY PathFacts, StatusNames
<1>4. s \in Seq(ApprovalRow)
  BY <1>0 DEF Types
<1> HIDE DEF a, path, s
<1>5. /\ Append(s, a) \in Seq(ApprovalRow) /\ DOMAIN Append(s, a) = DOMAIN s \cup {Len(s) + 1}
      /\ Append(s, a)[Len(s) + 1] = a /\ \A k \in DOMAIN s : Append(s, a)[k] = s[k]
  BY <1>2, <1>4, AppendProperties
<1>6. /\ approvals' \in [Intents -> Seq(ApprovalRow)] /\ approvals'[On(c)] = Append(s, a)
      /\ \A j \in Intents \ {On(c)} : approvals'[j] = approvals[j]
  BY <1>0, <1>1, <1>5 DEF Types
<1>7. /\ granted' \in [Calls -> Terms] /\ \A d \in Calls \ {c} : granted'[d] = granted[d]
      /\ \/ a.status # "APPROVED" /\ granted' = granted
         \/ granted'[c] = a.terms
  BY <1>0, <1>1, <1>2 DEF Types, TypeOK, Terms, ApprovalRow
<1>8. On(c)' = On(c) /\ Consented(a, On(c))
  BY <1>1, <1>2 DEF On, Consented
<1>9. approvals'[On(c)] # <<>>
  BY <1>5, <1>6
<1>10. Call(c)'
  BY <1>0, <1>1, <1>2, <1>3, <1>9, MoveCall
<1>11. PICK n \in Memory : Keep(c, n, "write")
  BY <1>0, <1>1, <1>3, MoveIsKeep, LabelNames
<1>12. "write" \in Label
  BY LabelNames
<1>13. Len(s) + 1 \in DOMAIN approvals'[On(c)] /\ approvals'[On(c)][Len(s) + 1] = a
  BY <1>5, <1>6
<1>14. \A k \in DOMAIN approvals'[On(c)] \ {Len(s) + 1} :
         k \in DOMAIN approvals[On(c)] /\ approvals'[On(c)][k] = approvals[On(c)][k]
  BY <1>5, <1>6 DEF s
<1>15. DOMAIN approvals[On(c)] \subseteq DOMAIN approvals'[On(c)]
  BY <1>5, <1>6 DEF s
<1> QED BY <1>1, <1>2, <1>6, <1>7, <1>8, <1>10, <1>11, <1>12, <1>13, <1>14, <1>15, ApprovalStep

LEMMA UpdateApprovalStep == ASSUME OrdersAccounted, NEW c \in Calls, UpdateApproval(c) PROVE OrdersAccounted'
<1>0. Types /\ mem[c] \in Memory /\ On(c) \in Intents /\ Call(c)
  BY MemoryTypes, JobFacts DEF OrdersAccounted, Types
<1> DEFINE a == mem[c].a
           at == mem[c].at
           row == [approvals[On(c)][at] EXCEPT !.status = a.status, !.terms = a.terms, !.by = a.by]
<1>1. /\ pc[c] = "update" /\ approvals' = [approvals EXCEPT ![On(c)][at] = row]
      /\ granted' = IF a.by = c THEN [granted EXCEPT ![c] = a.terms] ELSE granted
      /\ UNCHANGED <<job, intents, quotes, orders, rules, lock, offer, cart, sold, claim, seen, drifts,
            faults>>
  BY DEF UpdateApproval, shop, bounds
<1>2. /\ at \in DOMAIN approvals[On(c)] /\ a \in ApprovalRow /\ Consented(a, On(c))
      /\ \/ a.status = "APPROVED" /\ a.by = c
         \/ a.status \in {"REJECTED", "REAPPROVAL_REQUIRED"} /\ a.by # c
      /\ granted[c] = NONE /\ claim[c] = NONE /\ sold[c] = NONE /\ orders[c] = NONE
      /\ Op(c) \in {"approve", "reject", "reapprove", "execute"}
  BY <1>0, <1>1, Standing, WhoseStatement DEF Call, Consent
<1>3. approvals[On(c)] \in Seq(ApprovalRow) /\ approvals[On(c)][at] \in ApprovalRow
  BY <1>0, <1>2 DEF Types
<1>4. row \in ApprovalRow /\ row.status = a.status /\ row.terms = a.terms /\ row.by = a.by
  BY <1>2, <1>3 DEF ApprovalRow
<1> HIDE DEF row, a, at
<1>5. LET s == [approvals[On(c)] EXCEPT ![at] = row]
      IN  s \in Seq(ApprovalRow) /\ DOMAIN s = DOMAIN approvals[On(c)]
          /\ s[at] = row /\ \A k \in DOMAIN s \ {at} : s[k] = approvals[On(c)][k]
  BY <1>2, <1>3, <1>4, ExceptSeq
<1>6. /\ approvals' \in [Intents -> Seq(ApprovalRow)] /\ DOMAIN approvals'[On(c)] = DOMAIN approvals[On(c)]
      /\ approvals'[On(c)][at] = row
            /\ \A k \in DOMAIN approvals'[On(c)] \ {at} : approvals'[On(c)][k] = approvals[On(c)][k]
      /\ \A j \in Intents \ {On(c)} : approvals'[j] = approvals[j]
  BY <1>0, <1>1, <1>5 DEF Types
<1>7. /\ granted' \in [Calls -> Terms] /\ \A d \in Calls \ {c} : granted'[d] = granted[d]
      /\ a.by = c => granted'[c] = a.terms
      /\ a.by # c => granted' = granted
  BY <1>0, <1>1, <1>2 DEF Types, TypeOK, Terms, ApprovalRow
<1>8. On(c)' = On(c) /\ Op(c)' = Op(c) /\ Consented(row, On(c))
  BY <1>1, <1>2, <1>4 DEF On, Op, Consented
<1>9. granted'[c] # NONE => Consenting(c)
  BY <1>2, <1>7 DEF Consented
<1>10. approvals'[On(c)'] # <<>>
  BY <1>2, <1>6, <1>8
<1>11. \E n \in Memory, l \in Label : Keep(c, n, l) /\ Call(c)'
  <2>1. CASE Op(c) = "execute"
    <3>1. Move(c, mem[c], <<"REAPPROVAL_REQUIRED">>, "return")
      BY <2>1 DEF UpdateApproval
    <3> DEFINE path == <<"REAPPROVAL_REQUIRED">>
    <3>2. path \in Paths /\ path \in Seq(Status) /\ path # <<"SUCCEEDED">> /\ path # <<"APPROVED">>
      BY PathFacts, StatusNames
    <3> HIDE DEF path
    <3>3. Move(c, mem[c], path, "return")
      BY <3>1 DEF path
    <3>4. Call(c)'
      BY <1>0, <1>1, <1>2, <1>9, <3>2, <3>3, MoveCall
    <3>5. "return" \in Label /\ "write" \in Label
      BY LabelNames
    <3>6. PICK n \in Memory : Keep(c, n, "write")
      BY <1>0, <3>2, <3>3, <3>5, MoveIsKeep
    <3> QED BY <3>4, <3>5, <3>6
  <2>2. CASE Op(c) # "execute"
    <3>1. Keep(c, mem[c], "reload")
      BY <1>0, <2>2, GotoIsKeep DEF UpdateApproval
    <3>2. pc'[c] = "reload" /\ mem'[c] = mem[c]
      BY <1>0, <3>1, KeepMoves
    <3>3. Position(c)'
      BY <1>2, <1>8, <2>2, <3>2 DEF Position, Visits
    <3>4. (Consent(c) /\ Execution(c) /\ Ordering(c))'
      BY <1>1, <1>2, <1>8, <1>9, <1>10, <3>2 DEF Consent, Execution, Ordering, Writes, Consenting
    <3> QED BY <1>0, <3>1, <3>3, <3>4, LabelNames DEF Call
  <2> QED BY <2>1, <2>2
<1>12. at \in DOMAIN approvals'[On(c)]
  BY <1>2, <1>6
<1>13. \/ approvals'[On(c)][at].status # "APPROVED" /\ granted' = granted
       \/ approvals'[On(c)][at].by = c /\ granted'[c] = approvals'[On(c)][at].terms
  BY <1>2, <1>4, <1>6, <1>7
<1> QED BY <1>1, <1>2, <1>6, <1>7, <1>8, <1>11, <1>12, <1>13, ApprovalStep

\* The claim consumes an approved row, and with it the consent the row rests on.
LEMMA MarkConsumedStep == ASSUME OrdersAccounted, NEW c \in Calls, MarkConsumed(c) PROVE OrdersAccounted'
<1>0. Types /\ mem[c] \in Memory /\ On(c) \in Intents /\ Call(c) /\ Tables
  BY MemoryTypes, JobFacts DEF OrdersAccounted, Types
<1> DEFINE i == On(c)
           at == mem[c].at
           a == approvals[i][at]
           o == mem[c].offer
           path == <<"EXECUTING">>
<1>1. pc[c] = "claim" /\ UNCHANGED <<job, intents, quotes, orders, rules, lock, offer, cart, sold,
      granted, seen, drifts, faults>>
  BY DEF MarkConsumed, shop, bounds
<1>2. /\ at \in DOMAIN approvals[i] /\ o \in Offers /\ Matches(mem[c].a, o)
      /\ mem[c].a \in ApprovalRow /\ Granted(mem[c].a, i)
      /\ Op(c) = "execute" /\ granted[c] = NONE /\ claim[c] = NONE /\ sold[c] = NONE /\ orders[c] = NONE
  BY <1>0, <1>1, Standing, WhoseStatement DEF Call, Execution
<1>3. CASE ~Claimable(a)
  <2>1. Goto(c, "return") /\ UNCHANGED <<approvals, claim>>
    BY <1>3 DEF MarkConsumed
  <2> QED BY <1>1, <2>1, EndStep DEF Only, rows, shop, history, bounds
<1>4. CASE Claimable(a)
  <2> DEFINE row == [a EXCEPT !.status = "CONSUMED"]
             new == [by |-> a.by, terms |-> o]
  <2>1. /\ approvals' = [approvals EXCEPT ![i][at].status = "CONSUMED"] /\ claim' = [claim EXCEPT ![c] = new]
        /\ Move(c, mem[c], path, "checkout")
    BY <1>4 DEF MarkConsumed
  <2>2. approvals[i] \in Seq(ApprovalRow) /\ a \in ApprovalRow
    BY <1>0, <1>2 DEF Types
  <2>3. row \in ApprovalRow /\ row.status = "CONSUMED" /\ row.by = a.by
    BY <2>2 DEF ApprovalRow
  <2>4. new \in Claim /\ new # NONE /\ new.by = a.by /\ new.terms = o /\ a.by \in Calls
    BY <1>2, <2>2, NoneAssumption DEF ApprovalRow, Claim
  <2>5. approvals' = [approvals EXCEPT ![i] = [approvals[i] EXCEPT ![at] = row]]
    BY <2>1
  <2>6. /\ Granted(a, i) /\ a.terms \in Offers
        /\ \A e \in Calls : claim[e] # NONE => claim[e].by # a.by
        /\ \A k \in DOMAIN approvals[i] :
             approvals[i][k].status = "APPROVED" /\ approvals[i][k].by = a.by => k = at
    BY <1>0, <1>2, <1>4, <2>2 DEF Tables, ApprovalsRest, Claimable, ApprovalRow
  <2> HIDE DEF row, new, a, o, at, i, path
  <2>7. LET s == [approvals[i] EXCEPT ![at] = row]
        IN  s \in Seq(ApprovalRow) /\ DOMAIN s = DOMAIN approvals[i]
            /\ s[at] = row /\ \A k \in DOMAIN s \ {at} : s[k] = approvals[i][k]
    BY <1>2, <2>2, <2>3, ExceptSeq
  <2>8. /\ approvals' \in [Intents -> Seq(ApprovalRow)] /\ DOMAIN approvals'[i] = DOMAIN approvals[i]
        /\ approvals'[i][at] = row
              /\ \A k \in DOMAIN approvals'[i] \ {at} : approvals'[i][k] = approvals[i][k]
        /\ \A j \in Intents \ {i} : approvals'[j] = approvals[j]
    BY <1>0, <2>5, <2>7 DEF Types, i
  <2>9. /\ claim' \in [Calls -> Claim \cup {NONE}] /\ claim'[c] = new
        /\ \A e \in Calls \ {c} : claim'[e] = claim[e]
    BY <1>0, <2>1, <2>4 DEF Types
  <2>10. path \in Paths /\ path \in Seq(Status) /\ path # <<"SUCCEEDED">> /\ path # <<"APPROVED">>
    BY PathFacts, StatusNames DEF path
  <2>11. "checkout" \in Visits[Op(c)] /\ "checkout" \in Label /\ "write" \in Label
    BY <1>2, LabelNames DEF Visits
  <2>12. Call(c)'
    BY <1>0, <1>1, <1>2, <2>1, <2>4, <2>9, <2>10, <2>11, MoveCall
  <2>13. PICK n \in Memory : Keep(c, n, "write")
    BY <1>0, <2>1, <2>10, <2>11, MoveIsKeep
  <2>14. Types'
    <3>1. \A e \in Calls : claim'[e] # NONE => claim'[e] \in Claim
      BY <2>9
    <3> QED BY <1>0, <1>1, <2>8, <2>9, <2>11, <2>13, <3>1 DEF Types, TypeOK, Rulesets, Keep, Claim
  <2>15. \A j \in Intents : \A k \in DOMAIN approvals'[j] :
           /\ k \in DOMAIN approvals[j]
           /\ approvals'[j][k].by = approvals[j][k].by
           /\ approvals'[j][k].status = "APPROVED" => /\ approvals'[j][k] = approvals[j][k]
                                                      /\ <<j, k>> # <<i, at>>
    BY <2>3, <2>8 DEF a
  <2>16. ApprovalsRest'
    <3> SUFFICES ASSUME NEW j \in Intents, NEW k \in DOMAIN approvals'[j]
                 PROVE  /\ Consented(approvals[j][k], j)'
                        /\ approvals'[j][k].status = "APPROVED" =>
                             /\ Granted(approvals[j][k], j)'
                             /\ \A e \in Calls : claim'[e] # NONE => claim'[e].by # approvals'[j][k].by
                             /\ \A x \in DOMAIN approvals'[j] :
                                  approvals'[j][x].status = "APPROVED"
                                  /\ approvals'[j][x].by = approvals'[j][k].by
                                  => x = k
      BY DEF ApprovalsRest
    <3>1. Consented(approvals[j][k], j)'
      BY <1>0, <1>1, <2>15 DEF Tables, ApprovalsRest, Consented, Consenting, On, Op
    <3>2. ASSUME approvals'[j][k].status = "APPROVED"
          PROVE  /\ Granted(approvals[j][k], j)'
                 /\ \A e \in Calls : claim'[e] # NONE => claim'[e].by # approvals'[j][k].by
                 /\ \A x \in DOMAIN approvals'[j] :
                      approvals'[j][x].status = "APPROVED" /\ approvals'[j][x].by = approvals'[j][k].by
                      => x = k
      <4>1. k \in DOMAIN approvals[j] /\ approvals'[j][k] = approvals[j][k] /\ <<j, k>> # <<i, at>>
            /\ approvals[j][k].status = "APPROVED"
        BY <2>15, <3>2
      <4>2. /\ Granted(approvals[j][k], j)
            /\ \A e \in Calls : claim[e] # NONE => claim[e].by # approvals[j][k].by
            /\ \A x \in DOMAIN approvals[j] :
                 approvals[j][x].status = "APPROVED" /\ approvals[j][x].by = approvals[j][k].by => x = k
        BY <1>0, <4>1 DEF Tables, ApprovalsRest
      <4>3. Granted(approvals[j][k], j)'
        BY <1>1, <4>1, <4>2 DEF Granted, Consented, Consenting, On, Op
      <4>4. approvals[j][k].by # a.by
        <5>1. CASE j = i
          BY <2>6, <4>1, <5>1
        <5>2. CASE j # i
          BY <2>6, <4>2, <5>2 DEF Granted, Consented
        <5> QED BY <5>1, <5>2
      <4>5. \A e \in Calls : claim'[e] # NONE => claim'[e].by # approvals'[j][k].by
        BY <2>4, <2>9, <4>1, <4>2, <4>4
      <4>6. \A x \in DOMAIN approvals'[j] :
              approvals'[j][x].status = "APPROVED" /\ approvals'[j][x].by = approvals'[j][k].by => x = k
        BY <2>15, <4>1, <4>2
      <4> QED BY <4>3, <4>5, <4>6
    <3> QED BY <3>1, <3>2
  <2>17. ClaimsRest'
    <3>1. \A e \in Calls \ {c} : claim[e] # NONE =>
            /\ granted[claim[e].by] # NONE /\ On(claim[e].by) = On(e)
            /\ \E d \in Calls : granted[d] # NONE /\ On(d) = On(e)
                  /\ Matches([terms |-> granted[d]], claim[e].terms)
            /\ claim[e].by # a.by
            /\ \A f \in Calls : claim[f] # NONE /\ claim[f].by = claim[e].by => f = e
      BY <1>0, <2>6 DEF Tables, ClaimsRest
    <3>2. granted[a.by] # NONE /\ On(a.by) = i
      BY <2>6, NoneAssumption DEF Granted, Consented
    <3>3. \E d \in Calls : granted[d] # NONE /\ On(d) = i /\ Matches([terms |-> granted[d]], o)
      BY <1>2, NoneAssumption DEF Granted, Consented, ApprovalRow, Matches
    <3>4. \A x : On(x)' = On(x)
      BY <1>1 DEF On
    <3>5. \A t, u : Matches(t, u)' <=> Matches(t, u)
      BY DEF Matches
    <3>6. ASSUME NEW e \in Calls, claim'[e] # NONE
          PROVE  /\ granted[claim'[e].by] # NONE /\ On(claim'[e].by) = On(e)
                 /\ \E d \in Calls : granted[d] # NONE /\ On(d) = On(e)
                                     /\ Matches([terms |-> granted[d]], claim'[e].terms)
                 /\ \A f \in Calls : claim'[f] # NONE /\ claim'[f].by = claim'[e].by => f = e
      <4>1. CASE e = c
        BY <2>4, <2>6, <2>9, <3>2, <3>3, <4>1 DEF i
      <4>2. CASE e # c
        BY <2>4, <2>9, <3>1, <3>6, <4>2
      <4> QED BY <4>1, <4>2
    <3> QED BY <1>1, <3>4, <3>5, <3>6 DEF ClaimsRest
  <2>18. approvals[i] # <<>> => approvals'[i] # <<>>
    BY <1>2, <2>8
  <2>19. OrdersRest' /\ StatusRests'
    BY <1>0, <1>1, <2>8, <2>18 DEF Tables, OrdersRest, StatusRests, Covers, Placed, On, Op
  <2>20. \A d \in Calls \ {c} : pc'[d] = pc[d] /\ mem'[d] = mem[d] /\ claim'[d] = claim[d]
    BY <1>0, <2>9, <2>13, KeepMoves
  <2>21. Grows(c)
    BY <1>1, <2>8, <2>18, <2>20 DEF Grows, Placed
  <2>22. CancelsArrive'
    BY <1>1, <2>20 DEF OrdersAccounted, CancelsArrive, CancelledFor, Stamps, Placed
  <2> QED BY <2>12, <2>14, <2>16, <2>17, <2>19, <2>21, <2>22, StepOf DEF Tables
<1> QED BY <1>3, <1>4

\* The merchant's order, told or not; a sale that is told is recorded next.
LEMMA CheckoutStep == ASSUME OrdersAccounted, NEW c \in Calls, Checkout(c) PROVE OrdersAccounted'
<1>0. Types /\ mem[c] \in Memory /\ On(c) \in Intents /\ Call(c) /\ Tables
  BY MemoryTypes, JobFacts DEF OrdersAccounted, Types
<1>1. PICK told \in {"SUCCEEDED", "AUTHENTICATION_REQUIRED", "MERCHANT_INTERVENTION_REQUIRED"} :
        /\ sold' = [sold EXCEPT ![c] = [amount |-> FinalPayable(offer[On(c)]), told |-> told,
                      state |-> IF told = "AUTHENTICATION_REQUIRED" THEN "PENDING" ELSE "PLACED"]]
        /\ IF told = "SUCCEEDED"
             THEN Keep(c, [mem[c] EXCEPT !.sale = [of |-> c, status |-> "PLACED"]], "record")
             ELSE Move(c, mem[c], <<told>>, "return")
        /\ \/ cart' = [cart EXCEPT ![On(c)] = FALSE]
           \/ told = "MERCHANT_INTERVENTION_REQUIRED" /\ UNCHANGED cart
  BY DEF Checkout
<1>2. /\ pc[c] = "checkout"
      /\ UNCHANGED <<job, intents, quotes, approvals, orders, rules, lock, offer, granted, claim, seen,
            drifts, faults>>
  BY DEF Checkout, rows, history, bounds
<1>3. /\ Op(c) = "execute" /\ granted[c] = NONE /\ claim[c] # NONE /\ sold[c] = NONE /\ orders[c] = NONE
  BY <1>0, <1>2, Standing, WhoseStatement DEF Call, Execution
<1> DEFINE sale == [of |-> c, status |-> "PLACED"]
           m == [mem[c] EXCEPT !.sale = sale]
           path == <<told>>
<1>4. FinalPayable(offer[On(c)]) \in Int
  BY <1>0, OffersAssumption DEF Types, TypeOK, FinalPayable
<1>5. /\ sold' \in [Calls -> Sale \cup {NONE}] /\ sold'[c] # NONE /\ sold'[c].state \in {"PENDING", "PLACED"}
      /\ told = "SUCCEEDED" => sold'[c].state = "PLACED"
      /\ \A d \in Calls \ {c} : sold'[d] = sold[d]
  <2> DEFINE new == [amount |-> FinalPayable(offer[On(c)]), told |-> told,
                     state |-> IF told = "AUTHENTICATION_REQUIRED" THEN "PENDING" ELSE "PLACED"]
  <2>1. new \in Sale
    BY <1>4 DEF Sale
  <2>2. new.state \in {"PENDING", "PLACED"} /\ (told = "SUCCEEDED" => new.state = "PLACED")
    OBVIOUS
  <2>3. sold' = [sold EXCEPT ![c] = new]
    BY <1>1
  <2> HIDE DEF new
  <2> QED BY <1>0, <2>1, <2>2, <2>3, NoneAssumption DEF Types
<1>6. /\ Placed \subseteq Calls \ {c}
      /\ \A e \in Placed : e \in Placed' /\ sold'[e] = sold[e]
      /\ \A e \in Placed' : e \in Calls /\ (e = c \/ e \in Placed)
  BY <1>3, <1>5 DEF Placed
<1>7. sale \in Order /\ (told = "SUCCEEDED" => Covers(sale, c)')
  BY <1>2, <1>5 DEF Order, Covers, Placed, On, Op
<1>8. m \in Memory /\ m.sale = sale
  BY <1>0, <1>7 DEF Memory
<1>9. path \in Paths /\ path \in Seq(Status) /\ (told # "SUCCEEDED" => path # <<"SUCCEEDED">>)
      /\ path # <<"APPROVED">>
  BY PathFacts, StatusNames
<1> HIDE DEF m, sale, path
<1>10. cart' \in [Intents -> BOOLEAN]
  BY <1>0, <1>1 DEF Types, TypeOK
<1>11. \E n \in Memory, l \in Label : Keep(c, n, l) /\ Call(c)'
  <2>1. CASE told = "SUCCEEDED"
    <3>1. Keep(c, m, "record") /\ "record" \in Label /\ "record" \in Visits[Op(c)]
      BY <1>1, <1>3, <2>1, LabelNames DEF Visits, m, sale
    <3>2. pc'[c] = "record" /\ mem'[c] = m /\ Op(c)' = Op(c)
      BY <1>0, <1>2, <3>1, KeepMoves DEF Op
    <3>3. Position(c)'
      BY <3>1, <3>2 DEF Position
    <3>4. (Consent(c) /\ Execution(c) /\ Ordering(c))'
      BY <1>2, <1>3, <1>5, <1>7, <1>8, <2>1, <3>2 DEF Consent, Execution, Ordering, Writes
    <3> QED BY <1>8, <3>1, <3>3, <3>4 DEF Call
  <2>2. CASE told # "SUCCEEDED"
    <3>1. Move(c, mem[c], path, "return") /\ "return" \in Label /\ "write" \in Label
      BY <1>1, <2>2, LabelNames DEF path
    <3>2. Call(c)'
      BY <1>0, <1>2, <1>3, <1>9, <2>2, <3>1, MoveCall
    <3>3. PICK n \in Memory : Keep(c, n, "write")
      BY <1>0, <1>9, <3>1, MoveIsKeep
    <3> QED BY <3>1, <3>2, <3>3
  <2> QED BY <2>1, <2>2
<1>12. PICK n \in Memory, l \in Label : Keep(c, n, l)
  BY <1>11
<1>13. Types'
  BY <1>0, <1>2, <1>5, <1>10, <1>12 DEF Types, TypeOK, Rulesets, Keep
<1>14. OrdersRest'
  BY <1>0, <1>2, <1>6 DEF Tables, OrdersRest, Covers, On, Op
<1>15. Tables'
  BY <1>0, <1>2, <1>14 DEF Tables, ApprovalsRest, ClaimsRest, StatusRests, Consented, Granted,
       Consenting, On, Op
<1>16. \A d \in Calls \ {c} : pc'[d] = pc[d] /\ mem'[d] = mem[d]
  BY <1>0, <1>12, KeepMoves
<1>17. Grows(c)
  BY <1>2, <1>5, <1>6, <1>16 DEF Grows
<1>18. CancelsArrive'
  <2>1. \A e \in Calls : Stamps(c, e) = FALSE
    BY <1>2 DEF Stamps
  <2> QED BY <1>2, <1>5, <1>6, <1>16, <2>1 DEF OrdersAccounted, CancelsArrive, CancelledFor, Stamps, Placed
<1> QED BY <1>11, <1>13, <1>15, <1>17, <1>18, StepOf

LEMMA RecordStep == ASSUME OrdersAccounted, NEW c \in Calls, Record(c) PROVE OrdersAccounted'
<1>0. Types /\ mem[c] \in Memory /\ On(c) \in Intents /\ Call(c) /\ Tables
  BY MemoryTypes, JobFacts DEF OrdersAccounted, Types
<1> DEFINE sale == mem[c].sale
           path == <<"SUCCEEDED">>
<1>1. /\ pc[c] = "record" /\ orders' = [orders EXCEPT ![c] = sale] /\ Move(c, mem[c], path, "return")
      /\ UNCHANGED <<job, intents, quotes, approvals, rules, lock, offer, cart, sold, granted, claim,
            seen, drifts, faults>>
  BY DEF Record, shop, history, bounds
<1>2. /\ sale \in Order /\ Covers(sale, c) /\ orders[c] = NONE
      /\ granted[c] # NONE => Consenting(c)
      /\ claim[c] # NONE => Op(c) = "execute"
      /\ sold[c] # NONE => claim[c] # NONE
  BY <1>0, <1>1, Standing DEF Call, Ordering
<1>3. path \in Paths /\ path \in Seq(Status) /\ path # <<"APPROVED">>
  BY PathFacts, StatusNames
<1> HIDE DEF sale, path
<1>4. sale # NONE /\ sale.of \in Calls
  BY <1>2, NoneAssumption DEF Order
<1>5. /\ orders' \in [Calls -> Order \cup {NONE}] /\ orders'[c] = sale
      /\ \A d \in Calls \ {c} : orders'[d] = orders[d]
  BY <1>0, <1>1, <1>2 DEF Types
<1>6. "write" \in Label /\ "return" \in Label
  BY LabelNames
<1>7. Call(c)'
  BY <1>0, <1>1, <1>2, <1>3, <1>4, <1>5, MoveCall
<1>8. PICK n \in Memory : Keep(c, n, "write")
  BY <1>0, <1>1, <1>3, <1>6, MoveIsKeep
<1>9. Types'
  BY <1>0, <1>1, <1>5, <1>6, <1>8 DEF Types, TypeOK, Rulesets, Keep
<1>10. Tables'
  <2>1. OrdersRest' /\ StatusRests'
    BY <1>0, <1>1, <1>2, <1>4, <1>5 DEF Tables, OrdersRest, StatusRests, Covers, Placed, On, Op
  <2> QED BY <1>0, <1>1, <2>1 DEF Tables, ApprovalsRest, ClaimsRest, Consented, Granted, Consenting, On, Op
<1>11. \A d \in Calls \ {c} : pc'[d] = pc[d] /\ mem'[d] = mem[d]
  BY <1>0, <1>8, KeepMoves
<1>12. Grows(c)
  BY <1>1, <1>2, <1>4, <1>5, <1>11 DEF Grows, Placed
<1>13. CancelsArrive'
  <2>1. \A e \in Calls : CancelledFor(e) => CancelledFor(e)'
    BY <1>2, <1>5 DEF CancelledFor
  <2>2. ASSUME NEW d \in Calls, NEW e \in Calls, Stamps(d, e) PROVE Stamps(d, e)'
    <3>1. d # c /\ mem[d].at \in Calls /\ orders[mem[d].at] # NONE
      BY <1>1, <2>2 DEF Stamps, OrdersAccounted, Call, Ordering
    <3> QED BY <1>2, <1>5, <1>11, <2>2, <3>1 DEF Stamps
  <2> QED BY <1>1, <2>1, <2>2 DEF OrdersAccounted, CancelsArrive, Placed
<1> QED BY <1>7, <1>9, <1>10, <1>12, <1>13, StepOf

\* The merchant cancels the sale of an order on record, and the call is to write so.
LEMMA MerchantCancelsStep == ASSUME OrdersAccounted, NEW c \in Calls, MerchantCancels(c)
PROVE OrdersAccounted'
<1>0. Types /\ mem[c] \in Memory /\ On(c) \in Intents /\ Call(c) /\ Tables
  BY MemoryTypes, JobFacts DEF OrdersAccounted, Types
<1> DEFINE r == mem[c].at
           e == orders[r].of
<1>1. /\ pc[c] = "merchant" /\ sold' = [sold EXCEPT ![e].state = "CANCELLED"] /\ Goto(c, "stamp")
      /\ UNCHANGED <<job, intents, quotes, approvals, orders, rules, lock, offer, cart, granted, claim,
            seen, drifts, faults>>
  BY DEF MerchantCancels, rows, history, bounds
<1>2. r \in Calls /\ orders[r] # NONE /\ Covers(orders[r], r) /\ Op(c) = "cancel_order"
  BY <1>0, <1>1, WhoseStatement DEF Call, Ordering, Tables, OrdersRest
<1>3. e \in Placed /\ e \in Calls /\ sold[e] \in Sale
  BY <1>0, <1>2 DEF Covers, Placed, Types
<1> HIDE DEF r, e
<1>4. LET new == [sold[e] EXCEPT !.state = "CANCELLED"]
      IN  new \in Sale /\ new # NONE /\ new.state = "CANCELLED"
  BY <1>3, NoneAssumption DEF Sale
<1>5. /\ sold' \in [Calls -> Sale \cup {NONE}] /\ sold'[e] # NONE /\ sold'[e].state = "CANCELLED"
      /\ \A d \in Calls \ {e} : sold'[d] = sold[d]
  BY <1>0, <1>1, <1>3, <1>4 DEF Types
<1>6. /\ Placed' = Placed /\ Placed \subseteq Calls
      /\ \A d \in Placed : sold[d].state = "CANCELLED" => sold'[d].state = "CANCELLED"
      /\ \A d \in Calls : sold'[d] = NONE <=> sold[d] = NONE
  BY <1>3, <1>5 DEF Placed
<1>7. Keep(c, mem[c], "stamp") /\ "stamp" \in Label
  BY <1>0, <1>1, GotoIsKeep, LabelNames
<1>8. /\ pc'[c] = "stamp" /\ mem'[c] = mem[c] /\ On(c)' = On(c) /\ Op(c)' = Op(c)
      /\ \A d \in Calls \ {c} : pc'[d] = pc[d] /\ mem'[d] = mem[d]
  BY <1>0, <1>1, <1>7, KeepMoves DEF On, Op
<1>9. Types'
  <2>1. \A d \in Calls : sold'[d] # NONE => sold'[d] \in Sale
    BY <1>5
  <2> QED BY <1>0, <1>1, <1>5, <1>7, <2>1 DEF Types, TypeOK, Rulesets, Keep
<1>10. Tables'
  <2>1. OrdersRest'
    BY <1>0, <1>1, <1>6 DEF Tables, OrdersRest, Covers, On, Op
  <2> QED BY <1>0, <1>1, <2>1 DEF Tables, ApprovalsRest, ClaimsRest, StatusRests, Consented, Granted,
      Consenting, On, Op
<1>11. Grows(c)
  BY <1>1, <1>6, <1>8 DEF Grows
<1>12. Call(c)'
  <2>1. Position(c)'
    BY <1>2, <1>8 DEF Position, Visits
  <2>2. granted[c] = NONE /\ claim[c] = NONE /\ sold[c] = NONE /\ orders[c] = NONE
    BY <1>0, <1>1, Standing
  <2>3. sold'[c] = NONE
    BY <1>6, <2>2
  <2>4. sold'[orders'[mem[c].at].of].state = "CANCELLED"
    BY <1>1, <1>5 DEF e, r
  <2>5. mem[c].at \in Calls /\ orders'[mem[c].at] # NONE
    BY <1>1, <1>2 DEF r
  <2>6. (Consent(c) /\ Execution(c) /\ Ordering(c))'
    BY <1>1, <1>8, <2>2, <2>3, <2>4, <2>5 DEF Consent, Execution, Ordering, Writes
  <2> QED BY <2>1, <2>6 DEF Call
<1>13. CancelsArrive'
  <2>1. \A f : f = e => Stamps(c, f)'
    BY <1>1, <1>8 DEF Stamps, e, r
  <2>2. \A d, f \in Calls : Stamps(d, f) => Stamps(d, f)'
    BY <1>1, <1>8 DEF Stamps
  <2>3. \A f \in Placed' : f # e /\ sold'[f].state = "CANCELLED"
        => f \in Placed /\ sold[f].state = "CANCELLED"
    BY <1>5, <1>6
  <2>4. \A f \in Calls : CancelledFor(f)' <=> CancelledFor(f)
    BY <1>1 DEF CancelledFor
  <2>5. ASSUME faults = 0, NEW f \in Placed, sold'[f].state = "CANCELLED"
        PROVE  CancelledFor(f)' \/ \E d \in Calls : Stamps(d, f)'
    <3>1. CASE f = e
      BY <2>1, <3>1
    <3>2. CASE f # e
      <4>1. CancelledFor(f) \/ \E d \in Calls : Stamps(d, f)
        BY <1>6, <2>3, <2>5, <3>2 DEF OrdersAccounted, CancelsArrive
      <4> QED BY <1>6, <2>2, <2>4, <4>1
    <3> QED BY <3>1, <3>2
  <2> QED BY <1>1, <1>6, <2>5 DEF CancelsArrive
<1> QED BY <1>9, <1>10, <1>11, <1>12, <1>13, StepOf

LEMMA UpdateStatusStep == ASSUME OrdersAccounted, NEW c \in Calls, UpdateStatus(c) PROVE OrdersAccounted'
<1>0. Types /\ mem[c] \in Memory /\ On(c) \in Intents /\ Call(c) /\ Tables
  BY MemoryTypes, JobFacts DEF OrdersAccounted, Types
<1> DEFINE r == mem[c].at
           new == [orders[r] EXCEPT !.status = "CANCELLED"]
<1>1. /\ pc[c] = "stamp" /\ orders' = [orders EXCEPT ![r] = new] /\ Goto(c, "return")
      /\ UNCHANGED <<job, intents, quotes, approvals, rules, lock, offer, cart, sold, granted, claim,
            seen, drifts, faults>>
  BY DEF UpdateStatus, shop, history, bounds
<1>2. /\ r \in Calls /\ orders[r] # NONE /\ Covers(orders[r], r)
      /\ sold[orders[r].of].state = "CANCELLED"
      /\ granted[c] = NONE /\ claim[c] = NONE /\ sold[c] = NONE /\ orders[c] = NONE
  BY <1>0, <1>1, Standing DEF Call, Ordering, Tables, OrdersRest
<1>3. orders[r] \in Order
  BY <1>0, <1>2 DEF Types
<1>4. new \in Order /\ new # NONE /\ new.of = orders[r].of /\ new.status = "CANCELLED"
  BY <1>3, NoneAssumption DEF Order
<1> HIDE DEF new, r
<1>5. /\ orders' \in [Calls -> Order \cup {NONE}] /\ orders'[r] = new
      /\ \A d \in Calls \ {r} : orders'[d] = orders[d]
  BY <1>0, <1>1, <1>2, <1>4 DEF Types
<1>6. \A d \in Calls : /\ orders'[d] = NONE <=> orders[d] = NONE
                       /\ orders[d] # NONE => orders'[d].of = orders[d].of
                       /\ orders[d].status = "CANCELLED" => orders'[d].status = "CANCELLED"
  BY <1>2, <1>4, <1>5
<1>7. Keep(c, mem[c], "return") /\ "return" \in Label
  BY <1>0, <1>1, GotoIsKeep, LabelNames
<1>8. /\ pc'[c] = "return" /\ mem'[c] = mem[c]
      /\ \A d \in Calls \ {c} : pc'[d] = pc[d] /\ mem'[d] = mem[d]
  BY <1>0, <1>7, KeepMoves
<1>9. Types'
  BY <1>0, <1>1, <1>5, <1>7 DEF Types, TypeOK, Rulesets, Keep
<1>10. Tables'
  <2>1. OrdersRest'
    <3> SUFFICES ASSUME NEW d \in Calls, orders'[d] # NONE PROVE Covers(orders[d], d)'
      BY DEF OrdersRest
    <3>1. CASE d = r
      BY <1>1, <1>2, <1>4, <1>5, <3>1 DEF Covers, Placed, On, Op
    <3>2. CASE d # r
      BY <1>0, <1>1, <1>5, <3>2 DEF Tables, OrdersRest, Covers, Placed, On, Op
    <3> QED BY <3>1, <3>2
  <2>2. StatusRests'
    BY <1>0, <1>1, <1>6 DEF Tables, StatusRests, On
  <2> QED BY <1>0, <1>1, <2>1, <2>2 DEF Tables, ApprovalsRest, ClaimsRest, Consented, Granted,
      Consenting, On, Op
<1>11. Grows(c)
  BY <1>1, <1>6, <1>8 DEF Grows, Placed
<1>12. Call(c)'
  BY <1>0, <1>1, <1>2, <1>7, EndCall
<1>13. CancelsArrive'
  <2>1. \A f \in Calls : CancelledFor(f) => CancelledFor(f)'
    BY <1>6 DEF CancelledFor
  <2>2. \A f \in Calls : Stamps(c, f) => CancelledFor(f)'
    BY <1>2, <1>4, <1>5 DEF Stamps, CancelledFor, r
  <2>3. ASSUME NEW d \in Calls \ {c}, NEW f \in Calls, Stamps(d, f) PROVE Stamps(d, f)'
    <3>1. mem[d].at \in Calls /\ orders[mem[d].at] # NONE
      BY <2>3 DEF Stamps, OrdersAccounted, Call, Ordering
    <3> QED BY <1>6, <1>8, <2>3, <3>1 DEF Stamps
  <2> QED BY <1>1, <2>1, <2>2, <2>3 DEF OrdersAccounted, CancelsArrive, Placed
<1> QED BY <1>9, <1>10, <1>11, <1>12, <1>13, StepOf

-------------------------------------------------------------------------------
(* The world: no call moves.                                                     *)

LEMMA WorldSteps ==
  ASSUME OrdersAccounted,
         \/ \E i \in Intents : \/ LockExpires(i)
                               \/ \E at \in DOMAIN approvals[i] : ApprovalExpires(i, at)
                               \/ \E o \in Offers : Drift(i, o)
         \/ \E e \in Calls : UserAuthenticates(e)
  PROVE  OrdersAccounted'
<1>0. Types /\ Tables /\ \A d \in Calls : Call(d)
  BY DEF OrdersAccounted
<1> USE DEF handlers, rows, shop, history, bounds
<1>1. ASSUME NEW i \in Intents, LockExpires(i) \/ \E o \in Offers : Drift(i, o)
      PROVE  OrdersAccounted'
  <2>1. UNCHANGED <<job, pc, mem, intents, quotes, approvals, orders, rules, cart, sold, granted,
        claim, seen, faults>>
    BY <1>1 DEF LockExpires, Drift
  <2>2. lock' \in [Intents -> Calls \cup {NONE}] /\ offer' \in [Intents -> Offers]
    BY <1>0, <1>1 DEF LockExpires, Drift, Types, TypeOK
  <2>3. Types'
    BY <1>0, <2>1, <2>2 DEF Types, TypeOK, Rulesets
  <2>4. Tables'
    BY <1>0, <2>1, TablesStay DEF Tables
  <2>5. CancelsArrive'
    BY <2>1 DEF OrdersAccounted, CancelsArrive, CancelledFor, Stamps, Placed
  <2>6. Grows(NONE)
    BY <2>1 DEF Grows, Placed
  <2> QED BY <2>3, <2>4, <2>5, <2>6, StepOf, NoneAssumption
<1>2. ASSUME NEW i \in Intents, NEW at \in DOMAIN approvals[i], ApprovalExpires(i, at)
      PROVE  OrdersAccounted'
  <2> DEFINE row == [approvals[i][at] EXCEPT !.lapsed = TRUE]
  <2>1. /\ approvals' = [approvals EXCEPT ![i] = [approvals[i] EXCEPT ![at] = row]]
        /\ UNCHANGED <<job, pc, mem, intents, quotes, orders, rules, lock, offer, cart, sold, granted,
              claim, seen, drifts, faults>>
    BY <1>2 DEF ApprovalExpires
  <2>2. approvals[i] \in Seq(ApprovalRow) /\ approvals[i][at] \in ApprovalRow
    BY <1>0, <1>2 DEF Types
  <2>3. row \in ApprovalRow /\ row.status = approvals[i][at].status /\ row.by = approvals[i][at].by
        /\ row.terms = approvals[i][at].terms
    BY <2>2 DEF ApprovalRow
  <2> HIDE DEF row
  <2>4. LET s == [approvals[i] EXCEPT ![at] = row]
        IN  s \in Seq(ApprovalRow) /\ DOMAIN s = DOMAIN approvals[i]
            /\ s[at] = row /\ \A k \in DOMAIN s \ {at} : s[k] = approvals[i][k]
    BY <1>2, <2>2, <2>3, ExceptSeq
  <2>5. /\ approvals' \in [Intents -> Seq(ApprovalRow)]
        /\ \A j \in Intents : /\ DOMAIN approvals'[j] = DOMAIN approvals[j]
                              /\ \A k \in DOMAIN approvals[j] :
                                   /\ approvals'[j][k].status = approvals[j][k].status
                                   /\ approvals'[j][k].by = approvals[j][k].by
                                   /\ approvals'[j][k].terms = approvals[j][k].terms
    BY <1>0, <2>1, <2>3, <2>4 DEF Types
  <2>6. \A j \in Intents : approvals[j] # <<>> => approvals'[j] # <<>>
    BY <1>2, <2>1, <2>4, <2>5
  <2>7. Types'
    BY <1>0, <2>1, <2>5 DEF Types, TypeOK, Rulesets
  <2>8. ApprovalsRest'
    BY <1>0, <2>1, <2>5 DEF Tables, ApprovalsRest, Consented, Granted, Consenting, On, Op
  <2>9. Tables'
    <3>1. StatusRests'
      BY <1>0, <2>1, <2>6 DEF Tables, StatusRests, On
    <3> QED BY <1>0, <2>1, <2>8, <3>1, TablesStay DEF Tables
  <2>10. CancelsArrive'
    BY <2>1 DEF OrdersAccounted, CancelsArrive, CancelledFor, Stamps, Placed
  <2>11. Grows(NONE)
    BY <2>1, <2>5, <2>6 DEF Grows, Placed
  <2> QED BY <2>7, <2>9, <2>10, <2>11, StepOf, NoneAssumption
<1>3. ASSUME NEW e \in Calls, UserAuthenticates(e)
      PROVE  OrdersAccounted'
  <2>1. /\ sold[e] # NONE /\ sold[e].state = "PENDING" /\ sold' = [sold EXCEPT ![e].state = "PLACED"]
        /\ UNCHANGED <<job, pc, mem, intents, quotes, approvals, orders, rules, lock, offer, cart,
              granted, claim, seen, drifts, faults>>
    BY <1>3 DEF UserAuthenticates
  <2>2. LET new == [sold[e] EXCEPT !.state = "PLACED"]
        IN  new \in Sale /\ new # NONE /\ new.state = "PLACED"
    <3>1. sold[e] \in Sale
      BY <1>0, <2>1 DEF Types
    <3> QED BY <3>1, NoneAssumption DEF Sale
  <2>3. /\ sold' \in [Calls -> Sale \cup {NONE}] /\ sold'[e] # NONE /\ sold'[e].state = "PLACED"
        /\ \A d \in Calls \ {e} : sold'[d] = sold[d]
    BY <1>0, <2>1, <2>2 DEF Types
  <2>4. /\ Placed \subseteq Calls \ {e}
        /\ \A d \in Placed : d \in Placed' /\ sold'[d] = sold[d]
        /\ \A d \in Placed' : d \in Calls /\ (d = e \/ d \in Placed)
    BY <2>1, <2>3 DEF Placed
  <2>5. Types'
    <3>1. \A d \in Calls : sold'[d] # NONE => sold'[d] \in Sale
      BY <2>3
    <3> QED BY <1>0, <2>1, <2>3, <3>1 DEF Types, TypeOK, Rulesets
  <2>6. OrdersRest'
    BY <1>0, <2>1, <2>4 DEF Tables, OrdersRest, Covers, On, Op
  <2>7. Tables'
    BY <1>0, <2>1, <2>6, TablesStay DEF Tables
  <2>8. CancelsArrive'
    BY <2>1, <2>3, <2>4 DEF OrdersAccounted, CancelsArrive, CancelledFor, Stamps
  <2>9. Grows(NONE)
    BY <2>1, <2>3, <2>4 DEF Grows
  <2> QED BY <2>5, <2>7, <2>8, <2>9, StepOf, NoneAssumption
<1> QED BY <1>1, <1>2, <1>3

-------------------------------------------------------------------------------
(* The theorems.                                                                 *)

LEMMA AtFirst == Init => OrdersAccounted
<1> SUFFICES ASSUME Init PROVE OrdersAccounted
  OBVIOUS
<1>1. job \in Workloads /\ \A i \in job.ready : Quotable(Connectors, Wants[i]) # {}
  BY WorkloadsAssumption DEF Init
<1>2. \A c \in Calls : On(c) \in Intents /\ Op(c) \in Operations
  BY <1>1, WorkloadsAssumption DEF On, Op
<1>3. offer \in [Intents -> Offers]
  BY <1>1, WorkloadsAssumption DEF Init
<1>4. \A i \in Intents : /\ quotes[i] \subseteq Quote
                         /\ i \in job.ready => quotes[i] # {}
  <2> SUFFICES ASSUME NEW i \in Intents
               PROVE  quotes[i] \subseteq Quote /\ (i \in job.ready => quotes[i] # {})
    OBVIOUS
  <2>1. CASE i \in job.ready
    <3>1. quotes[i] = [merchant : Quotable(Connectors, Wants[i]), terms : {offer[i]}]
      BY <2>1 DEF Init
    <3>2. Quotable(Connectors, Wants[i]) \subseteq DOMAIN Connectors
      BY DEF Quotable, Candidates
    <3>3. PICK m : m \in Quotable(Connectors, Wants[i])
      BY <1>1, <2>1
    <3>4. [merchant |-> m, terms |-> offer[i]] \in quotes[i]
      BY <3>1, <3>3
    <3>5. quotes[i] \subseteq Quote
      BY <1>3, <3>1, <3>2 DEF Quote
    <3> QED BY <3>4, <3>5
  <2>2. CASE i \notin job.ready
    BY <2>2 DEF Init
  <2> QED BY <2>1, <2>2
<1>5. \A i \in Intents : intents[i] \in PurchaseIntent /\ intents[i].status \in {"QUOTED", "DRAFT"}
  <2> SUFFICES ASSUME NEW i \in Intents
               PROVE  intents[i] \in PurchaseIntent /\ intents[i].status \in {"QUOTED", "DRAFT"}
    OBVIOUS
  <2>1. CASE i \in job.ready
    <3>1. intents[i] = [status |-> "QUOTED", quote |-> CHOOSE q \in quotes[i] : TRUE]
      BY <2>1 DEF Init
    <3>2. \E q \in quotes[i] : TRUE
      BY <1>4, <2>1
    <3>3. (CHOOSE q \in quotes[i] : TRUE) \in Quote
      BY <1>4, <3>2
    <3> QED BY <3>1, <3>3, StatusNames DEF PurchaseIntent
  <2>2. CASE i \notin job.ready
    <3>1. intents[i] = Created
      BY <2>2 DEF Init
    <3> QED BY <3>1, StatusNames DEF PurchaseIntent, Created
  <2> QED BY <2>1, <2>2
<1>6. /\ intents \in [Intents -> PurchaseIntent] /\ quotes \in [Intents -> SUBSET Quote]
  <2>1. intents = [i \in Intents |-> intents[i]] /\ quotes = [i \in Intents |-> quotes[i]]
    BY DEF Init
  <2>2. intents \in [Intents -> PurchaseIntent]
    BY <1>5, <2>1
  <2>3. quotes \in [Intents -> SUBSET Quote]
    BY <1>4, <2>1
  <2> QED BY <2>2, <2>3
<1>7. /\ mem \in [Calls -> Memory] /\ pc \in [Calls -> Label]
      /\ \A c \in Calls : pc[c] \in {"idle", "done"}
  BY FreshIsMemory, LabelNames DEF Init
<1>8. /\ approvals = [i \in Intents |-> <<>>] /\ orders = [c \in Calls |-> NONE]
      /\ sold = [c \in Calls |-> NONE]
      /\ granted = [c \in Calls |-> NONE] /\ claim = [c \in Calls |-> NONE] /\ rules = job.default
      /\ lock = [i \in Intents |-> NONE] /\ cart = [i \in Intents |-> i \in job.ready] /\ faults = 0
  BY DEF Init
<1>9. Types
  BY <1>1, <1>3, <1>6, <1>7, <1>8 DEF Types, TypeOK, Rulesets, Terms
<1>10. Tables
  BY <1>5, <1>8 DEF Tables, ApprovalsRest, ClaimsRest, OrdersRest, StatusRests
<1>11. \A c \in Calls : Call(c)
  BY <1>7, <1>8 DEF Call, Position, Consent, Execution, Ordering, Writes, Ends
<1>12. CancelsArrive
  BY <1>8 DEF CancelsArrive, Placed
<1> QED BY <1>9, <1>10, <1>11, <1>12 DEF OrdersAccounted

LEMMA EveryStep == OrdersAccounted /\ [Next]_vars => OrdersAccounted'
<1> SUFFICES ASSUME OrdersAccounted, [Next]_vars PROVE OrdersAccounted'
  OBVIOUS
<1>1. CASE UNCHANGED vars
  <2>1. UNCHANGED <<job, pc, mem, intents, quotes, approvals, orders, rules, lock, offer, cart, sold,
        granted, claim, faults>>
    BY <1>1 DEF vars, handlers, rows, shop, history, bounds
  <2>2. Types' /\ Tables' /\ CancelsArrive'
    <3>1. Types'
      BY <2>1 DEF OrdersAccounted, Types, TypeOK, Rulesets
    <3>2. Tables'
      BY <2>1, TablesStay DEF OrdersAccounted, Tables
    <3>3. CancelsArrive'
      BY <2>1 DEF OrdersAccounted, CancelsArrive, CancelledFor, Stamps, Placed
    <3> QED BY <3>1, <3>2, <3>3
  <2>3. Grows(NONE)
    BY <2>1 DEF Grows, Placed
  <2> QED BY <2>2, <2>3, StepOf, NoneAssumption
<1>2. CASE World
  BY <1>2, WorldSteps, AsideSteps DEF World
<1>3. ASSUME NEW c \in Calls, Start(c) PROVE OrdersAccounted'
  BY <1>3, DiscoverySteps, DecideSteps, AsideSteps, MerchantSteps DEF Start
<1>4. ASSUME NEW c \in Calls, Step(c) PROVE OrdersAccounted'
  BY <1>4, WriteStep, AsideSteps, SaveSelectionStep, EvaluateStep, CreateApprovalStep,
       UpdateApprovalStep, ReloadStep,
     BeforeClaimSteps, MarkConsumedStep, CheckoutStep, MerchantSteps, RecordStep, MerchantCancelsStep,
     UpdateStatusStep
  DEF Step
<1> QED BY <1>1, <1>2, <1>3, <1>4 DEF Next

\* The inductive invariant: the tables refer to each other, and every call finds what it
\* relies on, whatever the others do.
THEOREM OrdersAreAccounted == Spec => []OrdersAccounted
<1>1. Init => OrdersAccounted
  BY AtFirst
<1>2. OrdersAccounted /\ [Next]_vars => OrdersAccounted'
  BY EveryStep
<1> QED BY <1>1, <1>2, PTL DEF Spec

\* The tables, the lock and the merchant's records hold what their columns allow.
THEOREM OrderTypes == Spec => []TypeOK
<1>1. OrdersAccounted => TypeOK
  BY DEF OrdersAccounted, Types
<1> QED BY <1>1, OrdersAreAccounted, PTL

\* What the merchant charges was consented to for that intent, up to the tolerance, unless
\* its price moved between the refresh and the checkout.
THEOREM ChargesWereConsented == Spec => []ChargeWasConsented
<1>1. OrdersAccounted => ChargeWasConsented
  BY DEF OrdersAccounted, Tables, ClaimsRest, Call, Execution, ChargeWasConsented, Placed
<1> QED BY <1>1, OrdersAreAccounted, PTL

\* An intent that says SUCCEEDED has an order on record, of a placed sale to that intent
\* by an execution that claimed a consent.
THEOREM SuccessesHaveOrders == Spec => []SuccessHasOrder
<1>1. OrdersAccounted => SuccessHasOrder
  BY DEF OrdersAccounted, Tables, StatusRests, OrdersRest, Covers, Call, Execution, SuccessHasOrder, Placed
<1> QED BY <1>1, OrdersAreAccounted, PTL

\* An order is CANCELLED on record only if the merchant cancelled it, and without a fault
\* what the merchant cancelled is so on record when no call is at work.
THEOREM CancelsReachTheMerchant == Spec => []CancelledAtMerchant
<1>1. OrdersAccounted => CancelledAtMerchant
  BY DEF OrdersAccounted, Tables, OrdersRest, Covers, CancelsArrive, CancelledFor, Stamps, CancelledAtMerchant
<1> QED BY <1>1, OrdersAreAccounted, PTL

-------------------------------------------------------------------------------
(* The consent ledger: a call that consents grants, a claim spends, a sale pays. *)

LEMMA LedgerStands ==
  ASSUME UNCHANGED <<job, claim>>,
         \A c \in Calls : /\ granted'[c] = NONE <=> granted[c] = NONE
                          /\ sold'[c] = NONE <=> sold[c] = NONE
  PROVE  UNCHANGED Ledger!vars
BY DEF Ledger!vars

LEMMA ConsentGrants ==
  ASSUME OrdersAccounted, NEW c \in Calls, CreateApproval(c) \/ UpdateApproval(c)
  PROVE  Ledger!Next \/ UNCHANGED Ledger!vars
<1>1. UNCHANGED <<job, claim, sold>>
  BY DEF CreateApproval, UpdateApproval, shop
<1>2. Types /\ granted[c] = NONE
  BY Standing DEF OrdersAccounted, CreateApproval, UpdateApproval
<1>3. mem[c].a.terms \in Offers
  BY DEF OrdersAccounted, Call, Consent, CreateApproval, UpdateApproval, ApprovalRow
<1>4. granted' = granted \/ granted' = [granted EXCEPT ![c] = mem[c].a.terms]
  BY DEF CreateApproval, UpdateApproval
<1>5. CASE granted' = granted
  BY <1>1, <1>5, LedgerStands
<1>6. CASE granted' = [granted EXCEPT ![c] = mem[c].a.terms]
  <2>1. granted'[c] # NONE /\ \A d \in Calls \ {c} : granted'[d] = granted[d]
    BY <1>2, <1>3, <1>6, NoneAssumption DEF Types, TypeOK
  <2>2. Ledger!Grant(c)
    BY <1>1, <1>2, <2>1 DEF Ledger!Grant
  <2> QED BY <2>2 DEF Ledger!Next
<1> QED BY <1>4, <1>5, <1>6

LEMMA ClaimSpends ==
  ASSUME OrdersAccounted, NEW c \in Calls, MarkConsumed(c)
  PROVE  Ledger!Next \/ UNCHANGED Ledger!vars
<1>1. UNCHANGED <<job, granted, sold>> /\ pc[c] = "claim" /\ Types /\ Tables /\ Call(c) /\ On(c) \in Intents
  BY JobFacts DEF OrdersAccounted, Types, MarkConsumed, shop
<1> DEFINE a == approvals[On(c)][mem[c].at]
           new == [by |-> a.by, terms |-> mem[c].offer]
<1>2. CASE UNCHANGED claim
  BY <1>1, <1>2, LedgerStands
<1>3. CASE Claimable(a) /\ claim' = [claim EXCEPT ![c] = new]
  <2>1. mem[c].at \in DOMAIN approvals[On(c)] /\ mem[c].offer \in Offers /\ claim[c] = NONE
    BY <1>1, Standing DEF Call, Execution
  <2>2. a \in ApprovalRow
    BY <1>1, <2>1 DEF Types
  <2>3. Granted(a, On(c)) /\ \A e \in Calls : claim[e] # NONE => claim[e].by # a.by
    BY <1>1, <1>3, <2>1 DEF Tables, ApprovalsRest, Claimable
  <2>4. a.by \in Calls /\ granted[a.by] # NONE /\ On(a.by) = On(c)
    BY <2>2, <2>3, NoneAssumption DEF Granted, Consented, ApprovalRow
  <2>5. new # NONE /\ new.by = a.by
    <3>1. new \in Claim
      BY <2>1, <2>4 DEF Claim
    <3> QED BY <3>1, NoneAssumption
  <2> HIDE DEF new, a
  <2>6. claim'[c] = new /\ \A e \in Calls \ {c} : claim'[e] = claim[e]
    BY <1>1, <1>3 DEF Types
  <2>7. PICK g \in Calls : g = a.by
    BY <2>4
  <2>8. [e \in Calls |-> IF claim'[e] = NONE THEN NONE ELSE claim'[e].by]
        = [[e \in Calls |-> IF claim[e] = NONE THEN NONE ELSE claim[e].by] EXCEPT ![c] = g]
    BY <2>5, <2>6, <2>7
  <2>9. \A e \in Calls : (IF claim[e] = NONE THEN NONE ELSE claim[e].by) # g
    BY <2>3, <2>7, NoneAssumption
  <2> DEFINE spent == [e \in Calls |-> IF claim[e] = NONE THEN NONE ELSE claim[e].by]
  <2>10. spent[c] = NONE /\ \A e \in Calls : spent[e] # g
    BY <2>1, <2>9
  <2>11. g \in {d \in Calls : granted[d] # NONE} /\ job.on[g] = job.on[c]
    BY <2>4, <2>7 DEF On
  <2>12. UNCHANGED <<job.on, {d \in Calls : granted[d] # NONE}, {e \in Calls : sold[e] # NONE}>>
    BY <1>1
  <2>13. Ledger!Spend(c, g)
    BY <2>8, <2>10, <2>11, <2>12 DEF Ledger!Spend
  <2> QED BY <2>13 DEF Ledger!Next
<1> QED BY <1>2, <1>3 DEF MarkConsumed

LEMMA SalePays ==
  ASSUME OrdersAccounted, NEW c \in Calls, Checkout(c)
  PROVE  Ledger!Next \/ UNCHANGED Ledger!vars
<1>1. UNCHANGED <<job, granted, claim>> /\ pc[c] = "checkout" /\ Types /\ Call(c)
  BY DEF OrdersAccounted, Checkout, history
<1>2. PICK told \in {"SUCCEEDED", "AUTHENTICATION_REQUIRED", "MERCHANT_INTERVENTION_REQUIRED"} :
        sold' = [sold EXCEPT ![c] = [amount |-> FinalPayable(offer[On(c)]), told |-> told,
                   state |-> IF told = "AUTHENTICATION_REQUIRED" THEN "PENDING" ELSE "PLACED"]]
  BY DEF Checkout
<1> DEFINE new == [amount |-> FinalPayable(offer[On(c)]), told |-> told,
                   state |-> IF told = "AUTHENTICATION_REQUIRED" THEN "PENDING" ELSE "PLACED"]
<1>3. FinalPayable(offer[On(c)]) \in Int
  BY <1>1, JobFacts, OffersAssumption DEF Types, TypeOK, FinalPayable
<1>4. new \in Sale
  BY <1>3 DEF Sale
<1> HIDE DEF new
<1>5. claim[c] # NONE /\ sold[c] = NONE
  BY <1>1, Standing DEF Call, Execution
<1>6. sold' = [sold EXCEPT ![c] = new]
  BY <1>2 DEF new
<1>7. sold'[c] # NONE /\ \A d \in Calls \ {c} : sold'[d] = sold[d]
  BY <1>1, <1>4, <1>6, NoneAssumption DEF Types
<1>8. claim[c].by # NONE
  BY <1>1, <1>5, NoneAssumption DEF Types, Claim
<1>9. Ledger!Pay(c)
  BY <1>1, <1>5, <1>7, <1>8 DEF Ledger!Pay
<1> QED BY <1>9 DEF Ledger!Next

LEMMA LedgerFollows == OrdersAccounted /\ [Next]_vars => [Ledger!Next]_(Ledger!vars)
<1> SUFFICES ASSUME OrdersAccounted, [Next]_vars PROVE Ledger!Next \/ UNCHANGED Ledger!vars
  OBVIOUS
<1> USE DEF handlers, rows, shop, history, bounds
<1>0. Types
  BY DEF OrdersAccounted
<1>1. ASSUME NEW c \in Calls, Start(c) PROVE UNCHANGED Ledger!vars
  BY <1>1, LedgerStands DEF Start, Only, Discover, SelectQuote, CancelIntent, EvaluateAndTransition,
       SetGuardrails,
     Approve, Reject, Reapprove, Lock, CompleteAuthentication, CancelOrder
<1>2. ASSUME NEW c \in Calls,
             \/ Write(c) \/ Return(c) \/ FanOut(c) \/ SaveSelection(c) \/ Evaluate(c) \/ Reload(c)
             \/ LoadApproved(c) \/ Gate(c) \/ ReadApproval(c) \/ Refresh(c) \/ CheckPayment(c)
                   \/ CheckoutFails(c)
             \/ Record(c) \/ Answer(c) \/ MerchantRefuses(c) \/ UpdateStatus(c)
      PROVE  UNCHANGED Ledger!vars
  <2>1. UNCHANGED <<job, granted, claim, sold>>
    BY <1>2 DEF Only, Write, Return, FanOut, SaveSelection, Evaluate, Reload, LoadApproved, Gate,
         ReadApproval, Refresh,
                CheckPayment, CheckoutFails, Record, Answer, MerchantRefuses, UpdateStatus
  <2> QED BY <2>1, LedgerStands
<1>3. ASSUME NEW c \in Calls, MerchantCancels(c) PROVE UNCHANGED Ledger!vars
  <2>1. orders[mem[c].at].of \in Placed /\ orders[mem[c].at].of \in Calls
    BY <1>3 DEF OrdersAccounted, Call, Ordering, MerchantCancels, Tables, OrdersRest, Covers, Placed
  <2> DEFINE e == orders[mem[c].at].of
             new == [sold[e] EXCEPT !.state = "CANCELLED"]
  <2>2. UNCHANGED <<job, granted, claim>> /\ sold' = [sold EXCEPT ![e] = new]
    BY <1>3 DEF MerchantCancels
  <2>3. sold[e] \in Sale
    BY <1>0, <2>1 DEF Types, Placed
  <2>4. new # NONE
    BY <2>3, NoneAssumption DEF Sale
  <2> HIDE DEF new, e
  <2>5. \A d \in Calls : sold'[d] = NONE <=> sold[d] = NONE
    BY <1>0, <2>1, <2>2, <2>4 DEF Types, Placed, e
  <2> QED BY <2>2, <2>5, LedgerStands
<1>4. ASSUME NEW e \in Calls, UserAuthenticates(e) PROVE UNCHANGED Ledger!vars
  <2> DEFINE new == [sold[e] EXCEPT !.state = "PLACED"]
  <2>1. UNCHANGED <<job, granted, claim>> /\ sold' = [sold EXCEPT ![e] = new] /\ sold[e] \in Sale
    BY <1>0, <1>4 DEF UserAuthenticates, Types
  <2>2. new # NONE
    BY <2>1, NoneAssumption DEF Sale
  <2> HIDE DEF new
  <2>3. \A d \in Calls : sold'[d] = NONE <=> sold[d] = NONE
    BY <1>0, <1>4, <2>1, <2>2 DEF Types, UserAuthenticates
  <2> QED BY <2>1, <2>3, LedgerStands
<1>5. ASSUME NEW c \in Calls, Step(c) PROVE Ledger!Next \/ UNCHANGED Ledger!vars
  BY <1>2, <1>3, <1>5, ConsentGrants, ClaimSpends, SalePays DEF Step
<1>6. CASE World
  <2>1. ASSUME NEW i \in Intents,
               LockExpires(i) \/ (\E at \in DOMAIN approvals[i] : ApprovalExpires(i, at))
               \/ \E o \in Offers : Drift(i, o)
        PROVE  UNCHANGED Ledger!vars
    BY <2>1, LedgerStands DEF LockExpires, ApprovalExpires, Drift
  <2>2. ASSUME NEW c \in Calls, Fails(c) PROVE UNCHANGED Ledger!vars
    BY <2>2, LedgerStands DEF Fails
  <2> QED BY <1>4, <1>6, <2>1, <2>2 DEF World
<1>7. CASE UNCHANGED vars
  BY <1>7, LedgerStands DEF vars
<1> QED BY <1>1, <1>5, <1>6, <1>7 DEF Next

\* The purchase flow keeps the promise of the consent ledger: no order is placed but by an
\* execution that has spent a consent given for that intent, and no consent is spent twice.
THEOREM PurchasesKeepTheLedger == Spec => ImplementsLedger
<1>1. Init => Ledger!Init
  <2> SUFFICES ASSUME Init PROVE Ledger!Init
    OBVIOUS
  <2>1. job.on \in [Calls -> Intents]
    BY WorkloadsAssumption DEF Init
  <2>2. Calls \cup Calls = Calls
    OBVIOUS
  <2>3. granted = [c \in Calls |-> NONE] /\ claim = [c \in Calls |-> NONE] /\ sold = [c \in Calls |-> NONE]
    BY DEF Init
  <2> QED BY <2>1, <2>2, <2>3 DEF Ledger!Init
<1>2. OrdersAccounted /\ [Next]_vars => [Ledger!Next]_(Ledger!vars)
  BY LedgerFollows
<1> QED BY <1>1, <1>2, OrdersAreAccounted, PTL DEF Spec, ImplementsLedger, Ledger!Spec

-------------------------------------------------------------------------------
(* The quota and the day's cap.  An execution that has passed a check has passed *)
(* it over the sales it had seen; among sales that do not overlap one was let    *)
(* through after it had seen all the others.                                     *)

Recorded == {r \in Calls : orders[r] # NONE}
OnRecord == {orders[r].of : r \in Recorded}
Uncancelled(sales) == {e \in sales : sold[e].state # "CANCELLED"}
Amounts == [e \in Calls |-> sold[e].amount]

PastGate(c) == pc[c] \in {"approval", "refresh", "policy", "claim"} \/ claim[c] # NONE
Capped(c, amount) == Total(Amounts, Uncancelled(seen[c])) + amount <= job.default.maxPerDay
CapStays == ByOp({"limit"}) = {} /\ job.default.maxPerDay > 0 /\ NothingIsPaidOut

\* Among sales that do not overlap one saw all the others.
LastSawAll ==
  \A T \in SUBSET OnRecord :
    T # {} /\ ~Overlapped(T) => \E e \in T : T \ {e} \subseteq seen[e]

CapHeld(c) ==
  /\ pc[c] = "claim" => Capped(c, FinalPayable(mem[c].offer))
  /\ claim[c] # NONE => Capped(c, FinalPayable(claim[c].terms))

CapsAccounted ==
  /\ IsFiniteSet(Recorded)
  /\ ByOp({"limit"}) = {} => rules = job.default
  /\ seen \in [Calls -> SUBSET OnRecord]
  /\ LastSawAll
  /\ \A c \in Calls : PastGate(c) => Cardinality(Uncancelled(seen[c])) < job.quota
  /\ NothingIsPaidOut => \A e \in Calls : sold[e] # NONE => sold[e].amount >= 0
  /\ CapStays => \A c \in Calls : CapHeld(c)

\* The labels between the gate and the claim.
Gated == {"approval", "refresh", "policy", "claim"}

\* The sales on record, and what is known of each.
LEMMA RecordFacts ==
  ASSUME OrdersAccounted, IsFiniteSet(Recorded)
  PROVE  /\ IsFiniteSet(OnRecord) /\ OnRecord \subseteq Placed /\ Placed \subseteq Calls
         /\ \A e \in Placed : sold[e] \in Sale /\ claim[e] # NONE /\ Amounts[e] = sold[e].amount
                              /\ Amounts[e] \in Int
<1>1. \A r \in Recorded : orders[r].of \in Placed
  BY DEF Recorded, OrdersAccounted, Tables, OrdersRest, Covers
<1>2. OnRecord \subseteq Placed /\ Placed \subseteq Calls
  BY <1>1 DEF OnRecord, Placed
<1>3. ASSUME NEW e \in Placed
      PROVE  sold[e] \in Sale /\ claim[e] # NONE /\ Amounts[e] = sold[e].amount /\ Amounts[e] \in Int
  <2>1. e \in Calls /\ sold[e] # NONE
    BY <1>3 DEF Placed
  <2>2. sold[e] \in Sale
    BY <2>1 DEF OrdersAccounted, Types
  <2>3. claim[e] # NONE
    BY <2>1 DEF OrdersAccounted, Call, Execution
  <2> QED BY <2>1, <2>2, <2>3 DEF Amounts, Sale
<1>4. IsFiniteSet(OnRecord)
  <2> DEFINE f == [r \in Recorded |-> orders[r].of]
  <2>1. f \in Surjection(Recorded, OnRecord)
    BY DEF Surjection, OnRecord
  <2> QED BY <2>1, FS_Surjection
<1> QED BY <1>2, <1>3, <1>4

\* Each uncancelled sale on record has a live order, another for each.
LEMMA LiveCovers ==
  ASSUME OrdersAccounted, NEW S \in SUBSET Uncancelled(OnRecord)
  PROVE  \E at \in Injection(S, Live) : \A e \in S : orders[at[e]].of = e
<1> DEFINE at == [e \in S |-> CHOOSE r \in Recorded : orders[r].of = e]
<1>1. ASSUME NEW e \in S PROVE at[e] \in Live /\ orders[at[e]].of = e
  <2>1. e \in OnRecord /\ sold[e].state # "CANCELLED"
    BY DEF Uncancelled
  <2>2. \E r \in Recorded : orders[r].of = e
    BY <2>1 DEF OnRecord
  <2>3. at[e] \in Recorded /\ orders[at[e]].of = e
    BY <2>2
  <2> HIDE DEF at
  <2>4. at[e] \in Calls /\ orders[at[e]] # NONE
    BY <2>3 DEF Recorded
  <2>5. orders[at[e]].status # "CANCELLED"
    BY <2>1, <2>3, <2>4 DEF OrdersAccounted, Tables, OrdersRest, Covers
  <2> QED BY <2>3, <2>4, <2>5 DEF Live
<1>2. at \in [S -> Live]
  <2>1. \A e \in S : (CHOOSE r \in Recorded : orders[r].of = e) \in Live
    BY <1>1
  <2> QED BY <2>1
<1> HIDE DEF at
<1>3. at \in Injection(S, Live)
  BY <1>1, <1>2 DEF Injection, IsInjective
<1> QED BY <1>1, <1>3

LEMMA LimitsAreIntegers == ASSUME TypeOK PROVE job.default.maxPerDay \in Int /\ job.quota \in Nat
BY WorkloadsAssumption DEF TypeOK

\* What an execution has seen, and what of it is still owed.
LEMMA SeenFacts ==
  ASSUME OrdersAccounted, CapsAccounted, NEW c \in Calls
  PROVE  /\ IsFiniteSet(seen[c]) /\ seen[c] \subseteq Placed
         /\ Uncancelled(seen[c]) \subseteq Uncancelled(OnRecord)
         /\ \A S \in SUBSET seen[c] : IsFiniteSet(S) /\ Cardinality(S) \in Nat /\ Total(Amounts, S) \in Int
         /\ NothingIsPaidOut =>
              \A S \in SUBSET seen[c] : \A T \in SUBSET S : Total(Amounts, T) <= Total(Amounts, S)
<1>1. /\ seen[c] \subseteq OnRecord /\ IsFiniteSet(Recorded)
      /\ NothingIsPaidOut => \A e \in Calls : sold[e] # NONE => sold[e].amount >= 0
  BY DEF CapsAccounted
<1>2. /\ IsFiniteSet(OnRecord) /\ OnRecord \subseteq Placed /\ Placed \subseteq Calls
      /\ \A e \in Placed : Amounts[e] = sold[e].amount /\ Amounts[e] \in Int
  BY <1>1, RecordFacts
<1>3. ASSUME NEW S \in SUBSET seen[c]
      PROVE  IsFiniteSet(S) /\ Cardinality(S) \in Nat /\ Total(Amounts, S) \in Int
  <2>1. S \in SUBSET OnRecord /\ \A e \in S : Amounts[e] \in Int
    BY <1>1, <1>2
  <2>2. IsFiniteSet(S)
    BY <1>2, <2>1, FS_Subset
  <2> QED BY <2>1, <2>2, FS_CardinalityType, TotalType
<1>4. ASSUME NothingIsPaidOut, NEW S \in SUBSET seen[c], NEW T \in SUBSET S
      PROVE  Total(Amounts, T) <= Total(Amounts, S)
  <2>1. \A e \in S : Amounts[e] \in Nat
    BY <1>1, <1>2, <1>4 DEF Placed
  <2> QED BY <1>3, <2>1, TotalOfPart
<1>5. Uncancelled(seen[c]) \subseteq Uncancelled(OnRecord)
  BY <1>1 DEF Uncancelled
<1> QED BY <1>1, <1>2, <1>3, <1>4, <1>5

\* What the frames below ask of the merchant's records: sales stay, at their price.
SalesStand ==
  /\ \A e \in Calls : sold[e] # NONE =>
       /\ sold'[e] # NONE /\ sold'[e].amount = sold[e].amount
       /\ sold[e].state = "CANCELLED" => sold'[e].state = "CANCELLED"
  /\ NothingIsPaidOut => \A e \in Calls : sold'[e] # NONE => sold'[e].amount >= 0

\* What an execution has seen weighs no more than it did.
LEMMA SeenShrinks ==
  ASSUME OrdersAccounted, CapsAccounted, SalesStand, seen' = seen, NEW c \in Calls
  PROVE  /\ IsFiniteSet(Uncancelled(seen[c])) /\ Uncancelled(seen[c])' \subseteq Uncancelled(seen[c])
         /\ Cardinality(Uncancelled(seen[c])') <= Cardinality(Uncancelled(seen[c]))
         /\ Cardinality(Uncancelled(seen[c])') \in Nat /\ Cardinality(Uncancelled(seen[c])) \in Nat
         /\ Total(Amounts, Uncancelled(seen[c])) \in Int
         /\ NothingIsPaidOut =>
              Total(Amounts', Uncancelled(seen[c])') <= Total(Amounts, Uncancelled(seen[c]))
<1> DEFINE S == Uncancelled(seen[c])
           T == Uncancelled(seen[c])'
<1>1. seen[c] \subseteq Placed /\ \A e \in Placed : Amounts[e] = sold[e].amount /\ Amounts[e] \in Int
  BY SeenFacts, RecordFacts DEF CapsAccounted
<1>2. \A e \in seen[c] : e \in Calls /\ sold[e] # NONE
  BY <1>1 DEF Placed
<1>3. T \subseteq S /\ S \subseteq seen[c]
  BY <1>2 DEF Uncancelled, SalesStand
<1>4. \A e \in T : Amounts[e] \in Int /\ Amounts'[e] = Amounts[e]
  BY <1>1, <1>2, <1>3 DEF Amounts, SalesStand
<1> HIDE DEF S, T
<1>5. IsFiniteSet(S) /\ IsFiniteSet(T) /\ Cardinality(S) \in Nat /\ Cardinality(T) \in Nat
      /\ Total(Amounts, S) \in Int
      /\ (NothingIsPaidOut => Total(Amounts, T) <= Total(Amounts, S))
  <2>1. T \in SUBSET seen[c] /\ S \in SUBSET seen[c] /\ T \in SUBSET S
    BY <1>3
  <2> QED BY <2>1, SeenFacts
<1>6. Cardinality(T) <= Cardinality(S)
  BY <1>3, <1>5, FS_Subset
<1>7. Total(Amounts', T) = Total(Amounts, T)
  BY <1>4, <1>5, TotalAgrees
<1> QED BY <1>3, <1>5, <1>6, <1>7 DEF S, T

\* A check passed over what was seen stays passed.
LEMMA CappedStays ==
  ASSUME OrdersAccounted, CapsAccounted, SalesStand, seen' = seen, job' = job, NothingIsPaidOut,
         NEW c \in Calls, NEW amount \in Int, Capped(c, amount)
  PROVE  Total(Amounts', Uncancelled(seen[c])') + amount <= job.default.maxPerDay
<1>1. job.default.maxPerDay \in Int
  BY LimitsAreIntegers DEF OrdersAccounted, Types
<1>2. /\ IsFiniteSet(Uncancelled(seen[c])') /\ Total(Amounts, Uncancelled(seen[c])) \in Int
      /\ Total(Amounts', Uncancelled(seen[c])') <= Total(Amounts, Uncancelled(seen[c]))
  BY SeenShrinks, FS_Subset
<1>3. Total(Amounts', Uncancelled(seen[c])') \in Int
  <2>1. Uncancelled(seen[c])' \in SUBSET seen[c]
    BY SeenShrinks DEF Uncancelled
  <2>2. \A e \in seen[c] : e \in Calls /\ sold[e] # NONE /\ sold[e].amount \in Int
    BY SeenFacts, RecordFacts DEF CapsAccounted, Placed
  <2>3. \A e \in Uncancelled(seen[c])' : Amounts'[e] \in Int
    BY <2>1, <2>2 DEF Amounts, SalesStand
  <2> QED BY <1>2, <2>3, TotalType
<1> QED BY <1>1, <1>2, <1>3 DEF Capped

\* A step after which nobody has passed a check but those who had, or who were shown to.
LEMMA CapsStand ==
  ASSUME OrdersAccounted, CapsAccounted, SalesStand, job' = job, seen' = seen,
         ByOp({"limit"}) = {} => rules' = rules,
         IsFiniteSet(Recorded'), OnRecord \subseteq OnRecord', LastSawAll',
         \A c \in Calls : PastGate(c)' => PastGate(c),
         CapStays => \A c \in Calls :
           /\ pc'[c] = "claim" => /\ FinalPayable(mem'[c].offer) \in Int
                                  /\ Capped(c, FinalPayable(mem'[c].offer))
           /\ claim'[c] # NONE => /\ FinalPayable(claim'[c].terms) \in Int
                                  /\ Capped(c, FinalPayable(claim'[c].terms))
  PROVE  CapsAccounted'
<1>1. ByOp({"limit"})' = ByOp({"limit"}) /\ NothingIsPaidOut' = NothingIsPaidOut /\ CapStays' = CapStays
  BY DEF ByOp, Op, NothingIsPaidOut, CapStays
<1>2. ByOp({"limit"})' = {} => rules' = job'.default
  BY <1>1 DEF CapsAccounted
<1>3. seen' \in [Calls -> SUBSET OnRecord']
  BY DEF CapsAccounted
<1>4. ASSUME NEW c \in Calls, PastGate(c)' PROVE Cardinality(Uncancelled(seen[c])') < job'.quota
  <2>1. Cardinality(Uncancelled(seen[c])) < job.quota
    BY <1>4 DEF CapsAccounted
  <2> QED BY <2>1, SeenShrinks, LimitsAreIntegers DEF OrdersAccounted, Types
<1>5. NothingIsPaidOut' => \A e \in Calls : sold'[e] # NONE => sold'[e].amount >= 0
  BY <1>1 DEF SalesStand
<1>6. ASSUME CapStays', NEW c \in Calls PROVE CapHeld(c)'
  <2>1. CapStays /\ NothingIsPaidOut
    BY <1>1, <1>6 DEF CapStays
  <2>2. \A amount \in Int : Capped(c, amount) =>
          Total(Amounts', Uncancelled(seen[c])') + amount <= job.default.maxPerDay
    BY <2>1, CappedStays
  <2>3. /\ pc'[c] = "claim" => Total(Amounts', Uncancelled(seen[c])') + FinalPayable(mem'[c].offer)
                                <= job.default.maxPerDay
        /\ claim'[c] # NONE => Total(Amounts', Uncancelled(seen[c])') + FinalPayable(claim'[c].terms)
                                <= job.default.maxPerDay
    BY <2>1, <2>2
  <2> QED BY <2>3 DEF CapHeld, Capped, FinalPayable
<1> QED BY <1>1, <1>2, <1>3, <1>4, <1>5, <1>6 DEF CapsAccounted

\* Nobody has seen more, and no sale is new on record.
LEMMA SightsStand ==
  ASSUME CapsAccounted, seen' = seen,
         \A r \in Calls : /\ orders'[r] = NONE <=> orders[r] = NONE
                          /\ orders[r] # NONE => orders'[r].of = orders[r].of
  PROVE  IsFiniteSet(Recorded') /\ OnRecord \subseteq OnRecord' /\ LastSawAll'
<1>1. Recorded' = Recorded
  BY DEF Recorded
<1>2. \A r \in Recorded : orders'[r].of = orders[r].of
  BY DEF Recorded
<1>3. OnRecord' = OnRecord
  BY <1>1, <1>2 DEF OnRecord
<1>4. LastSawAll' <=> LastSawAll
  BY <1>3 DEF LastSawAll, Overlapped
<1> QED BY <1>1, <1>3, <1>4 DEF CapsAccounted

\* What the statements between the checks leave as it is.
LEMMA CapHolds ==
  ASSUME OrdersAccounted, CapsAccounted, CapStays, NEW c \in Calls
  PROVE  /\ pc[c] = "claim" => /\ FinalPayable(mem[c].offer) \in Int
                               /\ Capped(c, FinalPayable(mem[c].offer))
         /\ claim[c] # NONE => /\ FinalPayable(claim[c].terms) \in Int
                               /\ Capped(c, FinalPayable(claim[c].terms))
<1>1. pc[c] = "claim" => mem[c].offer \in Offers
  BY DEF OrdersAccounted, Call, Execution
<1>2. claim[c] # NONE => claim[c].terms \in Offers
  BY DEF OrdersAccounted, Types, Claim
<1>3. \A o \in Offers : FinalPayable(o) \in Int
  BY OffersAssumption DEF FinalPayable
<1> QED BY <1>1, <1>2, <1>3 DEF CapsAccounted, CapHeld

-------------------------------------------------------------------------------
(* The steps.  Most are between no two checks and write no order or sale.        *)

\* Only the call that moves may change place, and not into the checks or past the last.
LEMMA CapsQuiet ==
  ASSUME OrdersAccounted, CapsAccounted, UNCHANGED <<job, orders, claim, seen>>, SalesStand,
         ByOp({"limit"}) = {} => rules' = rules,
         \A c \in Calls : \/ pc'[c] = pc[c] /\ mem'[c] = mem[c]
                          \/ pc'[c] \notin Gated
                          \/ pc[c] \in Gated /\ pc'[c] # "claim"
  PROVE  CapsAccounted'
<1>1. IsFiniteSet(Recorded') /\ OnRecord \subseteq OnRecord' /\ LastSawAll'
  BY SightsStand
<1>2. \A c \in Calls : PastGate(c)' => PastGate(c)
  BY DEF PastGate, Gated
<1>3. CapStays => \A c \in Calls :
        /\ pc'[c] = "claim" => /\ FinalPayable(mem'[c].offer) \in Int
                               /\ Capped(c, FinalPayable(mem'[c].offer))
        /\ claim'[c] # NONE => /\ FinalPayable(claim'[c].terms) \in Int
                               /\ Capped(c, FinalPayable(claim'[c].terms))
  BY CapHolds DEF Gated
<1> QED BY <1>1, <1>2, <1>3, CapsStand

\* A statement of a call, away from the checks and from the merchant.
LEMMA CapsKeep ==
  ASSUME OrdersAccounted, CapsAccounted, NEW c \in Calls,
         \E l, m : Keep(c, m, l) /\ (l \notin Gated \/ (pc[c] \in Gated /\ l # "claim")),
         UNCHANGED <<job, orders, claim, seen>>, SalesStand,
         ByOp({"limit"}) = {} => rules' = rules
  PROVE  CapsAccounted'
<1>1. PICK l, m : Keep(c, m, l) /\ (l \notin Gated \/ (pc[c] \in Gated /\ l # "claim"))
  OBVIOUS
<1>2. pc'[c] = l /\ \A d \in Calls \ {c} : pc'[d] = pc[d] /\ mem'[d] = mem[d]
  BY <1>1, KeepMoves DEF OrdersAccounted
<1> QED BY <1>1, <1>2, CapsQuiet

LEMMA SalesAsTheyWere == ASSUME CapsAccounted, sold' = sold PROVE SalesStand
BY DEF CapsAccounted, SalesStand

\* The statements that move no sale, no order and no claim.
LEMMA CapsAside ==
  ASSUME OrdersAccounted, CapsAccounted, NEW c \in Calls,
         \/ Discover(c) \/ SelectQuote(c) \/ CancelIntent(c) \/ EvaluateAndTransition(c)
         \/ Approve(c) \/ Reject(c) \/ Reapprove(c) \/ Lock(c) \/ CompleteAuthentication(c)
         \/ CancelOrder(c)
         \/ Write(c) \/ Return(c) \/ FanOut(c) \/ SaveSelection(c) \/ Evaluate(c) \/ CreateApproval(c)
         \/ UpdateApproval(c) \/ Reload(c) \/ LoadApproved(c) \/ ReadApproval(c) \/ Refresh(c)
         \/ CheckoutFails(c) \/ Answer(c) \/ MerchantRefuses(c) \/ Fails(c)
  PROVE  CapsAccounted'
<1> USE DEF rows, shop, history, bounds, Only
<1>1. UNCHANGED <<job, orders, claim, seen, sold, rules>>
  BY DEF Discover, SelectQuote, CancelIntent, EvaluateAndTransition, Approve, Reject, Reapprove, Lock,
         CompleteAuthentication, CancelOrder, Write, Return, FanOut, SaveSelection, Evaluate,
         CreateApproval, UpdateApproval, Reload, LoadApproved, ReadApproval, Refresh, CheckoutFails,
         Answer, MerchantRefuses, Fails, Opens, Decides, Stale
<1>2. Types /\ Call(c)
  BY DEF OrdersAccounted
<1>3. \E l, m : Keep(c, m, l) /\ (l \notin Gated \/ (pc[c] \in Gated /\ l # "claim"))
  <2>1. ASSUME NEW l, Goto(c, l) PROVE Keep(c, mem[c], l)
    BY <1>2, <2>1, GotoIsKeep
  <2> DEFINE Aside == \E l, m : Keep(c, m, l) /\ l \notin Gated
  <2>m. \A m, path, then : Move(c, m, path, then) => Aside
    BY DEF Move, Gated
  <2>k. \A m : \A l \in {"selected", "create", "update", "answer", "merchant", "record", "return", "done"} :
          Keep(c, m, l) => Aside
    BY DEF Gated
  <2>2. ASSUME \/ Discover(c) \/ SelectQuote(c) \/ CancelIntent(c) \/ EvaluateAndTransition(c)
               \/ Approve(c) \/ Reject(c) \/ Reapprove(c) \/ CompleteAuthentication(c) \/ CancelOrder(c)
        PROVE  Aside
    <3> HIDE DEF Aside
    <3>1. CASE Discover(c) \/ CancelIntent(c) \/ EvaluateAndTransition(c)
      BY <2>m, <3>1 DEF Discover, CancelIntent, EvaluateAndTransition
    <3>2. CASE SelectQuote(c) \/ CompleteAuthentication(c) \/ CancelOrder(c)
      BY <2>k, <3>2 DEF SelectQuote, CompleteAuthentication, CancelOrder
    <3>3. CASE Approve(c) \/ Reject(c) \/ Reapprove(c)
      BY <2>k, <3>3 DEF Approve, Reject, Reapprove, Decides
    <3> QED BY <2>2, <3>1, <3>2, <3>3
  <2>3. ASSUME Lock(c) \/ SaveSelection(c) \/ MerchantRefuses(c)
        PROVE  \E l, m : Keep(c, m, l) /\ l \notin Gated
    BY <2>1, <2>3 DEF Lock, SaveSelection, MerchantRefuses, Gated
  <2>4. ASSUME Return(c) \/ FanOut(c) \/ Evaluate(c) \/ CreateApproval(c) \/ Reload(c)
               \/ CheckoutFails(c) \/ Answer(c) \/ Fails(c)
        PROVE  Aside
    <3> HIDE DEF Aside
    <3>1. CASE FanOut(c) \/ CreateApproval(c) \/ Reload(c) \/ CheckoutFails(c)
      BY <2>m, <3>1 DEF FanOut, CreateApproval, Reload, CheckoutFails
    <3>2. CASE Return(c) \/ Fails(c)
      BY <2>k, <3>2 DEF Return, Fails
    <3>3. CASE Evaluate(c)
      BY <2>m, <2>k, <3>3 DEF Evaluate
    <3>4. CASE Answer(c)
      BY <2>m, <2>k, <3>4 DEF Answer
    <3> QED BY <2>4, <3>1, <3>2, <3>3, <3>4
  <2>5. ASSUME UpdateApproval(c) PROVE \E l, m : Keep(c, m, l) /\ l \notin Gated
    BY <2>1, <2>5 DEF UpdateApproval, Move, Gated
  <2>6. ASSUME Write(c) PROVE \E l, m : Keep(c, m, l) /\ l \notin Gated
    <3>1. CASE Goto(c, "return")
      BY <2>1, <3>1 DEF Gated
    <3>2. CASE \E n : Keep(c, n, IF Len(mem[c].path) = 1 THEN mem[c].then ELSE "write")
      <4>1. mem[c].then \notin Gated
        BY <1>2, <2>6 DEF Write, Call, Position, Gated
      <4> QED BY <3>2, <4>1 DEF Gated
    <3> QED BY <2>6, <3>1, <3>2 DEF Write
  <2>7. ASSUME LoadApproved(c) PROVE \E l, m : Keep(c, m, l) /\ l \notin Gated
    BY <2>1, <2>7 DEF LoadApproved, Gated
  <2>8. ASSUME ReadApproval(c) \/ Refresh(c)
        PROVE  pc[c] \in Gated /\ \E l, m : Keep(c, m, l) /\ l # "claim"
    BY <2>1, <2>8 DEF ReadApproval, Refresh, Stale, Gated
  <2> QED BY <2>2, <2>3, <2>4, <2>5, <2>6, <2>7, <2>8
<1> QED BY <1>1, <1>3, SalesAsTheyWere, CapsKeep

LEMMA CapsLimit == ASSUME OrdersAccounted, CapsAccounted, NEW c \in Calls, SetGuardrails(c)
                   PROVE  CapsAccounted'
<1>1. UNCHANGED <<job, orders, claim, seen, sold>> /\ Keep(c, mem[c], "return")
  BY GotoIsKeep DEF OrdersAccounted, SetGuardrails, rows, shop, history
<1>2. c \in ByOp({"limit"})
  BY DEF SetGuardrails, ByOp
<1> QED BY <1>1, <1>2, SalesAsTheyWere, CapsKeep DEF Gated

LEMMA CapsWorld ==
  ASSUME OrdersAccounted, CapsAccounted,
         \/ \E i \in Intents : \/ LockExpires(i)
                               \/ \E at \in DOMAIN approvals[i] : ApprovalExpires(i, at)
                               \/ \E o \in Offers : Drift(i, o)
         \/ \E e \in Calls : UserAuthenticates(e)
         \/ UNCHANGED vars
  PROVE  CapsAccounted'
<1> USE DEF handlers, rows, shop, history, bounds
<1>1. UNCHANGED <<job, orders, claim, seen, rules, pc, mem>>
  BY DEF LockExpires, ApprovalExpires, Drift, UserAuthenticates, vars
<1>2. SalesStand
  <2>1. CASE sold' = sold
    BY <2>1, SalesAsTheyWere
  <2>2. CASE \E e \in Calls : UserAuthenticates(e)
    <3>1. PICK e \in Calls : UserAuthenticates(e)
      BY <2>2
    <3>2. sold[e] \in Sale /\ sold \in [Calls -> Sale \cup {NONE}] /\ sold[e].state = "PENDING"
      BY <3>1 DEF UserAuthenticates, OrdersAccounted, Types
    <3> DEFINE new == [sold[e] EXCEPT !.state = "PLACED"]
    <3>3. new \in Sale /\ new.amount = sold[e].amount
      BY <3>2 DEF Sale
    <3>4. new # NONE
      BY <3>3, NoneAssumption
    <3>5. sold' = [sold EXCEPT ![e] = new]
      BY <3>1 DEF UserAuthenticates
    <3> HIDE DEF new
    <3>6. sold'[e] = new /\ \A d \in Calls \ {e} : sold'[d] = sold[d]
      BY <3>2, <3>5
    <3>7. NothingIsPaidOut => \A d \in Calls : sold[d] # NONE => sold[d].amount >= 0
      BY DEF CapsAccounted
    <3>8. sold[e] # NONE /\ sold[e].state # "CANCELLED"
      BY <3>1 DEF UserAuthenticates
    <3> QED BY <3>3, <3>4, <3>6, <3>7, <3>8 DEF SalesStand
  <2> QED BY <2>1, <2>2 DEF LockExpires, ApprovalExpires, Drift, vars
<1> QED BY <1>1, <1>2, CapsQuiet

\* The merchant cancels a sale on record.
LEMMA CapsCancel == ASSUME OrdersAccounted, CapsAccounted, NEW c \in Calls, MerchantCancels(c)
                    PROVE  CapsAccounted'
<1> DEFINE e == orders[mem[c].at].of
           new == [sold[e] EXCEPT !.state = "CANCELLED"]
<1>1. e \in Placed /\ e \in Calls
  BY DEF OrdersAccounted, Call, Ordering, MerchantCancels, Tables, OrdersRest, Covers, Placed
<1>2. sold[e] \in Sale /\ sold \in [Calls -> Sale \cup {NONE}] /\ sold[e] # NONE
  BY <1>1 DEF OrdersAccounted, Types, Placed
<1>3. new \in Sale /\ new.amount = sold[e].amount /\ new.state = "CANCELLED"
  BY <1>2 DEF Sale
<1>4. new # NONE
  BY <1>3, NoneAssumption
<1>5. /\ sold' = [sold EXCEPT ![e] = new] /\ UNCHANGED <<job, orders, claim, seen, rules>>
      /\ Keep(c, mem[c], "stamp")
  BY GotoIsKeep DEF MerchantCancels, rows, history, OrdersAccounted
<1> HIDE DEF new, e
<1>6. sold'[e] = new /\ \A d \in Calls \ {e} : sold'[d] = sold[d]
  BY <1>1, <1>2, <1>5
<1>7. NothingIsPaidOut => \A d \in Calls : sold[d] # NONE => sold[d].amount >= 0
  BY DEF CapsAccounted
<1>8. SalesStand
  BY <1>2, <1>3, <1>4, <1>6, <1>7 DEF SalesStand
<1> QED BY <1>5, <1>8, CapsKeep DEF Gated

\* The merchant sells to an execution that has no sale yet.
LEMMA CapsCheckout == ASSUME OrdersAccounted, CapsAccounted, NEW c \in Calls, Checkout(c)
                      PROVE  CapsAccounted'
<1>1. /\ UNCHANGED <<job, orders, claim, seen, rules>> /\ pc[c] = "checkout" /\ Types /\ Call(c)
      /\ offer[On(c)] \in Offers
  BY JobFacts DEF OrdersAccounted, Checkout, rows, history, Types, TypeOK
<1>2. PICK told \in {"SUCCEEDED", "AUTHENTICATION_REQUIRED", "MERCHANT_INTERVENTION_REQUIRED"} :
        /\ sold' = [sold EXCEPT ![c] = [amount |-> FinalPayable(offer[On(c)]), told |-> told,
                      state |-> IF told = "AUTHENTICATION_REQUIRED" THEN "PENDING" ELSE "PLACED"]]
        /\ IF told = "SUCCEEDED"
             THEN Keep(c, [mem[c] EXCEPT !.sale = [of |-> c, status |-> "PLACED"]], "record")
             ELSE Move(c, mem[c], <<told>>, "return")
  BY DEF Checkout
<1> DEFINE new == [amount |-> FinalPayable(offer[On(c)]), told |-> told,
                   state |-> IF told = "AUTHENTICATION_REQUIRED" THEN "PENDING" ELSE "PLACED"]
<1>3. sold' = [sold EXCEPT ![c] = new] /\ new.amount = FinalPayable(offer[On(c)])
  BY <1>2
<1> HIDE DEF new
<1>4. sold[c] = NONE
  BY <1>1, Standing
<1>5. sold'[c] = new /\ \A d \in Calls \ {c} : sold'[d] = sold[d]
  BY <1>1, <1>3 DEF Types
<1>6. NothingIsPaidOut => new.amount >= 0
  BY <1>1, <1>3 DEF NothingIsPaidOut
<1>7. NothingIsPaidOut => \A d \in Calls : sold[d] # NONE => sold[d].amount >= 0
  BY DEF CapsAccounted
<1>8. SalesStand
  BY <1>4, <1>5, <1>6, <1>7 DEF SalesStand
<1>9. \E l, m : Keep(c, m, l) /\ l \notin Gated
  BY <1>2 DEF Move, Gated
<1> QED BY <1>1, <1>8, <1>9, CapsKeep

\* An order is marked cancelled: the same orders stay on record.
LEMMA CapsStamp == ASSUME OrdersAccounted, CapsAccounted, NEW c \in Calls, UpdateStatus(c)
                   PROVE  CapsAccounted'
<1> DEFINE r == mem[c].at
           new == [orders[r] EXCEPT !.status = "CANCELLED"]
<1>1. r \in Calls /\ orders[r] # NONE
  BY DEF OrdersAccounted, Call, Ordering, UpdateStatus
<1>2. orders[r] \in Order /\ orders \in [Calls -> Order \cup {NONE}]
  BY <1>1 DEF OrdersAccounted, Types
<1>3. new \in Order /\ new.of = orders[r].of
  BY <1>2 DEF Order
<1>4. new # NONE
  BY <1>3, NoneAssumption
<1>5. /\ orders' = [orders EXCEPT ![r] = new] /\ UNCHANGED <<job, sold, claim, seen, rules>>
      /\ Keep(c, mem[c], "return")
  BY GotoIsKeep DEF UpdateStatus, shop, history, OrdersAccounted
<1> HIDE DEF new, r
<1>6. \A d \in Calls : /\ orders'[d] = NONE <=> orders[d] = NONE
                       /\ orders[d] # NONE => orders'[d].of = orders[d].of
  BY <1>1, <1>2, <1>3, <1>4, <1>5
<1>7. IsFiniteSet(Recorded') /\ OnRecord \subseteq OnRecord' /\ LastSawAll'
  BY <1>5, <1>6, SightsStand
<1>8. pc'[c] = "return" /\ \A d \in Calls \ {c} : pc'[d] = pc[d] /\ mem'[d] = mem[d]
  BY <1>5, KeepMoves DEF OrdersAccounted
<1>9. \A d \in Calls : PastGate(d)' => PastGate(d)
  BY <1>5, <1>8 DEF PastGate
<1>10. CapStays => \A d \in Calls :
         /\ pc'[d] = "claim" => /\ FinalPayable(mem'[d].offer) \in Int
                                /\ Capped(d, FinalPayable(mem'[d].offer))
         /\ claim'[d] # NONE => /\ FinalPayable(claim'[d].terms) \in Int
                                /\ Capped(d, FinalPayable(claim'[d].terms))
  BY <1>5, <1>8, CapHolds
<1> QED BY <1>5, <1>7, <1>9, <1>10, SalesAsTheyWere, CapsStand

\* An order is recorded: its sale, if new on record, was seen by none of the others.
LEMMA CapsRecord == ASSUME OrdersAccounted, CapsAccounted, NEW c \in Calls, Record(c)
                    PROVE  CapsAccounted'
<1> DEFINE e == mem[c].sale.of
<1>1. /\ UNCHANGED <<job, sold, claim, seen, rules>> /\ pc[c] = "record" /\ Types /\ Call(c)
      /\ mem[c].sale \in Order /\ mem[c].sale # NONE
  <2>1. mem[c].sale \in Order
    BY DEF OrdersAccounted, Call, Ordering, Record
  <2> QED BY <2>1, NoneAssumption DEF OrdersAccounted, Record, shop, history
<1>2. orders[c] = NONE
  BY <1>1, Standing
<1>3. orders'[c] = mem[c].sale /\ \A d \in Calls \ {c} : orders'[d] = orders[d]
  BY <1>1 DEF Record, Types
<1>4. Recorded' = Recorded \cup {c} /\ c \notin Recorded
  BY <1>1, <1>2, <1>3 DEF Recorded
<1>5. OnRecord' = OnRecord \cup {e}
  <2>1. \A r \in Recorded : orders'[r].of = orders[r].of
    BY <1>3, <1>4 DEF Recorded
  <2>2. orders'[c].of = e
    BY <1>3
  <2> QED BY <1>4, <2>1, <2>2 DEF OnRecord
<1>6. IsFiniteSet(Recorded')
  BY <1>4, FS_AddElement DEF CapsAccounted
<1>7. LastSawAll'
  <2> SUFFICES ASSUME NEW T \in SUBSET (OnRecord \cup {e}), T # {}, ~Overlapped(T)
               PROVE  \E f \in T : T \ {f} \subseteq seen[f]
    BY <1>1, <1>5 DEF LastSawAll, Overlapped
  <2>1. CASE T \subseteq OnRecord
    BY <2>1 DEF CapsAccounted, LastSawAll
  <2>2. CASE e \in T /\ e \notin OnRecord
    <3>1. \A f \in T \ {e} : f \in OnRecord /\ f \in Calls
      BY RecordFacts DEF CapsAccounted
    <3>2. \A f \in T \ {e} : e \notin seen[f]
      BY <2>2, <3>1 DEF CapsAccounted
    <3>3. \A f \in T \ {e} : f \in seen[e]
      BY <2>2, <3>2 DEF Overlapped
    <3> QED BY <2>2, <3>3
  <2> QED BY <2>1, <2>2
<1>8. pc'[c] = "write" /\ \A d \in Calls \ {c} : pc'[d] = pc[d] /\ mem'[d] = mem[d]
  BY <1>1, KeepMoves DEF Record, Move
<1>9. \A d \in Calls : PastGate(d)' => PastGate(d)
  BY <1>1, <1>8 DEF PastGate
<1>10. CapStays => \A d \in Calls :
         /\ pc'[d] = "claim" => /\ FinalPayable(mem'[d].offer) \in Int
                                /\ Capped(d, FinalPayable(mem'[d].offer))
         /\ claim'[d] # NONE => /\ FinalPayable(claim'[d].terms) \in Int
                                /\ Capped(d, FinalPayable(claim'[d].terms))
  BY <1>1, <1>8, CapHolds
<1> QED BY <1>1, <1>5, <1>6, <1>7, <1>9, <1>10, SalesAsTheyWere, CapsStand

\* A claim is made at the terms that were checked.
LEMMA CapsClaim == ASSUME OrdersAccounted, CapsAccounted, NEW c \in Calls, MarkConsumed(c)
                   PROVE  CapsAccounted'
<1>1. /\ UNCHANGED <<job, orders, sold, seen, rules>> /\ pc[c] = "claim" /\ Types
      /\ claim \in [Calls -> Claim \cup {NONE}]
  BY DEF MarkConsumed, shop, OrdersAccounted, Types
<1>2. pc'[c] \in {"write", "return"} /\ \A d \in Calls \ {c} : pc'[d] = pc[d] /\ mem'[d] = mem[d]
  <2>1. \E m : \E l \in {"write", "return"} : Keep(c, m, l)
    BY <1>1, GotoIsKeep DEF MarkConsumed, Move
  <2> QED BY <1>1, <2>1, KeepMoves
<1>3. /\ \A d \in Calls \ {c} : claim'[d] = claim[d]
      /\ claim'[c] = claim[c] \/ claim'[c].terms = mem[c].offer
  BY <1>1 DEF MarkConsumed
<1>4. IsFiniteSet(Recorded') /\ OnRecord \subseteq OnRecord' /\ LastSawAll'
  BY <1>1, SightsStand
<1>5. \A d \in Calls : PastGate(d)' => PastGate(d)
  BY <1>1, <1>2, <1>3 DEF PastGate
<1>6. CapStays => \A d \in Calls :
         /\ pc'[d] = "claim" => /\ FinalPayable(mem'[d].offer) \in Int
                                /\ Capped(d, FinalPayable(mem'[d].offer))
         /\ claim'[d] # NONE => /\ FinalPayable(claim'[d].terms) \in Int
                                /\ Capped(d, FinalPayable(claim'[d].terms))
  <2> SUFFICES ASSUME CapStays, NEW d \in Calls
               PROVE  /\ pc'[d] = "claim" => /\ FinalPayable(mem'[d].offer) \in Int
                                             /\ Capped(d, FinalPayable(mem'[d].offer))
                      /\ claim'[d] # NONE => /\ FinalPayable(claim'[d].terms) \in Int
                                             /\ Capped(d, FinalPayable(claim'[d].terms))
    OBVIOUS
  <2>1. CASE d # c
    BY <1>2, <1>3, <2>1, CapHolds
  <2>2. CASE d = c /\ claim'[c] = claim[c]
    BY <1>2, <2>2, CapHolds
  <2>3. CASE d = c /\ claim'[c].terms = mem[c].offer
    BY <1>1, <1>2, <2>3, CapHolds
  <2> QED BY <1>3, <2>1, <2>2, <2>3
<1> QED BY <1>1, <1>4, <1>5, <1>6, SalesAsTheyWere, CapsStand

\* What the day's spending counts is no less than what the execution had seen.
LEMMA SpendCounts ==
  ASSUME OrdersAccounted, CapsAccounted, NothingIsPaidOut, NEW c \in Calls
  PROVE  SpendToday \in Int /\ Total(Amounts, Uncancelled(seen[c])) <= SpendToday
<1> DEFINE S == Uncancelled(seen[c])
           bill == [r \in Live |-> sold[orders[r].of].amount]
<1>1. S \in SUBSET Uncancelled(OnRecord) /\ S \in SUBSET seen[c] /\ IsFiniteSet(S)
  BY SeenFacts DEF Uncancelled
<1>2. PICK at \in Injection(S, Live) : \A e \in S : orders[at[e]].of = e
  BY <1>1, LiveCovers
<1>3. Live \subseteq Recorded /\ IsFiniteSet(Live)
  <2>1. Live \subseteq Recorded
    BY DEF Live, Recorded
  <2> QED BY <2>1, FS_Subset DEF CapsAccounted
<1>4. \A r \in Live : bill[r] \in Nat
  <2> SUFFICES ASSUME NEW r \in Live PROVE bill[r] \in Nat
    OBVIOUS
  <2>1. orders[r].of \in Placed
    BY DEF Live, OrdersAccounted, Tables, OrdersRest, Covers
  <2>2. orders[r].of \in Calls /\ sold[orders[r].of] # NONE /\ sold[orders[r].of] \in Sale
    BY <2>1, RecordFacts DEF CapsAccounted, Placed
  <2> QED BY <2>2 DEF CapsAccounted, Sale
<1>5. \A e \in S : at[e] \in Live /\ Amounts[e] = bill[at[e]]
  <2> SUFFICES ASSUME NEW e \in S PROVE at[e] \in Live /\ Amounts[e] = bill[at[e]]
    OBVIOUS
  <2>1. at[e] \in Live /\ orders[at[e]].of = e
    BY <1>2 DEF Injection
  <2>2. Amounts[e] = sold[e].amount
    BY SeenFacts, RecordFacts DEF CapsAccounted, Uncancelled
  <2> QED BY <2>1, <2>2
<1>6. \A e, f \in S : at[e] = at[f] => e = f
  BY <1>2
<1>7. SpendToday = Total(bill, Live)
  <2>1. DOMAIN bill = Live
    OBVIOUS
  <2> QED BY <2>1 DEF SpendToday, SumFunction, Total
<1> DEFINE T == {at[e] : e \in S}
<1>8. Total(Amounts, S) = Total(bill, T)
  <2>1. \A e \in S : bill[at[e]] \in Int /\ Amounts[e] = bill[at[e]]
    BY <1>4, <1>5
  <2> HIDE DEF S, bill
  <2> QED BY <1>1, <1>6, <2>1, TotalMoves
<1>9. T \in SUBSET Live
  BY <1>5
<1> HIDE DEF bill, S, T
<1>10. Total(bill, T) <= Total(bill, Live) /\ Total(bill, Live) \in Int
  BY <1>3, <1>4, <1>9, TotalOfPart, TotalType
<1> QED BY <1>7, <1>8, <1>10 DEF S

\* A payment that policy lets through stays under the cap.
LEMMA PolicyCaps ==
  ASSUME NEW ruleset, NEW in, NEW amount \in Int, NEW spend \in Int, ruleset.maxPerDay \in Int,
         ruleset.maxPerDay > 0, EvaluatePayment(ruleset, in, amount, spend) # "DENY"
  PROVE  spend + amount <= ruleset.maxPerDay
<1>1. EvaluateHardAmountCaps(ruleset, amount, spend) # "DENY"
  <2>1. \A verdicts : "DENY" \in verdicts => Worst(verdicts) = "DENY"
    BY DEF Worst
  <2>2. SUFFICES ASSUME EvaluateHardAmountCaps(ruleset, amount, spend) = "DENY" PROVE FALSE
    OBVIOUS
  <2>3. "DENY" \in {EvaluateHardAmountCaps(ruleset, amount, spend),
                    EvaluatePaymentSource(ruleset, in.payment)}
    BY <2>2
  <2> QED BY <2>1, <2>3 DEF EvaluatePayment
<1> QED BY <1>1 DEF EvaluateHardAmountCaps, DenyIf

LEMMA CapsCheck == ASSUME OrdersAccounted, CapsAccounted, NEW c \in Calls, CheckPayment(c)
                   PROVE  CapsAccounted'
<1>1. /\ UNCHANGED <<job, orders, sold, claim, seen, rules>> /\ pc[c] = "policy" /\ Types
      /\ mem[c].offer \in Offers
  BY DEF CheckPayment, Only, rows, shop, history, OrdersAccounted, Call, Execution
<1> DEFINE verdict == EvaluatePayment(rules, Wants[On(c)], FinalPayable(mem[c].offer), SpendToday)
<1>2. CASE verdict = "DENY" \/ verdict = "REQUIRE_APPROVAL"
  <2>1. \E l, m : Keep(c, m, l) /\ l \notin Gated
    BY <1>2 DEF CheckPayment, Move, Stale, Gated
  <2> QED BY <1>1, <2>1, SalesAsTheyWere, CapsKeep
<1>3. CASE verdict # "DENY" /\ Goto(c, "claim")
  <2>1. pc'[c] = "claim" /\ mem'[c] = mem[c] /\ \A d \in Calls \ {c} : pc'[d] = pc[d] /\ mem'[d] = mem[d]
    BY <1>1, <1>3, GotoIsKeep, KeepMoves
  <2>2. FinalPayable(mem[c].offer) \in Int
    BY <1>1, OffersAssumption DEF FinalPayable
  <2>3. CapStays => Capped(c, FinalPayable(mem[c].offer))
    <3> SUFFICES ASSUME CapStays PROVE Capped(c, FinalPayable(mem[c].offer))
      OBVIOUS
    <3>1. rules = job.default /\ job.default.maxPerDay > 0 /\ NothingIsPaidOut
      BY DEF CapStays, CapsAccounted
    <3>2. job.default.maxPerDay \in Int
      BY LimitsAreIntegers DEF OrdersAccounted, Types
    <3>3. SpendToday \in Int /\ Total(Amounts, Uncancelled(seen[c])) <= SpendToday
      BY <3>1, SpendCounts
    <3>4. SpendToday + FinalPayable(mem[c].offer) <= job.default.maxPerDay
      BY <1>3, <2>2, <3>1, <3>2, <3>3, PolicyCaps
    <3>5. Total(Amounts, Uncancelled(seen[c])) \in Int
      BY SalesAsTheyWere, SeenShrinks, <1>1
    <3> QED BY <2>2, <3>2, <3>3, <3>4, <3>5 DEF Capped
  <2>4. IsFiniteSet(Recorded') /\ OnRecord \subseteq OnRecord' /\ LastSawAll'
    BY <1>1, SightsStand
  <2>5. \A d \in Calls : PastGate(d)' => PastGate(d)
    BY <1>1, <2>1 DEF PastGate
  <2>6. CapStays => \A d \in Calls :
         /\ pc'[d] = "claim" => /\ FinalPayable(mem'[d].offer) \in Int
                                /\ Capped(d, FinalPayable(mem'[d].offer))
         /\ claim'[d] # NONE => /\ FinalPayable(claim'[d].terms) \in Int
                                /\ Capped(d, FinalPayable(claim'[d].terms))
    BY <1>1, <2>1, <2>2, <2>3, CapHolds
  <2> QED BY <1>1, <2>4, <2>5, <2>6, SalesAsTheyWere, CapsStand
<1> QED BY <1>2, <1>3 DEF CheckPayment

\* At the gate an execution sees every sale on record; it has none itself yet.
LEMMA CapsGate == ASSUME OrdersAccounted, CapsAccounted, NEW c \in Calls, Gate(c)
                  PROVE  CapsAccounted'
<1>1. /\ UNCHANGED <<job, orders, sold, claim, rules>> /\ pc[c] = "gate" /\ Types /\ Call(c)
      /\ Keep(c, mem[c], IF CheckExecution THEN "approval" ELSE "return")
  BY GotoIsKeep DEF OrdersAccounted, Gate, rows, shop
<1>2. pc'[c] = (IF CheckExecution THEN "approval" ELSE "return")
      /\ \A d \in Calls \ {c} : pc'[d] = pc[d] /\ mem'[d] = mem[d]
  BY <1>1, KeepMoves
<1>3. claim[c] = NONE /\ sold[c] = NONE
  BY <1>1, Standing
<1>4. seen' = [seen EXCEPT ![c] = OnRecord]
  BY DEF Gate, OnRecord, Recorded
<1>5. seen'[c] = OnRecord /\ \A d \in Calls \ {c} : seen'[d] = seen[d]
  BY <1>4 DEF CapsAccounted
<1>6. /\ Recorded' = Recorded /\ OnRecord' = OnRecord /\ Amounts' = Amounts
      /\ \A S : Uncancelled(S)' = Uncancelled(S')
      /\ CapStays' = CapStays /\ ByOp({"limit"})' = ByOp({"limit"})
  BY <1>1 DEF Recorded, OnRecord, Amounts, Uncancelled, CapStays, ByOp, Op, NothingIsPaidOut
<1>7. c \notin OnRecord
  BY <1>3, RecordFacts DEF CapsAccounted, Placed
<1>8. LastSawAll'
  <2> SUFFICES ASSUME NEW T \in SUBSET OnRecord, T # {}, ~Overlapped(T)'
               PROVE  \E e \in T : T \ {e} \subseteq seen'[e]
    BY <1>6 DEF LastSawAll
  <2>1. \A e \in T : e \in Calls \ {c} /\ seen'[e] = seen[e]
    BY <1>5, <1>7, RecordFacts DEF CapsAccounted
  <2>2. ~Overlapped(T)
    BY <2>1 DEF Overlapped
  <2> QED BY <2>1, <2>2 DEF CapsAccounted, LastSawAll
<1>9. seen' \in [Calls -> SUBSET OnRecord]
  BY <1>4 DEF CapsAccounted
<1>10. ASSUME CheckExecution PROVE Cardinality(Uncancelled(OnRecord)) < job.quota
  <2>1. PICK at \in Injection(Uncancelled(OnRecord), Live) : TRUE
    BY LiveCovers
  <2>2. Live \subseteq Recorded
    BY DEF Live, Recorded
  <2>3. IsFiniteSet(Live)
    BY <2>2, FS_Subset DEF CapsAccounted
  <2>4. IsFiniteSet(Uncancelled(OnRecord)) /\ Cardinality(Uncancelled(OnRecord)) <= Cardinality(Live)
    BY <2>1, <2>3, FS_Injection
  <2> QED BY <1>10, <2>3, <2>4, FS_CardinalityType, LimitsAreIntegers
          DEF CheckExecution, OrdersAccounted, Types
<1>11. ASSUME NEW d \in Calls, PastGate(d)' PROVE Cardinality(Uncancelled(seen'[d])) < job.quota
  <2>1. CASE d = c
    <3>1. CheckExecution
      BY <1>1, <1>2, <1>3, <1>11, <2>1 DEF PastGate
    <3> QED BY <1>5, <1>10, <2>1, <3>1
  <2>2. CASE d # c
    BY <1>1, <1>2, <1>5, <1>11, <2>2 DEF PastGate, CapsAccounted
  <2> QED BY <2>1, <2>2
<1>12. ASSUME CapStays, NEW d \in Calls
       PROVE  CapHeld(d)'
  <2>1. CASE d = c
    BY <1>1, <1>2, <1>3, <2>1 DEF CapHeld
  <2>2. CASE d # c
    <3>1. CapHeld(d)
      BY <1>12 DEF CapsAccounted
    <3>2. seen'[d] = seen[d] /\ pc'[d] = pc[d] /\ mem'[d] = mem[d] /\ claim' = claim
      BY <1>1, <1>2, <1>5, <2>2
    <3>3. Total(Amounts, Uncancelled(seen[d]))' = Total(Amounts, Uncancelled(seen[d]))
      BY <1>1, <1>6, <3>2 DEF Uncancelled
    <3> QED BY <1>1, <3>1, <3>2, <3>3 DEF CapHeld, Capped, FinalPayable
  <2> QED BY <2>1, <2>2
<1>13. NothingIsPaidOut' => \A e \in Calls : sold'[e] # NONE => sold'[e].amount >= 0
  BY <1>1 DEF CapsAccounted, NothingIsPaidOut
<1>14. \A d \in Calls : PastGate(d)' => Cardinality(Uncancelled(seen[d])') < job'.quota
  BY <1>1, <1>11 DEF Uncancelled
<1>15. ByOp({"limit"})' = {} => rules' = job'.default
  BY <1>1, <1>6 DEF CapsAccounted
<1> QED BY <1>6, <1>8, <1>9, <1>12, <1>13, <1>14, <1>15 DEF CapsAccounted

LEMMA CapsAtFirst == Init => CapsAccounted
<1> SUFFICES ASSUME Init PROVE CapsAccounted
  OBVIOUS
<1>1. /\ \A c \in Calls : /\ orders[c] = NONE /\ sold[c] = NONE /\ claim[c] = NONE
                          /\ pc[c] \in {"idle", "done"}
      /\ seen = [c \in Calls |-> {}] /\ rules = job.default
  BY DEF Init
<1>2. Recorded = {} /\ OnRecord = {}
  BY <1>1 DEF Recorded, OnRecord
<1>3. IsFiniteSet(Recorded)
  BY <1>2, FS_EmptySet
<1>4. LastSawAll
  BY <1>2 DEF LastSawAll
<1>5. \A c \in Calls : ~PastGate(c) /\ CapHeld(c)
  BY <1>1 DEF PastGate, CapHeld
<1> QED BY <1>1, <1>3, <1>4, <1>5 DEF CapsAccounted

LEMMA CapsStep == OrdersAccounted /\ CapsAccounted /\ [Next]_vars => CapsAccounted'
<1> SUFFICES ASSUME OrdersAccounted, CapsAccounted, [Next]_vars PROVE CapsAccounted'
  OBVIOUS
<1>1. ASSUME NEW c \in Calls, Start(c) PROVE CapsAccounted'
  BY <1>1, CapsAside, CapsLimit DEF Start
<1>2. ASSUME NEW c \in Calls, Step(c) PROVE CapsAccounted'
  BY <1>2, CapsAside, CapsGate, CapsCheck, CapsClaim, CapsCheckout, CapsRecord, CapsCancel, CapsStamp
  DEF Step
<1>3. CASE World \/ UNCHANGED vars
  BY <1>3, CapsWorld, CapsAside DEF World
<1> QED BY <1>1, <1>2, <1>3 DEF Next

\* What the invariant says of what the user pays for.
LEMMA CapsFollow == OrdersAccounted /\ CapsAccounted => CapsNeedOverlap
<1> SUFFICES ASSUME OrdersAccounted, CapsAccounted, ~Overlapped(Charged)
             PROVE  /\ Cardinality(Charged) <= job.quota
                    /\ ByOp({"limit"}) = {} /\ rules.maxPerDay > 0 /\ NothingIsPaidOut /\ PricesStood =>
                         SumFunction([e \in Charged |-> sold[e].amount]) <= rules.maxPerDay
  BY DEF CapsNeedOverlap
<1>1. job.quota \in Nat /\ job.default.maxPerDay \in Int
  BY LimitsAreIntegers DEF OrdersAccounted, Types
<1>2. Charged \subseteq OnRecord /\ \A e \in Charged : sold[e].state # "CANCELLED" /\ e \in Placed
  BY DEF Charged, Live, OnRecord, Recorded
<1>3. /\ IsFiniteSet(Charged)
      /\ \A e \in Charged : e \in Calls /\ claim[e] # NONE /\ Amounts[e] = sold[e].amount /\ Amounts[e] \in Int
  <2>1. IsFiniteSet(OnRecord)
    BY RecordFacts DEF CapsAccounted
  <2> QED BY <1>2, <2>1, RecordFacts, FS_Subset DEF CapsAccounted
<1>4. SumFunction([e \in Charged |-> sold[e].amount]) = Total(Amounts, Charged)
  <2> DEFINE paid == [e \in Charged |-> sold[e].amount]
  <2>1. DOMAIN paid = Charged /\ \A e \in Charged : Amounts[e] \in Int /\ paid[e] = Amounts[e]
    BY <1>3
  <2>2. SumFunction(paid) = Total(paid, Charged)
    BY <2>1 DEF SumFunction, Total
  <2> HIDE DEF paid
  <2>3. Total(paid, Charged) = Total(Amounts, Charged)
    BY <1>3, <2>1, TotalAgrees
  <2> QED BY <2>2, <2>3 DEF paid
<1>5. CASE Charged = {}
  <2>1. Cardinality(Charged) = 0 /\ Total(Amounts, Charged) = 0
    BY <1>5, FS_EmptySet, TotalOfNothing
  <2>2. ByOp({"limit"}) = {} => rules = job.default
    BY DEF CapsAccounted
  <2> QED BY <1>1, <1>4, <2>1, <2>2
<1>6. CASE Charged # {}
  <2>1. PICK e \in Charged : Charged \ {e} \subseteq seen[e]
    BY <1>2, <1>6 DEF CapsAccounted, LastSawAll
  <2> DEFINE others == Charged \ {e}
             owed == Uncancelled(seen[e])
  <2>2. others \in SUBSET owed /\ owed \in SUBSET seen[e] /\ e \in Calls /\ PastGate(e)
    BY <1>2, <1>3, <2>1 DEF Uncancelled, PastGate
  <2>3. /\ IsFiniteSet(owed) /\ IsFiniteSet(others)
        /\ Cardinality(owed) \in Nat /\ Cardinality(others) \in Nat
        /\ Total(Amounts, owed) \in Int /\ Total(Amounts, others) \in Int
    <3>1. owed \in SUBSET seen[e] /\ others \in SUBSET seen[e]
      BY <2>2
    <3> HIDE DEF owed, others
    <3> QED BY <2>2, <3>1, SeenFacts
  <2>4. Cardinality(others) <= Cardinality(owed)
    BY <2>2, <2>3, FS_Subset
  <2>5. Cardinality(Charged) = Cardinality(others) + 1
    <3>1. Cardinality(Charged) \in Nat
      BY <1>3, FS_CardinalityType
    <3>2. Cardinality(Charged \ {e}) = Cardinality(Charged) - 1
      BY <1>3, <2>1, FS_RemoveElement
    <3> QED BY <3>1, <3>2
  <2>6. Cardinality(owed) < job.quota
    BY <2>2 DEF CapsAccounted
  <2>7. Total(Amounts, Charged) = Amounts[e] + Total(Amounts, others)
    BY <1>3, <2>1, TotalOfUnion
  <2>8. ASSUME ByOp({"limit"}) = {}, rules.maxPerDay > 0, NothingIsPaidOut, PricesStood
        PROVE  Total(Amounts, Charged) <= rules.maxPerDay
    <3>1. rules = job.default /\ CapStays
      BY <2>8 DEF CapsAccounted, CapStays
    <3>2. Total(Amounts, owed) + FinalPayable(claim[e].terms) <= job.default.maxPerDay
      BY <1>3, <2>2, <3>1 DEF CapsAccounted, CapHeld, Capped
    <3>3. Amounts[e] = FinalPayable(claim[e].terms) /\ Amounts[e] \in Int
      BY <1>3, <2>8 DEF PricesStood
    <3>4. Total(Amounts, others) <= Total(Amounts, owed)
      <4> HIDE DEF owed, others
      <4> QED BY <2>2, <2>8, SeenFacts
    <3> QED BY <1>1, <2>3, <2>7, <3>1, <3>2, <3>3, <3>4
  <2> QED BY <1>1, <1>4, <2>3, <2>4, <2>5, <2>6, <2>8
<1> QED BY <1>5, <1>6

\* What the executions have seen and passed, and what they may still spend.
THEOREM CapsAreAccounted == Spec => []CapsAccounted
<1>1. Init => CapsAccounted
  BY CapsAtFirst
<1>2. OrdersAccounted /\ CapsAccounted /\ [Next]_vars => CapsAccounted'
  BY CapsStep
<1> QED BY <1>1, <1>2, OrdersAreAccounted, PTL DEF Spec

\* The month's quota and the day's cap are passed only by executions of which neither had
\* the other's order on record when it was let through (order_service.go:168, 199).
THEOREM CapsDoNeedOverlap == Spec => []CapsNeedOverlap
<1>1. OrdersAccounted /\ CapsAccounted => CapsNeedOverlap
  BY CapsFollow
<1> QED BY <1>1, OrdersAreAccounted, CapsAreAccounted, PTL
===============================================================================
