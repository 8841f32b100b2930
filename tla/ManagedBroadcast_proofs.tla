---------------------- MODULE ManagedBroadcast_proofs -----------------------
(* Theorems about ManagedBroadcast, for every set of callers, messages,     *)
(* accounts and fees, every signer and every bound.                         *)
EXTENDS ManagedBroadcast, SequenceTheorems, FiniteSetTheorems, WellFoundedInduction, TLAPS

\* The first of a nonempty set of positions.
LEMMA MinExists ==
    ASSUME NEW S \in SUBSET Nat, S # {}
    PROVE  Min(S) \in S
<1> DEFINE R == {p \in Nat \X Nat : p[1] < p[2]}
<1>1. IsWellFoundedOn(R, Nat)
  BY NatLessThanWellFounded, Zenon DEF OpToRel
<1>2. PICK x \in S : \A y \in S : ~(<<y, x>> \in R)
  <2> HIDE DEF R
  <2> QED
    BY <1>1, WFMin
<1>3. ASSUME NEW y \in S PROVE x <= y
  <2>1. y < x => <<y, x>> \in R
    OBVIOUS
  <2>2. ~(y < x)
    BY <1>2, <2>1
  <2>3. QED
    BY <2>2
<1>4. QED
  BY <1>3 DEF Min

LEMMA RemoveFirstType ==
    ASSUME NEW S, NEW s \in Seq(S), NEW e
    PROVE  RemoveFirst(s, e) \in Seq(S)
<1>1. CASE \E i \in 1..Len(s) : s[i] = e
  <2> DEFINE I == {i \in 1..Len(s) : s[i] = e}
             k == Min(I)
  <2>1. k \in 1..Len(s)
    <3>1. I \in SUBSET Nat /\ I # {}
      BY <1>1
    <3>2. k \in I
      BY <3>1, MinExists
    <3>3. QED
      BY <3>2
  <2>2. RemoveFirst(s, e) = SubSeq(s, 1, k - 1) \o SubSeq(s, k + 1, Len(s))
    BY <1>1 DEF RemoveFirst, RemoveAt, SelectInSeq
  <2>3. SubSeq(s, 1, k - 1) \in Seq(S) /\ SubSeq(s, k + 1, Len(s)) \in Seq(S)
    <3> HIDE DEF k
    <3> QED
      BY <2>1
  <2>4. QED
    <3> HIDE DEF k
    <3> QED
      BY <2>2, <2>3
<1>2. CASE ~ \E i \in 1..Len(s) : s[i] = e
  BY <1>2 DEF RemoveFirst
<1>3. QED
  BY <1>1, <1>2
-----------------------------------------------------------------------------
(* The inductive invariant *)

\* What a key stands for.
KeyBody(k) == <<k.backend, k.account, k.fee, k.msg>>

\* Order i was created under the key of c's current or last call.
MyOrder(c, i) == i \in DOMAIN orders /\ orders[i].key = Key(c, msg[c])

\* A key names one order, and its order is for the body the key was made from.
OrdersInv ==
    /\ \A i \in DOMAIN orders : orders[i].body = KeyBody(orders[i].key)
    /\ \A i, j \in DOMAIN orders : orders[i].key = orders[j].key => i = j

\* A create that outlived its sender belongs to an earlier call, or to one that ended
\* without a refusal.
StrayInv ==
    \A r \in stray :
        /\ r.body = KeyBody(r.key)
        /\ r.call <= calls[r.by]
        /\ r.call = calls[r.by] => /\ pc[r.by] = "idle"
                                   /\ result[r.by].kind \in {"Unconfirmed", "Cancelled"}
                                   /\ r.key = Key(r.by, msg[r.by])

\* The create exchange.
WireInv(c) ==
    /\ pc[c] = "creating" => wire[c].at # "none" /\ given[c] = 0
    /\ pc[c] # "creating" => wire[c] = NoExchange
    /\ wire[c].at = "sent" => ~accepted[c]
    /\ wire[c].at = "answered" =>
         /\ wire[c].id # NONE => MyOrder(c, wire[c].id)
         /\ wire[c].whole => wire[c].id # NONE
         /\ wire[c].status = "rejected" => ~accepted[c]
    /\ accepted[c] => \E i \in DOMAIN orders : MyOrder(c, i)

\* The poll loop.
PollInv(c) ==
    /\ pc[c] # "idle" => msg[c] \in Messages /\ result[c] = NoOutcome
    /\ Polling(c) => /\ MyOrder(c, view[c].id) /\ polls[c] < MaxPolls
                     /\ given[c] = IF approved[c] THEN 1 ELSE 0
    /\ given[c] <= 1

\* The result.
ResultInv(c) ==
    /\ result[c].kind \in {"Ok", "Unconfirmed"} => msg[c] \in Messages
    /\ result[c].kind = "Refused" => ~accepted[c]
    /\ result[c].kind = "Ok" =>
         MyOrder(c, result[c].id) /\ orders[result[c].id].state = "success"
    /\ result[c].kind = "Unconfirmed" =>
         /\ result[c].id # NONE => MyOrder(c, result[c].id)
         /\ result[c].id = NONE => result[c].key = Key(c, msg[c])

CallInv(c) == WireInv(c) /\ PollInv(c) /\ ResultInv(c)

Inv == TypeOK /\ OrdersInv /\ StrayInv /\ \A c \in Callers : CallInv(c)

-----------------------------------------------------------------------------
(* Keys and orders *)

LEMMA KeyType ==
    ASSUME NEW c \in Callers, NEW m \in Messages
    PROVE  /\ Key(c, m) \in Keys /\ Body(c, m) \in Bodies
           /\ Body(c, m) = KeyBody(Key(c, m))
<1>1. SignerOf[c] \in SignerConfig
  BY BroadcastConstants
<1>2. QED
  BY <1>1 DEF SignerConfig, Key, Namespaced, Keys, Body, Bodies, KeyBody

\* The body determines the key.
LEMMA KeyBodyInjective ==
    ASSUME NEW k \in Keys, NEW l \in Keys, KeyBody(k) = KeyBody(l)
    PROVE  k = l
BY DEF Keys, KeyBody

\* Orders are never taken away, re-keyed or changed once they succeeded.
Grows ==
    /\ orders' \in Seq(Order)
    /\ \A i \in DOMAIN orders :
         /\ i \in DOMAIN orders'
         /\ orders'[i].key = orders[i].key
         /\ orders'[i].body = orders[i].body
         /\ orders[i].state = "success" => orders'[i].state = "success"

LEMMA SameOrders ==
    ASSUME TypeOK, OrdersInv, orders' = orders
    PROVE  Grows /\ OrdersInv'
BY DEF TypeOK, Grows, OrdersInv

LEMMA OrderMoves ==
    ASSUME TypeOK, OrdersInv, NEW i \in DOMAIN orders,
           NEW s \in {"pending", "awaiting", "success", "failed"},
           orders[i].state # "success",
           orders' = [orders EXCEPT ![i].state = s]
    PROVE  Grows /\ OrdersInv'
<1> DEFINE o == [orders[i] EXCEPT !.state = s]
<1>1. orders \in Seq(Order) /\ DOMAIN orders = 1..Len(orders) /\ orders[i] \in Order
  BY LenProperties, ElementOfSeq DEF TypeOK
<1>2. /\ o \in Order /\ o.key = orders[i].key /\ o.body = orders[i].body
      /\ orders' = [orders EXCEPT ![i] = o]
  BY <1>1 DEF Order
<1>3. orders' \in Seq(Order) /\ DOMAIN orders' = DOMAIN orders
  <2> HIDE DEF o
  <2> QED
    BY <1>1, <1>2, ExceptSeq
<1>4. \A j \in DOMAIN orders : orders'[j] = IF j = i THEN o ELSE orders[j]
  <2> HIDE DEF o
  <2> QED
    BY <1>1, <1>2
<1>5. \A j \in DOMAIN orders :
        orders'[j].key = orders[j].key /\ orders'[j].body = orders[j].body
  <2> HIDE DEF o
  <2> QED
    BY <1>2, <1>4
<1>6. Grows
  BY <1>3, <1>4, <1>5 DEF Grows
<1>7. OrdersInv'
  BY <1>3, <1>5 DEF OrdersInv
<1>8. QED
  BY <1>6, <1>7

\* The provider's deduplication.
LEMMA OrderAccepted ==
    ASSUME TypeOK, OrdersInv, NEW r \in Requests, r.body = KeyBody(r.key),
           orders' = Accepting(r)
    PROVE  /\ Grows /\ OrdersInv'
           /\ IdOf(r) \in DOMAIN orders' /\ IdOf(r) \in Ids
           /\ orders'[IdOf(r)].key = r.key
<1>1. orders \in Seq(Order) /\ DOMAIN orders = 1..Len(orders) /\ Len(orders) \in Nat
  BY LenProperties DEF TypeOK
<1>2. CASE Known(r) = {}
  <2> DEFINE n == Len(orders) + 1
  <2>1. NewOrder(r) \in Order /\ NewOrder(r).key = r.key /\ NewOrder(r).body = r.body
    BY DEF NewOrder, Order, Requests
  <2>2. orders' = Append(orders, NewOrder(r)) /\ IdOf(r) = n
    BY <1>2 DEF Accepting, IdOf
  <2>3. orders' \in Seq(Order) /\ DOMAIN orders' = 1..n
    BY <1>1, <2>1, <2>2, AppendProperties
  <2>4. orders'[n] = NewOrder(r) /\ \A i \in DOMAIN orders : orders'[i] = orders[i]
    BY <1>1, <2>1, <2>2, AppendProperties
  <2>5. \A i \in DOMAIN orders : orders[i].key # r.key
    BY <1>2 DEF Known
  <2>6. Grows
    BY <1>1, <2>3, <2>4 DEF Grows
  <2>7. \A i \in 1..n : i = n \/ i \in DOMAIN orders
    BY <1>1
  <2>8. OrdersInv'
    <3> HIDE DEF n
    <3> QED
      BY <2>1, <2>3, <2>4, <2>5, <2>7 DEF OrdersInv
  <2>9. QED
    BY <1>1, <2>1, <2>2, <2>3, <2>4, <2>6, <2>8 DEF Ids
<1>3. CASE Known(r) # {}
  <2>1. IdOf(r) \in DOMAIN orders /\ orders[IdOf(r)].key = r.key
    BY <1>3 DEF IdOf, Known
  <2>2. orders' = orders
    BY <1>3 DEF Accepting
  <2>3. QED
    BY <1>1, <2>1, <2>2, SameOrders DEF Ids
<1>4. QED
  BY <1>2, <1>3

-----------------------------------------------------------------------------
(* Calls *)

\* A step that leaves a caller alone keeps its part of the invariant.
Untouched(c) ==
    /\ pc'[c] = pc[c] /\ msg'[c] = msg[c] /\ wire'[c] = wire[c] /\ view'[c] = view[c]
    /\ polls'[c] = polls[c] /\ approved'[c] = approved[c] /\ result'[c] = result[c]
    /\ accepted'[c] = accepted[c] /\ given'[c] = given[c]

LEMMA CallFrame ==
    ASSUME NEW c \in Callers, CallInv(c), Grows, Untouched(c)
    PROVE  CallInv(c)'
<1>1. \A i : MyOrder(c, i) => MyOrder(c, i)'
  BY DEF MyOrder, Grows, Untouched, Key, Namespaced
<1>2. WireInv(c)'
  BY <1>1 DEF CallInv, WireInv, Untouched, MyOrder
<1>3. PollInv(c)'
  BY <1>1 DEF CallInv, PollInv, Polling, Untouched
<1>4. ResultInv(c)'
  BY <1>1 DEF CallInv, ResultInv, Untouched, Grows, MyOrder, Key, Namespaced
<1>5. QED
  BY <1>2, <1>3, <1>4 DEF CallInv

\* The types of a call's own variables.
CallTypes ==
    /\ pc \in [Callers -> {"idle", "creating", "polling"}]
    /\ msg \in [Callers -> Messages \cup {NONE}]
    /\ calls \in [Callers -> 0..MaxCalls]
    /\ wire \in [Callers -> Answers]
    /\ view \in [Callers -> Views]
    /\ polls \in [Callers -> 0..MaxPolls]
    /\ approved \in [Callers -> BOOLEAN]
    /\ result \in [Callers -> Results]

\* Only c's part of the state changes.
OthersUntouched(c) == \A d \in Callers \ {c} : Untouched(d) /\ calls'[d] = calls[d]

\* The result r that a call of c may end with.
Justified(c, r) ==
    /\ r \in Results /\ r.kind # "None"
    /\ r.kind = "Refused" => ~accepted[c]
    /\ r.kind = "Ok" => MyOrder(c, r.id) /\ orders'[r.id].state = "success"
    /\ r.kind = "Unconfirmed" =>
         /\ r.id # NONE => MyOrder(c, r.id)
         /\ r.id = NONE => r.key = Key(c, msg[c])

LEMMA Literals ==
    /\ NoExchange \in Answers /\ NoExchange.at = "none"
    /\ NoView \in Views
    /\ NoOutcome \in Results /\ NoOutcome.kind = "None"
BY BroadcastConstants DEF NoExchange, Answers, NoView, Views, NoOutcome, Outcome, Results

LEMMA CallEnds ==
    ASSUME Inv, NEW c \in Callers, NEW r, EndCall(c, r), Justified(c, r), Grows,
           pc[c] # "idle", accepted' = accepted,
           given'[c] \in 0..1, \A d \in Callers \ {c} : given'[d] = given[d]
    PROVE  /\ CallInv(c)' /\ CallTypes' /\ OthersUntouched(c) /\ calls' = calls
           /\ pc'[c] = "idle" /\ result'[c] = r /\ msg' = msg
<1>1. CallTypes'
  BY Literals, BroadcastConstants DEF Inv, TypeOK, CallTypes, EndCall, Justified
<1>2. /\ pc'[c] = "idle" /\ result'[c] = r /\ wire'[c] = NoExchange
      /\ msg' = msg /\ calls' = calls
  BY DEF Inv, TypeOK, EndCall
<1>3. OthersUntouched(c)
  BY DEF Inv, TypeOK, EndCall, OthersUntouched, Untouched
<1>4. \A i : MyOrder(c, i) => MyOrder(c, i)'
  BY <1>2 DEF MyOrder, Grows, Key, Namespaced
<1>5. msg[c] \in Messages /\ (accepted[c] => \E i \in DOMAIN orders : MyOrder(c, i))
  BY DEF Inv, CallInv, PollInv, WireInv
<1>6. WireInv(c)'
  BY <1>2, <1>4, <1>5, Literals DEF WireInv, MyOrder
<1>7. PollInv(c)'
  BY <1>2 DEF PollInv, Polling
<1>8. ResultInv(c)'
  BY <1>2, <1>4, <1>5 DEF ResultInv, Justified, MyOrder, Key, Namespaced
<1>9. QED
  BY <1>1, <1>2, <1>3, <1>6, <1>7, <1>8 DEF CallInv

\* Nothing but an own, later call changes what a stray create is compared with.
LEMMA StrayFrame ==
    ASSUME Inv, NEW c \in Callers, stray' = stray, OthersUntouched(c),
           \/ pc[c] # "idle" /\ calls'[c] = calls[c]
           \/ calls'[c] = calls[c] + 1
    PROVE  StrayInv'
<1> SUFFICES ASSUME NEW r \in stray
             PROVE  /\ r.body = KeyBody(r.key)
                    /\ r.call <= calls'[r.by]
                    /\ r.call = calls'[r.by] =>
                         /\ pc'[r.by] = "idle"
                         /\ result'[r.by].kind \in {"Unconfirmed", "Cancelled"}
                         /\ r.key = Key(r.by, msg'[r.by])
  BY DEF StrayInv
<1>1. r \in Requests /\ r.by \in Callers /\ r.call \in Nat /\ calls[r.by] \in Nat
  BY BroadcastConstants DEF Inv, TypeOK, Requests
<1>2. /\ r.body = KeyBody(r.key) /\ r.call <= calls[r.by]
      /\ r.call = calls[r.by] => /\ pc[r.by] = "idle"
                                 /\ result[r.by].kind \in {"Unconfirmed", "Cancelled"}
                                 /\ r.key = Key(r.by, msg[r.by])
  BY DEF Inv, StrayInv
<1>3. CASE r.by = c
  BY <1>1, <1>2, <1>3
<1>4. CASE r.by # c
  BY <1>1, <1>2, <1>4 DEF OthersUntouched, Untouched
<1>5. QED
  BY <1>3, <1>4

\* A call that ends may leave its create behind.
LEMMA StrayLeft ==
    ASSUME Inv, NEW c \in Callers, LeaveBehind(c), OthersUntouched(c),
           pc[c] # "idle", calls' = calls, msg' = msg, pc'[c] = "idle",
           result'[c].kind \in {"Unconfirmed", "Cancelled"}
    PROVE  StrayInv' /\ stray' \in SUBSET Requests
<1>1. msg[c] \in Messages
  BY DEF Inv, CallInv, PollInv
<1>2. /\ Request(c) \in Requests /\ Request(c).by = c /\ Request(c).call = calls[c]
      /\ Request(c).body = KeyBody(Request(c).key) /\ Request(c).key = Key(c, msg[c])
  BY <1>1, KeyType DEF Request, Requests, Inv, TypeOK
<1>3. stray' \subseteq stray \cup {Request(c)}
  BY DEF LeaveBehind
<1>4. SUFFICES ASSUME NEW r \in stray'
               PROVE  /\ r.body = KeyBody(r.key)
                      /\ r.call <= calls'[r.by]
                      /\ r.call = calls'[r.by] =>
                           /\ pc'[r.by] = "idle"
                           /\ result'[r.by].kind \in {"Unconfirmed", "Cancelled"}
                           /\ r.key = Key(r.by, msg'[r.by])
  BY <1>2, <1>3 DEF StrayInv, Inv, TypeOK
<1>5. CASE r = Request(c)
  BY <1>2, <1>5, BroadcastConstants DEF Inv, TypeOK
<1>6. CASE r \in stray
  <2>1. r.by \in Callers
    BY <1>6 DEF Inv, TypeOK, Requests
  <2>2. /\ r.body = KeyBody(r.key) /\ r.call <= calls[r.by]
        /\ r.call = calls[r.by] => /\ pc[r.by] = "idle"
                                   /\ result[r.by].kind \in {"Unconfirmed", "Cancelled"}
                                   /\ r.key = Key(r.by, msg[r.by])
    BY <1>6 DEF Inv, StrayInv
  <2>3. QED
    BY <2>1, <2>2 DEF OthersUntouched, Untouched
<1>7. QED
  BY <1>3, <1>5, <1>6

LEMMA Combine ==
    ASSUME Inv, NEW c \in Callers, OthersUntouched(c), CallInv(c)', TypeOK', StrayInv',
           Grows, OrdersInv'
    PROVE  Inv'
<1>1. ASSUME NEW d \in Callers \ {c}
      PROVE  CallInv(d)'
  BY CallFrame DEF Inv, OthersUntouched
<1>2. QED
  BY <1>1 DEF Inv

LEMMA AfterCreateJustified ==
    ASSUME Inv, NEW c \in Callers, NEW id \in Ids, pc[c] # "idle", MyOrder(c, id)
    PROVE  Justified(c, AfterCreate(c, id))
<1>1. msg[c] \in Messages
  BY DEF Inv, CallInv, PollInv
<1>2. Key(c, msg[c]) \in Keys
  BY <1>1, KeyType
<1>3. AfterCreate(c, id) \in Results
  BY <1>2 DEF AfterCreate, Outcome, Results
<1>4. /\ AfterCreate(c, id).kind = "Unconfirmed"
      /\ AfterCreate(c, id).id = id /\ id # NONE
  BY BroadcastConstants DEF AfterCreate, Outcome, Ids
<1>5. QED
  BY <1>3, <1>4 DEF Justified

\* Whatever a response shows, the call goes on polling its own order or ends with a
\* result that is justified.
LEMMA Settles ==
    ASSUME Inv, NEW c \in Callers, NEW id \in Ids, NEW n \in 0..MaxPolls,
           NEW s \in {"unread", "pending", "awaiting", "success", "failed"},
           NEW approval \in BOOLEAN, NEW ids \in Seq(Ids),
           Settle(c, id, s, n, approval, ids), Grows,
           pc[c] # "idle", MyOrder(c, id), s = "success" => orders'[id].state = "success",
           accepted' = accepted, given'[c] = IF approval THEN 1 ELSE 0,
           \A d \in Callers \ {c} : given'[d] = given[d]
    PROVE  /\ CallInv(c)' /\ CallTypes' /\ OthersUntouched(c) /\ calls' = calls
           /\ pending' \in Seq(Ids)
<1>1. ClearPending(c, id, ids) \in Seq(Ids)
  BY RemoveFirstType DEF ClearPending
<1>2. given'[c] \in 0..1
  OBVIOUS
<1>3. CASE /\ s = "success"
           /\ \E e \in Evidence : EndCall(c, Extract(c, id, e))
           /\ pending' = ClearPending(c, id, ids)
  <2>1. PICK e \in Evidence : EndCall(c, Extract(c, id, e))
    BY <1>3
  <2>2. \A b \in BOOLEAN : Justified(c, Landed(id, b))
    BY <1>3 DEF Landed, Results, Justified
  <2>3. Justified(c, Extract(c, id, e))
    BY <2>2, AfterCreateJustified DEF Extract
  <2>4. QED
    BY <1>1, <1>2, <1>3, <2>1, <2>3, CallEnds
<1>4. CASE EndCall(c, AfterCreate(c, id)) /\ pending' = ClearPending(c, id, ids)
  BY <1>1, <1>2, <1>4, AfterCreateJustified, CallEnds
<1>5. CASE /\ s \notin {"success", "failed"} /\ n < MaxPolls
           /\ pc' = [pc EXCEPT ![c] = "polling"]
           /\ wire' = [wire EXCEPT ![c] = NoExchange]
           /\ view' = [view EXCEPT ![c] = [id |-> id, state |-> s]]
           /\ polls' = [polls EXCEPT ![c] = n]
           /\ approved' = [approved EXCEPT ![c] = approval]
           /\ pending' = ids
           /\ UNCHANGED <<msg, calls, result>>
  <2>1. CallTypes'
    BY <1>5, Literals DEF Inv, TypeOK, CallTypes, Views
  <2>2. OthersUntouched(c)
    BY <1>5 DEF Inv, TypeOK, OthersUntouched, Untouched
  <2>3. /\ pc'[c] = "polling" /\ wire'[c] = NoExchange /\ view'[c].id = id
        /\ polls'[c] = n /\ approved'[c] = approval /\ msg' = msg /\ result' = result
    BY <1>5 DEF Inv, TypeOK
  <2>4. \A i : MyOrder(c, i) => MyOrder(c, i)'
    BY <2>3 DEF MyOrder, Grows, Key, Namespaced
  <2>5. /\ msg[c] \in Messages /\ result[c] = NoOutcome
        /\ (accepted[c] => \E i \in DOMAIN orders : MyOrder(c, i))
    BY DEF Inv, CallInv, PollInv, WireInv
  <2>6. WireInv(c)'
    BY <2>3, <2>4, <2>5, Literals DEF WireInv, MyOrder
  <2>7. PollInv(c)'
    BY <1>5, <2>3, <2>4, <2>5 DEF PollInv, Polling
  <2>8. ResultInv(c)'
    BY <2>3, <2>5, Literals DEF ResultInv
  <2>9. QED
    BY <1>5, <2>1, <2>2, <2>6, <2>7, <2>8 DEF CallInv
<1>6. QED
  BY <1>3, <1>4, <1>5 DEF Settle

\* TypeOK from its parts.
LEMMA TypesTogether ==
    ASSUME CallTypes', orders' \in Seq(Order), stray' \in SUBSET Requests,
           pending' \in Seq(Ids), accepted' \in [Callers -> BOOLEAN],
           given' \in [Callers -> Nat], abandoned' \in Seq(Ids)
    PROVE  TypeOK'
BY DEF TypeOK, CallTypes

-----------------------------------------------------------------------------
(* Actions *)

LEMMA RefuseInputStep ==
    ASSUME Inv, NEW c \in Callers, RefuseInput(c)
    PROVE  Inv'
<1>1. Grows /\ OrdersInv'
  BY SameOrders DEF Inv, RefuseInput, providerVars
<1>2. Outcome("Refused", NONE, NONE) \in Results /\ Outcome("Refused", NONE, NONE).kind = "Refused"
  BY DEF Outcome, Results
<1>3. TypeOK'
  BY <1>2, BroadcastConstants DEF Inv, TypeOK, RefuseInput, providerVars
<1>4. OthersUntouched(c) /\ calls'[c] = calls[c] + 1 /\ stray' = stray
  BY DEF Inv, TypeOK, RefuseInput, OthersUntouched, Untouched, providerVars
<1>5. StrayInv'
  BY <1>4, StrayFrame
<1>6. /\ pc'[c] = "idle" /\ wire'[c] = NoExchange /\ ~accepted'[c] /\ given'[c] <= 1
      /\ result'[c].kind = "Refused"
  BY <1>2 DEF Inv, TypeOK, CallInv, WireInv, PollInv, RefuseInput
<1>7. CallInv(c)'
  BY <1>6, Literals DEF CallInv, WireInv, PollInv, ResultInv, Polling
<1>8. QED
  BY <1>1, <1>3, <1>4, <1>5, <1>7, Combine

LEMMA PostStep ==
    ASSUME Inv, NEW c \in Callers, Post(c)
    PROVE  Inv'
<1>1. Grows /\ OrdersInv'
  BY SameOrders DEF Inv, Post, providerVars
<1>2. Sent \in Answers /\ Sent.at = "sent"
  BY BroadcastConstants DEF Sent, NoExchange, Answers
<1>3. TypeOK'
  BY <1>2, Literals, BroadcastConstants DEF Inv, TypeOK, Post, providerVars
<1>4. OthersUntouched(c) /\ calls'[c] = calls[c] + 1 /\ stray' = stray
  BY DEF Inv, TypeOK, Post, OthersUntouched, Untouched, providerVars
<1>5. StrayInv'
  BY <1>4, StrayFrame
<1>6. /\ pc'[c] = "creating" /\ wire'[c] = Sent /\ ~accepted'[c] /\ given'[c] = 0
      /\ result'[c] = NoOutcome /\ msg'[c] \in Messages
  BY DEF Inv, TypeOK, Post
<1>7. CallInv(c)'
  BY <1>2, <1>6, Literals DEF CallInv, WireInv, PollInv, ResultInv, Polling
<1>8. QED
  BY <1>1, <1>3, <1>4, <1>5, <1>7, Combine

LEMMA CreateAcceptedStep ==
    ASSUME Inv, NEW c \in Callers, CreateAccepted(c)
    PROVE  Inv'
<1> DEFINE id == wire[c].id
           s == IF Crossmint(c) THEN orders[id].state ELSE "unread"
<1>1. Grows /\ OrdersInv' /\ orders' = orders /\ stray' = stray
      /\ accepted' = accepted /\ given' = given /\ abandoned' = abandoned
  BY SameOrders DEF Inv, CreateAccepted, providerVars, historyVars
<1>2. pc[c] = "creating" /\ MyOrder(c, id) /\ id # NONE /\ given[c] = 0
  BY DEF Inv, CallInv, WireInv, CreateAccepted
<1>3. id \in Ids
  BY <1>2 DEF Inv, TypeOK, Answers
<1>4. orders[id] \in Order
  BY <1>2, ElementOfSeq, LenProperties DEF MyOrder, Inv, TypeOK
<1>5. s \in {"unread", "pending", "awaiting", "success", "failed"}
      /\ (s = "success" => orders'[id].state = "success")
  BY <1>1, <1>4 DEF Order
<1>6. SetPending(c, id) \in Seq(Ids)
  BY <1>3, AppendProperties DEF SetPending, Inv, TypeOK
<1>7. Settle(c, id, s, 0, FALSE, SetPending(c, id))
  BY Zenon DEF CreateAccepted
<1>n. 0 \in 0..MaxPolls
  BY BroadcastConstants
<1>8. /\ CallInv(c)' /\ CallTypes' /\ OthersUntouched(c) /\ calls' = calls
      /\ pending' \in Seq(Ids)
  <2>1. /\ pc[c] # "idle" /\ given'[c] = IF FALSE THEN 1 ELSE 0
        /\ \A d \in Callers \ {c} : given'[d] = given[d]
    BY <1>1, <1>2
  <2> HIDE DEF id, s
  <2>2. QED
    BY <1>1, <1>2, <1>3, <1>5, <1>6, <1>7, <1>n, <2>1, Settles
<1>9. TypeOK'
  BY <1>1, <1>8, TypesTogether DEF Inv, TypeOK
<1>10. StrayInv'
  BY <1>1, <1>2, <1>8, StrayFrame
<1>11. QED
  BY <1>1, <1>8, <1>9, <1>10, Combine

LEMMA CreateFailsStep ==
    ASSUME Inv, NEW c \in Callers, CreateFails(c)
    PROVE  Inv'
<1> DEFINE r == UnconfirmedUnlessRejected(c, wire[c])
<1>1. /\ Grows /\ OrdersInv' /\ orders' = orders /\ stray' = stray /\ pending' = pending
      /\ accepted' = accepted /\ given' = given /\ abandoned' = abandoned
  BY SameOrders DEF Inv, CreateFails, providerVars, historyVars
<1>2. /\ pc[c] = "creating" /\ given[c] = 0 /\ msg[c] \in Messages /\ wire[c] \in Answers
      /\ wire[c].id # NONE => MyOrder(c, wire[c].id)
      /\ wire[c].status = "rejected" => ~accepted[c]
  BY DEF Inv, TypeOK, CallInv, WireInv, PollInv, CreateFails
<1>3. Key(c, msg[c]) \in Keys
  BY <1>2, KeyType
<1>4. Justified(c, r)
  <2>1. CASE wire[c].status = "rejected"
    BY <1>2, <2>1 DEF UnconfirmedUnlessRejected, Outcome, Results, Justified
  <2>2. CASE wire[c].status # "rejected"
    BY <1>2, <1>3, <2>2 DEF UnconfirmedUnlessRejected, Outcome, Results, Justified, Answers
  <2>3. QED
    BY <2>1, <2>2
<1>5. EndCall(c, r)
  BY DEF CreateFails
<1>6. CallInv(c)' /\ CallTypes' /\ OthersUntouched(c) /\ calls' = calls
  <2>1. /\ pc[c] # "idle" /\ given'[c] \in 0..1
        /\ \A d \in Callers \ {c} : given'[d] = given[d]
    BY <1>1, <1>2
  <2> HIDE DEF r
  <2>2. QED
    BY <1>1, <1>4, <1>5, <2>1, CallEnds
<1>7. TypeOK'
  BY <1>1, <1>6, TypesTogether DEF Inv, TypeOK
<1>8. StrayInv'
  BY <1>1, <1>2, <1>6, StrayFrame
<1>9. QED
  BY <1>1, <1>6, <1>7, <1>8, Combine

LEMMA CreateLostStep ==
    ASSUME Inv, NEW c \in Callers, CreateLost(c)
    PROVE  Inv'
<1> DEFINE r == Outcome("Unconfirmed", NONE, Key(c, msg[c]))
<1>1. /\ Grows /\ OrdersInv' /\ orders' = orders /\ pending' = pending
      /\ accepted' = accepted /\ given' = given /\ abandoned' = abandoned
  BY SameOrders DEF Inv, CreateLost, historyVars
<1>2. pc[c] = "creating" /\ given[c] = 0 /\ msg[c] \in Messages
  BY DEF Inv, CallInv, WireInv, PollInv, CreateLost
<1>3. Key(c, msg[c]) \in Keys
  BY <1>2, KeyType
<1>4. Justified(c, r) /\ r.kind = "Unconfirmed"
  BY <1>3 DEF Outcome, Results, Justified
<1>5. EndCall(c, r) /\ LeaveBehind(c)
  BY DEF CreateLost
<1>6. /\ CallInv(c)' /\ CallTypes' /\ OthersUntouched(c) /\ calls' = calls
      /\ pc'[c] = "idle" /\ result'[c] = r /\ msg' = msg
  <2>1. /\ pc[c] # "idle" /\ given'[c] \in 0..1
        /\ \A d \in Callers \ {c} : given'[d] = given[d]
    BY <1>1, <1>2
  <2> HIDE DEF r
  <2>2. QED
    BY <1>1, <1>4, <1>5, <2>1, CallEnds
<1>7. StrayInv' /\ stray' \in SUBSET Requests
  <2> HIDE DEF r
  <2> QED
    BY <1>2, <1>4, <1>5, <1>6, StrayLeft
<1>8. TypeOK'
  BY <1>1, <1>6, <1>7, TypesTogether DEF Inv, TypeOK
<1>9. QED
  BY <1>1, <1>6, <1>7, <1>8, Combine

LEMMA CancelStep ==
    ASSUME Inv, NEW c \in Callers, Cancel(c)
    PROVE  Inv'
<1> DEFINE r == Outcome("Cancelled", NONE, NONE)
<1>1. /\ Grows /\ OrdersInv' /\ orders' = orders /\ pending' = pending
      /\ accepted' = accepted /\ given' = given
  BY SameOrders DEF Inv, Cancel
<1>2. pc[c] # "idle" /\ given[c] \in 0..1
  BY DEF Inv, TypeOK, CallInv, PollInv, Cancel
<1>3. Justified(c, r) /\ r.kind = "Cancelled"
  BY DEF Outcome, Results, Justified
<1>4. EndCall(c, r) /\ LeaveBehind(c)
  BY DEF Cancel
<1>5. abandoned' \in Seq(Ids)
  <2>1. Polling(c) => view[c].id \in Ids
    BY LenProperties DEF Inv, TypeOK, CallInv, PollInv, MyOrder, Ids
  <2>2. QED
    BY <2>1, AppendProperties DEF Cancel, Inv, TypeOK
<1>6. /\ CallInv(c)' /\ CallTypes' /\ OthersUntouched(c) /\ calls' = calls
      /\ pc'[c] = "idle" /\ result'[c] = r /\ msg' = msg
  <2>1. given'[c] \in 0..1 /\ \A d \in Callers \ {c} : given'[d] = given[d]
    BY <1>1, <1>2
  <2> HIDE DEF r
  <2>2. QED
    BY <1>1, <1>2, <1>3, <1>4, <2>1, CallEnds
<1>7. StrayInv' /\ stray' \in SUBSET Requests
  <2> HIDE DEF r
  <2> QED
    BY <1>2, <1>3, <1>4, <1>6, StrayLeft
<1>8. TypeOK'
  BY <1>1, <1>5, <1>6, <1>7, TypesTogether DEF Inv, TypeOK
<1>9. QED
  BY <1>1, <1>6, <1>7, <1>8, Combine

\* What the poll loop knows of its order.
LEMMA PollFacts ==
    ASSUME Inv, NEW c \in Callers, Polling(c)
    PROVE  /\ pc[c] # "idle" /\ view[c].id \in DOMAIN orders /\ view[c].id \in Ids
           /\ MyOrder(c, view[c].id) /\ orders[view[c].id] \in Order
           /\ polls[c] + 1 \in 0..MaxPolls
           /\ given[c] = IF approved[c] THEN 1 ELSE 0
           /\ approved[c] \in BOOLEAN
<1>1. MyOrder(c, view[c].id) /\ polls[c] < MaxPolls /\ given[c] = IF approved[c] THEN 1 ELSE 0
  BY DEF Inv, CallInv, PollInv
<1>2. view[c].id \in DOMAIN orders
  BY <1>1 DEF MyOrder
<1>3. view[c].id \in Ids /\ orders[view[c].id] \in Order
  BY <1>2, LenProperties, ElementOfSeq DEF Ids, Inv, TypeOK
<1>4. polls[c] \in 0..MaxPolls /\ approved[c] \in BOOLEAN
  BY DEF Inv, TypeOK
<1>5. QED
  BY <1>1, <1>2, <1>3, <1>4, BroadcastConstants DEF Polling

LEMMA ReadOrderStep ==
    ASSUME Inv, NEW c \in Callers, ReadOrder(c)
    PROVE  Inv'
<1> DEFINE id == view[c].id
           s == orders[id].state
<1>1. /\ Grows /\ OrdersInv' /\ orders' = orders /\ stray' = stray
      /\ accepted' = accepted /\ given' = given /\ abandoned' = abandoned
  BY SameOrders DEF Inv, ReadOrder, providerVars, historyVars
<1>2. Polling(c)
  BY DEF ReadOrder
<1>3. s \in {"unread", "pending", "awaiting", "success", "failed"}
      /\ (s = "success" => orders'[id].state = "success")
  BY <1>1, <1>2, PollFacts DEF Order
<1>4. Settle(c, id, s, polls[c] + 1, approved[c], pending)
  BY DEF ReadOrder
<1>5. /\ CallInv(c)' /\ CallTypes' /\ OthersUntouched(c) /\ calls' = calls
      /\ pending' \in Seq(Ids)
  <2>1. given'[c] = IF approved[c] THEN 1 ELSE 0
    BY <1>1, <1>2, PollFacts
  <2>2. pending \in Seq(Ids) /\ \A d \in Callers \ {c} : given'[d] = given[d]
    BY <1>1 DEF Inv, TypeOK
  <2>3. id \in Ids /\ MyOrder(c, id)
    BY <1>2, PollFacts
  <2> HIDE DEF id, s
  <2>4. QED
    BY <1>1, <1>2, <1>3, <1>4, <2>1, <2>2, <2>3, PollFacts, Settles
<1>6. TypeOK'
  BY <1>1, <1>5, TypesTogether DEF Inv, TypeOK
<1>7. StrayInv'
  BY <1>1, <1>2, <1>5, PollFacts, StrayFrame
<1>8. QED
  BY <1>1, <1>5, <1>6, <1>7, Combine

\* The end of a call whose exchange failed.
LEMMA FailedExchange ==
    ASSUME Inv, NEW c \in Callers, Polling(c), ExchangeFails(c), Grows, accepted' = accepted,
           given'[c] \in 0..1, \A d \in Callers \ {c} : given'[d] = given[d]
    PROVE  /\ CallInv(c)' /\ CallTypes' /\ OthersUntouched(c) /\ calls' = calls
           /\ pending' \in Seq(Ids)
<1>1. Justified(c, AfterCreate(c, view[c].id))
  BY PollFacts, AfterCreateJustified
<1>2. pending' \in Seq(Ids)
  BY RemoveFirstType DEF ExchangeFails, ClearPending, Inv, TypeOK
<1>3. EndCall(c, AfterCreate(c, view[c].id)) /\ pc[c] # "idle"
  BY PollFacts DEF ExchangeFails
<1>4. QED
  BY <1>1, <1>2, <1>3, CallEnds

LEMMA PollFailsStep ==
    ASSUME Inv, NEW c \in Callers, PollFails(c)
    PROVE  Inv'
<1>1. /\ Grows /\ OrdersInv' /\ orders' = orders /\ stray' = stray
      /\ accepted' = accepted /\ given' = given /\ abandoned' = abandoned
  BY SameOrders DEF Inv, PollFails, providerVars, historyVars
<1>2. Polling(c) /\ ExchangeFails(c)
  BY DEF PollFails
<1>3. given'[c] \in 0..1 /\ \A d \in Callers \ {c} : given'[d] = given[d]
  BY <1>1 DEF Inv, TypeOK, CallInv, PollInv
<1>4. /\ CallInv(c)' /\ CallTypes' /\ OthersUntouched(c) /\ calls' = calls
      /\ pending' \in Seq(Ids)
  BY <1>1, <1>2, <1>3, FailedExchange
<1>5. TypeOK'
  BY <1>1, <1>4, TypesTogether DEF Inv, TypeOK
<1>6. StrayInv'
  BY <1>1, <1>2, <1>4, PollFacts, StrayFrame
<1>7. QED
  BY <1>1, <1>4, <1>5, <1>6, Combine

LEMMA SubmitApprovalStep ==
    ASSUME Inv, NEW c \in Callers, SubmitApproval(c)
    PROVE  Inv'
<1> DEFINE id == view[c].id
           s == orders'[id].state
<1>1. Polling(c) /\ ~approved[c] /\ stray' = stray /\ accepted' = accepted /\ abandoned' = abandoned
  BY DEF SubmitApproval, Approving
<1>2. Grows /\ OrdersInv'
  <2>1. CASE orders' = orders
    BY <2>1, SameOrders DEF Inv
  <2>2. CASE /\ orders[id].state = "awaiting"
             /\ orders' = [orders EXCEPT ![id].state = "pending"]
    BY <1>1, <2>2, PollFacts, OrderMoves DEF Inv
  <2>3. QED
    BY <2>1, <2>2 DEF SubmitApproval
<1>3. given' \in [Callers -> Nat] /\ given'[c] = 1 /\ \A d \in Callers \ {c} : given'[d] = given[d]
  <2>1. given[c] = 0
    BY <1>1, PollFacts
  <2>2. QED
    BY <2>1 DEF SubmitApproval, Inv, TypeOK
<1>4. /\ CallInv(c)' /\ CallTypes' /\ OthersUntouched(c) /\ calls' = calls
      /\ pending' \in Seq(Ids)
  <2>1. CASE ExchangeFails(c)
    BY <1>1, <1>2, <1>3, <2>1, FailedExchange
  <2>2. CASE Settle(c, id, s, polls[c] + 1, TRUE, pending)
    <3>1. id \in DOMAIN orders' /\ orders' \in Seq(Order)
      BY <1>1, <1>2, PollFacts DEF Grows
    <3>o. orders'[id] \in Order
      <4>1. id \in 1..Len(orders')
        BY <3>1
      <4>2. QED
        BY <3>1, <4>1, ElementOfSeq
    <3>2. PICK t : t = s /\ t \in {"unread", "pending", "awaiting", "success", "failed"}
      BY <3>o DEF Order
    <3>3. pending \in Seq(Ids) /\ id \in Ids /\ MyOrder(c, id)
      BY <1>1, PollFacts DEF Inv, TypeOK
    <3>4. given'[c] = IF TRUE THEN 1 ELSE 0
      BY <1>3
    <3>5. /\ t = "success" => orders'[id].state = "success"
          /\ Settle(c, id, t, polls[c] + 1, TRUE, pending)
      BY <2>2, <3>2
    <3>6. pc[c] # "idle" /\ polls[c] + 1 \in 0..MaxPolls
      BY <1>1, PollFacts
    <3>7. accepted' = accepted /\ \A d \in Callers \ {c} : given'[d] = given[d]
      BY <1>1, <1>3
    <3> HIDE DEF id, s
    <3>8. QED
      BY <1>2, <3>2, <3>3, <3>4, <3>5, <3>6, <3>7, Settles
  <2>3. QED
    BY <2>1, <2>2 DEF SubmitApproval, ApprovalSubmitted
<1>5. TypeOK'
  BY <1>1, <1>2, <1>3, <1>4, TypesTogether DEF Inv, TypeOK, Grows
<1>6. StrayInv'
  BY <1>1, <1>4, PollFacts, StrayFrame
<1>7. QED
  BY <1>2, <1>4, <1>5, <1>6, Combine

\* Only a call that waits for its create has an exchange to answer.
LEMMA SentFacts ==
    ASSUME Inv, NEW c \in Callers, wire[c].at = "sent"
    PROVE  /\ pc[c] = "creating" /\ ~accepted[c] /\ given[c] = 0 /\ msg[c] \in Messages
           /\ result[c] = NoOutcome
           /\ Request(c) \in Requests /\ Request(c).body = KeyBody(Request(c).key)
           /\ Request(c).key = Key(c, msg[c])
<1>1. pc[c] = "creating" /\ ~accepted[c] /\ given[c] = 0 /\ msg[c] \in Messages /\ result[c] = NoOutcome
  BY Literals DEF Inv, CallInv, WireInv, PollInv
<1>2. QED
  BY <1>1, KeyType DEF Request, Requests, Inv, TypeOK

\* An answer that agrees with what the provider did.
LEMMA Answered ==
    ASSUME Inv, NEW c \in Callers, wire[c].at = "sent", Grows, OrdersInv', stray' = stray,
           NEW status \in {"ok", "rejected", "timeout", "server"},
           NEW id \in Ids \cup {NONE}, NEW whole \in BOOLEAN,
           Answer(c, status, id, whole),
           id # NONE => id \in DOMAIN orders' /\ orders'[id].key = Key(c, msg[c]),
           whole => id # NONE,
           accepted' \in [Callers -> BOOLEAN],
           \A d \in Callers \ {c} : accepted'[d] = accepted[d],
           accepted'[c] => /\ status # "rejected"
                           /\ \E i \in DOMAIN orders' : orders'[i].key = Key(c, msg[c]),
           UNCHANGED <<pc, msg, calls, view, polls, approved, result, pending, given, abandoned>>
    PROVE  Inv'
<1> DEFINE w == [at |-> "answered", status |-> status, id |-> id, whole |-> whole]
<1>1. w \in Answers
  BY DEF Answers
<1>2. wire' \in [Callers -> Answers] /\ wire'[c] = w /\ \A d \in Callers \ {c} : wire'[d] = wire[d]
  BY <1>1 DEF Answer, Inv, TypeOK
<1>3. TypeOK'
  BY <1>2 DEF Inv, TypeOK, Grows
<1>4. OthersUntouched(c)
  BY <1>2 DEF OthersUntouched, Untouched
<1>5. StrayInv'
  BY <1>4, SentFacts, StrayFrame
<1>6. WireInv(c)'
  BY <1>2, SentFacts DEF WireInv, MyOrder, Key, Namespaced
<1>7. PollInv(c)' /\ ResultInv(c)'
  BY SentFacts, Literals DEF PollInv, ResultInv, Polling
<1>8. QED
  BY <1>3, <1>4, <1>5, <1>6, <1>7, Combine DEF CallInv

LEMMA AcceptStep ==
    ASSUME Inv, NEW c \in Callers, Accept(c)
    PROVE  Inv'
<1> DEFINE i == IdOf(Request(c))
<1>1. wire[c].at = "sent" /\ orders' = Accepting(Request(c)) /\ stray' = stray
      /\ UNCHANGED <<pc, msg, calls, view, polls, approved, result, pending, given, abandoned>>
  BY DEF Accept
<1>2. /\ Grows /\ OrdersInv' /\ i \in DOMAIN orders' /\ i \in Ids
      /\ orders'[i].key = Key(c, msg[c])
  BY <1>1, SentFacts, OrderAccepted DEF Inv
<1>3. accepted' \in [Callers -> BOOLEAN] /\ \A d \in Callers \ {c} : accepted'[d] = accepted[d]
  BY DEF Accept, Inv, TypeOK
<1>4. PICK status \in {"ok", "timeout", "server"}, id \in {i, NONE}, whole \in BOOLEAN :
        Answer(c, status, id, whole) /\ (whole => id = i)
  BY DEF Accept
<1>5. i # NONE
  BY <1>2, BroadcastConstants DEF Ids
<1>6. QED
  <2> HIDE DEF i
  <2> QED
    BY <1>1, <1>2, <1>3, <1>4, <1>5, Answered

LEMMA RejectStep ==
    ASSUME Inv, NEW c \in Callers, Reject(c)
    PROVE  Inv'
<1>1. PICK status \in {"rejected", "timeout", "server"} : Answer(c, status, NONE, FALSE)
  BY DEF Reject
<1>2. /\ wire[c].at = "sent" /\ orders' = orders /\ stray' = stray /\ accepted' = accepted
      /\ UNCHANGED <<pc, msg, calls, view, polls, approved, result, pending, given, abandoned>>
  BY DEF Reject, providerVars, historyVars
<1>3. Grows /\ OrdersInv'
  BY <1>2, SameOrders DEF Inv
<1>4. accepted' \in [Callers -> BOOLEAN] /\ ~accepted'[c]
  BY <1>2, SentFacts DEF Inv, TypeOK
<1>5. QED
  BY <1>1, <1>2, <1>3, <1>4, Answered

-----------------------------------------------------------------------------
(* The provider *)

LEMMA AcceptStrayStep ==
    ASSUME Inv, NEW r \in stray, AcceptStray(r)
    PROVE  Inv'
<1>1. /\ r \in Requests /\ r.by \in Callers /\ r.body = KeyBody(r.key)
      /\ r.call = calls[r.by] => /\ pc[r.by] = "idle"
                                 /\ result[r.by].kind \in {"Unconfirmed", "Cancelled"}
                                 /\ r.key = Key(r.by, msg[r.by])
  BY DEF Inv, TypeOK, StrayInv, Requests
<1>2. /\ orders' = Accepting(r) /\ stray' \subseteq stray
      /\ UNCHANGED <<pc, msg, calls, wire, view, polls, approved, result, pending, given, abandoned>>
  BY DEF AcceptStray, callVars
<1>3. /\ Grows /\ OrdersInv'
      /\ IdOf(r) \in DOMAIN orders' /\ orders'[IdOf(r)].key = r.key
  BY <1>1, <1>2, OrderAccepted DEF Inv
<1>4. /\ accepted' \in [Callers -> BOOLEAN]
      /\ \A d \in Callers : accepted'[d] # accepted[d] =>
           d = r.by /\ r.call = calls[d]
  BY <1>1 DEF AcceptStray, Inv, TypeOK
<1>5. TypeOK' /\ StrayInv'
  BY <1>2, <1>3, <1>4 DEF Inv, TypeOK, StrayInv, Grows
<1>6. ASSUME NEW d \in Callers
      PROVE  CallInv(d)'
  <2>1. CASE accepted'[d] = accepted[d]
    BY <1>2, <1>3, <2>1, CallFrame DEF Inv, Untouched
  <2>2. CASE accepted'[d] # accepted[d]
    <3>1. /\ pc[d] = "idle" /\ result[d].kind \in {"Unconfirmed", "Cancelled"}
          /\ r.key = Key(d, msg[d])
      BY <1>1, <1>4, <2>2
    <3>2. \A j : MyOrder(d, j) => MyOrder(d, j)'
      BY <1>2, <1>3 DEF MyOrder, Grows, Key, Namespaced
    <3>3. \E i \in DOMAIN orders' : MyOrder(d, i)'
      BY <1>2, <1>3, <3>1 DEF MyOrder, Key, Namespaced
    <3>4. WireInv(d)'
      BY <1>2, <3>1, <3>3, Literals DEF Inv, CallInv, WireInv, MyOrder
    <3>5. PollInv(d)'
      BY <1>2, <3>1 DEF Inv, CallInv, PollInv, Polling
    <3>6. ResultInv(d)'
      BY <1>2, <3>1, <3>2 DEF Inv, CallInv, ResultInv, Key, Namespaced
    <3>7. QED
      BY <3>4, <3>5, <3>6 DEF CallInv
  <2>3. QED
    BY <2>1, <2>2
<1>7. QED
  BY <1>3, <1>5, <1>6 DEF Inv

\* A step that changes nothing of the calls.
LEMMA ProviderStep ==
    ASSUME Inv, Grows, OrdersInv', stray' \subseteq stray,
           UNCHANGED <<callVars, pending, historyVars>>
    PROVE  Inv'
<1>1. TypeOK' /\ StrayInv'
  BY DEF Inv, TypeOK, StrayInv, Grows, callVars, historyVars
<1>2. \A d \in Callers : CallInv(d)'
  BY CallFrame DEF Inv, Untouched, callVars, historyVars
<1>3. QED
  BY <1>1, <1>2 DEF Inv

LEMMA ProgressStep ==
    ASSUME Inv, NEW i \in DOMAIN orders, Progress(i)
    PROVE  Inv'
<1>1. PICK s \in {"pending", "awaiting", "success", "failed"} :
        /\ <<orders[i].state, s>> \in Moves(orders[i].body[1])
        /\ orders' = [orders EXCEPT ![i].state = s]
  BY DEF Progress
<1>2. orders[i].state # "success"
  BY <1>1 DEF Moves
<1>3. Grows /\ OrdersInv'
  BY <1>1, <1>2, OrderMoves DEF Inv
<1>4. QED
  BY <1>3, ProviderStep DEF Progress

-----------------------------------------------------------------------------
(* Theorems *)

LEMMA InitInv == Init => Inv
<1> SUFFICES ASSUME Init PROVE Inv
  OBVIOUS
<1>1. TypeOK
  BY Literals, BroadcastConstants DEF Init, TypeOK
<1>2. OrdersInv /\ StrayInv
  BY DEF Init, OrdersInv, StrayInv
<1>3. \A c \in Callers : CallInv(c)
  BY Literals DEF Init, CallInv, WireInv, PollInv, ResultInv, Polling
<1>4. QED
  BY <1>1, <1>2, <1>3 DEF Inv

LEMMA NextInv == Inv /\ [Next]_vars => Inv'
<1> SUFFICES ASSUME Inv, [Next]_vars PROVE Inv'
  OBVIOUS
<1>1. ASSUME NEW c \in Callers,
             RefuseInput(c) \/ ExecuteManagedTransaction(c) \/ SignAndBroadcast(c)
      PROVE  Inv'
  BY <1>1, RefuseInputStep, PostStep DEF ExecuteManagedTransaction, SignAndBroadcast
<1>2. ASSUME NEW c \in Callers, ClientStep(c)
      PROVE  Inv'
  BY <1>2, CreateAcceptedStep, CreateFailsStep, CreateLostStep, ReadOrderStep, PollFailsStep,
     SubmitApprovalStep DEF ClientStep, PollTransaction, PollForResult
<1>3. ASSUME NEW c \in Callers, Cancel(c) \/ Accept(c) \/ Reject(c)
      PROVE  Inv'
  BY <1>3, CancelStep, AcceptStep, RejectStep
<1>4. ASSUME NEW r \in stray, AcceptStray(r) \/ LoseStray(r)
      PROVE  Inv'
  BY <1>4, AcceptStrayStep, SameOrders, ProviderStep DEF LoseStray, Inv
<1>5. ASSUME NEW i \in DOMAIN orders, Progress(i)
      PROVE  Inv'
  BY <1>5, ProgressStep
<1>6. CASE UNCHANGED vars
  BY <1>6, SameOrders, ProviderStep DEF vars, providerVars, Inv
<1>7. QED
  BY <1>1, <1>2, <1>3, <1>4, <1>5, <1>6 DEF Next

LEMMA Invariance == Spec => []Inv
BY InitInv, NextInv, PTL DEF Spec

\* The variables of the sending backends keep their types: an id in the slot is an id, a
\* poll loop stops at max_poll_attempts.
THEOREM TypeCorrect == Spec => []TypeOK
<1>1. Inv => TypeOK
  BY DEF Inv
<1>2. QED
  BY <1>1, Invariance, PTL

\* An error that is not BroadcastUnconfirmed means that the provider never accepts what
\* the call sent: 4xx is classified right, and so is a lost response.
THEOREM RefusalIsFinal == Spec => []RefusedMeansNothing
<1>1. Inv => RefusedMeansNothing
  BY DEF Inv, StrayInv, CallInv, ResultInv, RefusedMeansNothing
<1>2. QED
  BY <1>1, Invariance, PTL

\* The same bytes under the same terms are one transaction at the provider, however many
\* callers send them and however often.
THEOREM RetriesAreOne == Spec => []OneOrder
<1>1. Inv => OneOrder
  <2> SUFFICES ASSUME Inv, NEW i \in DOMAIN orders, NEW j \in DOMAIN orders,
                      orders[i].body = orders[j].body
               PROVE  i = j
    BY DEF OneOrder
  <2>1. orders[i].key \in Keys /\ orders[j].key \in Keys
    <3>1. orders \in Seq(Order) /\ i \in 1..Len(orders) /\ j \in 1..Len(orders)
      BY LenProperties DEF Inv, TypeOK
    <3>2. orders[i] \in Order /\ orders[j] \in Order
      BY <3>1, ElementOfSeq
    <3>3. QED
      BY <3>2 DEF Order
  <2>2. KeyBody(orders[i].key) = KeyBody(orders[j].key)
    BY DEF Inv, OrdersInv
  <2>3. QED
    BY <2>1, <2>2, KeyBodyInjective DEF Inv, OrdersInv
<1>2. QED
  BY <1>1, Invariance, PTL

\* A signature that is returned is of a successful order for the caller's own bytes and
\* terms.
THEOREM SignatureIsMine == Spec => []LandedIsMine
<1>1. Inv => LandedIsMine
  <2> SUFFICES ASSUME Inv, NEW c \in Callers, result[c].kind = "Ok"
               PROVE  /\ result[c].id \in DOMAIN orders
                      /\ orders[result[c].id].state = "success"
                      /\ orders[result[c].id].body = Body(c, msg[c])
    BY DEF LandedIsMine
  <2>1. /\ MyOrder(c, result[c].id) /\ orders[result[c].id].state = "success"
        /\ msg[c] \in Messages
    BY DEF Inv, CallInv, ResultInv
  <2>2. QED
    BY <2>1, KeyType DEF MyOrder, Inv, OrdersInv
<1>2. QED
  BY <1>1, Invariance, PTL

\* BroadcastUnconfirmed leads to the order if there is one.
THEOREM UnconfirmedIsTraceable == Spec => []UnconfirmedLeadsToOrder
<1>1. Inv => UnconfirmedLeadsToOrder
  <2> SUFFICES ASSUME Inv, NEW c \in Callers, result[c].kind = "Unconfirmed"
               PROVE  /\ result[c].id # NONE =>
                           /\ result[c].id \in DOMAIN orders
                           /\ orders[result[c].id].body = Body(c, msg[c])
                      /\ result[c].id = NONE /\ accepted[c] =>
                           \E i \in DOMAIN orders : orders[i].key = result[c].key
                                                 /\ orders[i].body = Body(c, msg[c])
    BY DEF UnconfirmedLeadsToOrder
  <2>1. \A i : MyOrder(c, i) => orders[i].body = Body(c, msg[c])
    BY KeyType DEF MyOrder, Inv, OrdersInv, CallInv, ResultInv
  <2>2. QED
    BY <2>1 DEF Inv, CallInv, ResultInv, WireInv, MyOrder
<1>2. QED
  BY <1>1, Invariance, PTL

\* A call approves at most once.
THEOREM OneApproval == Spec => []ApprovesOnce
<1>1. Inv => ApprovesOnce
  BY DEF Inv, CallInv, PollInv, ApprovesOnce
<1>2. QED
  BY <1>1, Invariance, PTL
-----------------------------------------------------------------------------
(* The slot, counted *)

Positions(s, i) == {k \in DOMAIN s : s[k] = i}

\* The calls that still have to take their entry for order i out of the slot.
Holds(c, i) == Polling(c) /\ SignerOf[c].slot /\ view[c].id = i
Holders(i) == {c \in Callers : Holds(c, i)}

\* SlotAccounts for every id, accepted or not yet, with the finiteness that counting needs.
SlotInv ==
    \A i \in Ids :
        /\ IsFiniteSet(Holders(i))
        /\ Occurrences(pending, i) = Occurrences(abandoned, i) + Cardinality(Holders(i))

LEMMA PositionsFinite ==
    ASSUME NEW S, NEW s \in Seq(S), NEW i
    PROVE  /\ IsFiniteSet(Positions(s, i))
           /\ Occurrences(s, i) = Cardinality(Positions(s, i))
           /\ Occurrences(s, i) \in Nat
<1>1. Len(s) \in Nat /\ DOMAIN s = 1..Len(s)
  BY LenProperties
<1>2. IsFiniteSet(1..Len(s))
  BY <1>1, FS_Interval
<1>3. Positions(s, i) \in SUBSET (1..Len(s))
  BY <1>1 DEF Positions
<1>4. IsFiniteSet(Positions(s, i))
  BY <1>2, <1>3, FS_Subset
<1>5. QED
  BY <1>4, FS_CardinalityType DEF Occurrences, Positions

\* set adds one entry.
LEMMA AppendCounts ==
    ASSUME NEW S, NEW s \in Seq(S), NEW e \in S, NEW i
    PROVE  Occurrences(Append(s, e), i) = Occurrences(s, i) + IF e = i THEN 1 ELSE 0
<1> DEFINE t == Append(s, e)
           n == Len(s) + 1
<1>1. Len(s) \in Nat /\ DOMAIN s = 1..Len(s)
  BY LenProperties
<1>2. /\ t \in Seq(S) /\ DOMAIN t = 1..n /\ t[n] = e
      /\ \A k \in DOMAIN s : t[k] = s[k]
  BY <1>1, AppendProperties
<1>3. /\ IsFiniteSet(Positions(s, i)) /\ Occurrences(s, i) = Cardinality(Positions(s, i))
      /\ Occurrences(s, i) \in Nat /\ Occurrences(t, i) = Cardinality(Positions(t, i))
  BY <1>2, PositionsFinite
<1>4. n \notin Positions(s, i) /\ \A k \in 1..n : k = n \/ k \in DOMAIN s
  BY <1>1 DEF Positions
<1> HIDE DEF t
<1>5. CASE e = i
  <2>1. Positions(t, i) = Positions(s, i) \cup {n}
    BY <1>1, <1>2, <1>4, <1>5 DEF Positions
  <2>2. QED
    BY <1>3, <1>4, <1>5, <2>1, FS_AddElement DEF t
<1>6. CASE e # i
  <2>1. Positions(t, i) = Positions(s, i)
    BY <1>1, <1>2, <1>4, <1>6 DEF Positions
  <2>2. QED
    BY <1>3, <1>6, <2>1 DEF t
<1>7. QED
  BY <1>5, <1>6

\* The entries of RemoveAt(s, k), by where they stood in s.
LEMMA RemoveAtEntries ==
    ASSUME NEW S, NEW s \in Seq(S), NEW k \in 1..Len(s)
    PROVE  /\ RemoveAt(s, k) \in Seq(S) /\ DOMAIN RemoveAt(s, k) = 1..(Len(s) - 1)
           /\ \A j \in 1..(Len(s) - 1) : RemoveAt(s, k)[j] = s[IF j < k THEN j ELSE j + 1]
<1> DEFINE u == SubSeq(s, 1, k - 1)
           v == SubSeq(s, k + 1, Len(s))
<1>1. Len(s) \in Nat /\ DOMAIN s = 1..Len(s)
  BY LenProperties
<1>2. u \in Seq(S) /\ Len(u) = k - 1 /\ \A j \in 1..(k - 1) : u[j] = s[j]
  BY <1>1
<1>3. v \in Seq(S) /\ Len(v) = Len(s) - k /\ \A j \in 1..(Len(s) - k) : v[j] = s[j + k]
  <2>1. /\ k + 1 \in Int /\ Len(s) \in Int /\ Len(s) - (k + 1) + 1 = Len(s) - k
        /\ \A j \in (k + 1)..Len(s) : s[j] \in S
    BY <1>1, ElementOfSeq
  <2>2. /\ v \in Seq(S) /\ Len(v) = IF k + 1 <= Len(s) THEN Len(s) - (k + 1) + 1 ELSE 0
        /\ \A j \in 1..(Len(s) - (k + 1) + 1) : v[j] = s[(k + 1) + j - 1]
    BY <2>1, SubSeqProperties
  <2>3. \A j \in 1..(Len(s) - k) : (k + 1) + j - 1 = j + k
    BY <1>1
  <2>4. Len(v) = Len(s) - k
    <3>1. CASE k + 1 <= Len(s)
      BY <2>1, <2>2, <3>1
    <3>2. CASE ~(k + 1 <= Len(s))
      <4>0. \A m \in Nat : \A j \in 1..m : ~(j + 1 <= m) => m - j = 0
        OBVIOUS
      <4>1. Len(s) - k = 0
        BY <1>1, <3>2, <4>0
      <4>2. Len(v) = 0
        BY <2>2, <3>2
      <4>3. QED
        BY <4>1, <4>2
    <3>3. QED
      BY <3>1, <3>2
  <2>5. QED
    BY <2>1, <2>2, <2>3, <2>4
<1>4. RemoveAt(s, k) = u \o v
  BY DEF RemoveAt
<1> HIDE DEF u, v
<1>5. /\ u \o v \in Seq(S) /\ Len(u \o v) = Len(s) - 1
      /\ \A j \in 1..(Len(s) - 1) : (u \o v)[j] = IF j <= k - 1 THEN u[j] ELSE v[j - (k - 1)]
  <2>1. Len(u) + Len(v) = Len(s) - 1
    BY <1>1, <1>2, <1>3
  <2>2. /\ u \o v \in Seq(S) /\ Len(u \o v) = Len(u) + Len(v)
        /\ \A j \in 1..(Len(u) + Len(v)) : (u \o v)[j] = IF j <= Len(u) THEN u[j] ELSE v[j - Len(u)]
    BY <1>2, <1>3, ConcatProperties
  <2>3. QED
    BY <1>2, <2>1, <2>2
<1>6. ASSUME NEW j \in 1..(Len(s) - 1)
      PROVE  (u \o v)[j] = s[IF j < k THEN j ELSE j + 1]
  <2>1. CASE j < k
    BY <1>1, <1>2, <1>5, <2>1
  <2>2. CASE ~(j < k)
    <3>1. j - (k - 1) \in 1..(Len(s) - k) /\ (j - (k - 1)) + k = j + 1
      BY <1>1, <2>2
    <3>2. QED
      BY <1>1, <1>3, <1>5, <2>2, <3>1
  <2>3. QED
    BY <2>1, <2>2
<1>7. QED
  BY <1>1, <1>4, <1>5, <1>6, LenProperties

\* clear takes away one entry of its id and none of another.
LEMMA RemoveFirstCounts ==
    ASSUME NEW S, NEW s \in Seq(S), NEW e, Positions(s, e) # {}, NEW i
    PROVE  Occurrences(RemoveFirst(s, e), i) = Occurrences(s, i) - IF e = i THEN 1 ELSE 0
<1> DEFINE k == Min(Positions(s, e))
           t == RemoveFirst(s, e)
           P == Positions(s, i) \ {k}
<1>1. Len(s) \in Nat /\ DOMAIN s = 1..Len(s)
  BY LenProperties
<1>2. k \in 1..Len(s) /\ s[k] = e
  <2>1. Positions(s, e) \in SUBSET Nat
    BY <1>1 DEF Positions
  <2>2. k \in Positions(s, e)
    BY <2>1, MinExists
  <2>3. QED
    BY <1>1, <2>2 DEF Positions
<1>3. t = RemoveAt(s, k)
  <2>1. \E j \in 1..Len(s) : s[j] = e
    BY <1>1, <1>2
  <2>2. {j \in 1..Len(s) : s[j] = e} = Positions(s, e)
    BY <1>1 DEF Positions
  <2>3. QED
    BY <2>1, <2>2 DEF RemoveFirst, SelectInSeq
<1> HIDE DEF k, t
<1>4. /\ t \in Seq(S) /\ DOMAIN t = 1..(Len(s) - 1)
      /\ \A j \in 1..(Len(s) - 1) : t[j] = s[IF j < k THEN j ELSE j + 1]
  BY <1>2, <1>3, RemoveAtEntries
<1>5. Cardinality(Positions(t, i)) = Cardinality(P)
  <2> DEFINE f == [j \in Positions(t, i) |-> IF j < k THEN j ELSE j + 1]
  <2>1. ASSUME NEW j \in Positions(t, i)
        PROVE  f[j] \in P
    BY <1>1, <1>2, <1>4 DEF Positions
  <2>2. f \in [Positions(t, i) -> P]
    BY <2>1
  <2>3. \A j, l \in Positions(t, i) : f[j] = f[l] => j = l
    BY <1>1, <1>2, <1>4 DEF Positions
  <2>4. ASSUME NEW m \in P
        PROVE  \E j \in Positions(t, i) : f[j] = m
    <3>1. m \in 1..Len(s) /\ m # k /\ s[m] = i
      BY <1>1 DEF Positions
    <3>2. CASE m < k
      <4>1. m \in Positions(t, i)
        BY <1>1, <1>2, <1>4, <3>1, <3>2 DEF Positions
      <4>2. QED
        BY <3>2, <4>1
    <3>3. CASE ~(m < k)
      <4>1. m - 1 \in 1..(Len(s) - 1) /\ ~(m - 1 < k) /\ (m - 1) + 1 = m
        BY <1>1, <1>2, <3>1, <3>3
      <4>2. m - 1 \in Positions(t, i)
        BY <1>4, <3>1, <4>1 DEF Positions
      <4>3. QED
        BY <4>1, <4>2
    <3>4. QED
      BY <3>2, <3>3
  <2>5. f \in Bijection(Positions(t, i), P)
    <3> HIDE DEF f, P
    <3> QED
      BY <2>2, <2>3, <2>4 DEF Bijection, Injection, Surjection, IsInjective
  <2>6. ExistsBijection(Positions(t, i), P)
    <3> HIDE DEF f, P
    <3> QED
      BY <2>5 DEF ExistsBijection
  <2>7. QED
    BY <1>4, <2>6, PositionsFinite, FS_Bijection
<1>6. Cardinality(P) = Cardinality(Positions(s, i)) - IF e = i THEN 1 ELSE 0
  <2>1. IsFiniteSet(Positions(s, i)) /\ Cardinality(Positions(s, i)) \in Nat
    BY PositionsFinite, FS_CardinalityType
  <2>2. k \in Positions(s, i) <=> e = i
    BY <1>1, <1>2 DEF Positions
  <2>3. Cardinality(P) = IF k \in Positions(s, i) THEN Cardinality(Positions(s, i)) - 1
                         ELSE Cardinality(Positions(s, i))
    BY <2>1, FS_RemoveElement
  <2>4. QED
    <3> HIDE DEF P
    <3> QED
      BY <2>1, <2>2, <2>3
<1>7. QED
  BY <1>4, <1>5, <1>6, PositionsFinite DEF t

\* A step of c leaves the others' entries alone.
OthersHold(c) == \A d \in Callers \ {c} : pc'[d] = pc[d] /\ view'[d] = view[d]

LEMMA HoldersElsewhere ==
    ASSUME NEW c \in Callers, OthersHold(c), NEW i
    PROVE  /\ \A d \in Callers \ {c} : Holds(d, i)' <=> Holds(d, i)
           /\ Holds(c, i)' /\ ~Holds(c, i) => Holders(i)' = Holders(i) \cup {c}
           /\ ~Holds(c, i)' /\ Holds(c, i) => Holders(i)' = Holders(i) \ {c}
           /\ (Holds(c, i)' <=> Holds(c, i)) => Holders(i)' = Holders(i)
<1>1. \A d \in Callers \ {c} : Holds(d, i)' <=> Holds(d, i)
  BY DEF OthersHold, Holds, Polling
<1>2. Holders(i)' = {d \in Callers : Holds(d, i)'}
  BY DEF Holders
<1>3. QED
  BY <1>1, <1>2 DEF Holders

\* The counts of one id, before and after.
LEMMA Balance ==
    ASSUME SlotInv, NEW i \in Ids, NEW c \in Callers, OthersHold(c),
           pending \in Seq(Ids), abandoned \in Seq(Ids),
           \/ /\ Holds(c, i)' /\ ~Holds(c, i)
              /\ Occurrences(pending', i) = Occurrences(pending, i) + 1
              /\ Occurrences(abandoned', i) = Occurrences(abandoned, i)
           \/ /\ ~Holds(c, i)' /\ Holds(c, i)
              /\ \/ /\ Occurrences(pending', i) = Occurrences(pending, i) - 1
                    /\ Occurrences(abandoned', i) = Occurrences(abandoned, i)
                 \/ /\ Occurrences(pending', i) = Occurrences(pending, i)
                    /\ Occurrences(abandoned', i) = Occurrences(abandoned, i) + 1
           \/ /\ Holds(c, i)' <=> Holds(c, i)
              /\ Occurrences(pending', i) = Occurrences(pending, i)
              /\ Occurrences(abandoned', i) = Occurrences(abandoned, i)
    PROVE  /\ IsFiniteSet(Holders(i)')
           /\ Occurrences(pending', i) = Occurrences(abandoned', i) + Cardinality(Holders(i)')
<1> DEFINE h == Cardinality(Holders(i))
<1>1. /\ IsFiniteSet(Holders(i)) /\ h \in Nat
      /\ Occurrences(pending, i) = Occurrences(abandoned, i) + h
  BY FS_CardinalityType DEF SlotInv
<1>2. Occurrences(pending, i) \in Nat /\ Occurrences(abandoned, i) \in Nat
  BY PositionsFinite
<1>3. c \in Holders(i) <=> Holds(c, i)
  BY DEF Holders
<1>4. CASE Holds(c, i)' /\ ~Holds(c, i)
  <2>1. Holders(i)' = Holders(i) \cup {c}
    BY <1>4, HoldersElsewhere
  <2>2. IsFiniteSet(Holders(i)') /\ Cardinality(Holders(i)') = h + 1
    BY <1>1, <1>3, <1>4, <2>1, FS_AddElement
  <2>3. QED
    BY <1>1, <1>2, <1>4, <2>2
<1>5. CASE ~Holds(c, i)' /\ Holds(c, i)
  <2>1. Holders(i)' = Holders(i) \ {c}
    BY <1>5, HoldersElsewhere
  <2>2. IsFiniteSet(Holders(i)') /\ Cardinality(Holders(i)') = h - 1
    BY <1>1, <1>3, <1>5, <2>1, FS_RemoveElement
  <2>3. QED
    BY <1>1, <1>2, <1>5, <2>2
<1>6. CASE Holds(c, i)' <=> Holds(c, i)
  <2>1. Holders(i)' = Holders(i)
    BY <1>6, HoldersElsewhere
  <2>2. QED
    BY <1>1, <1>2, <1>6, <2>1
<1>7. QED
  BY <1>4, <1>5, <1>6

\* The create is answered and the loop begins: set.
LEMMA SlotEntered ==
    ASSUME Inv, SlotInv, NEW c \in Callers, NEW id \in Ids, OthersHold(c),
           ~Polling(c), pc'[c] = "polling", view'[c].id = id,
           pending' = SetPending(c, id), abandoned' = abandoned
    PROVE  SlotInv'
<1>1. pending \in Seq(Ids) /\ abandoned \in Seq(Ids)
  BY DEF Inv, TypeOK
<1>2. ASSUME NEW i \in Ids
      PROVE  /\ IsFiniteSet(Holders(i)')
             /\ Occurrences(pending', i) = Occurrences(abandoned', i) + Cardinality(Holders(i)')
  <2>1. ~Holds(c, i) /\ (Holds(c, i)' <=> SignerOf[c].slot /\ id = i)
    BY DEF Holds, Polling
  <2>2. SignerOf[c].slot => Occurrences(pending', i) = Occurrences(pending, i) + IF id = i THEN 1 ELSE 0
    BY <1>1, AppendCounts DEF SetPending
  <2>3. ~SignerOf[c].slot => pending' = pending
    BY DEF SetPending
  <2>4. Occurrences(pending, i) \in Nat
    BY <1>1, PositionsFinite
  <2>5. \/ /\ Holds(c, i)' /\ ~Holds(c, i)
           /\ Occurrences(pending', i) = Occurrences(pending, i) + 1
        \/ /\ Holds(c, i)' <=> Holds(c, i)
           /\ Occurrences(pending', i) = Occurrences(pending, i)
    BY <2>1, <2>2, <2>3, <2>4
  <2>6. QED
    BY <1>1, <2>5, Balance
<1>3. QED
  BY <1>2 DEF SlotInv

\* A call that holds an entry finds it: clear never comes to an empty slot.
LEMMA EntryIsThere ==
    ASSUME Inv, SlotInv, NEW c \in Callers, NEW i \in Ids, Holds(c, i)
    PROVE  Positions(pending, i) # {}
<1>1. IsFiniteSet(Holders(i)) /\ Holders(i) # {}
  BY DEF SlotInv, Holders
<1>2. Cardinality(Holders(i)) \in Nat /\ Cardinality(Holders(i)) # 0
  BY <1>1, FS_EmptySet, FS_CardinalityType
<1>3. /\ Occurrences(abandoned, i) \in Nat /\ Occurrences(pending, i) = Cardinality(Positions(pending, i))
  BY PositionsFinite DEF Inv, TypeOK
<1>4. Cardinality(Positions(pending, i)) # 0
  BY <1>2, <1>3 DEF SlotInv
<1>5. QED
  BY <1>4, FS_EmptySet

\* The loop ends: clear.
LEMMA SlotLeft ==
    ASSUME Inv, SlotInv, NEW c \in Callers, OthersHold(c), Polling(c), pc'[c] = "idle",
           pending' = ClearPending(c, view[c].id, pending), abandoned' = abandoned
    PROVE  SlotInv'
<1> DEFINE id == view[c].id
<1>1. pending \in Seq(Ids) /\ abandoned \in Seq(Ids) /\ id \in Ids
  BY PollFacts DEF Inv, TypeOK
<1>2. ASSUME NEW i \in Ids
      PROVE  /\ IsFiniteSet(Holders(i)')
             /\ Occurrences(pending', i) = Occurrences(abandoned', i) + Cardinality(Holders(i)')
  <2>1. ~Holds(c, i)' /\ (Holds(c, i) <=> SignerOf[c].slot /\ id = i)
    BY DEF Holds, Polling
  <2>2. SignerOf[c].slot => Occurrences(pending', i) = Occurrences(pending, i) - IF id = i THEN 1 ELSE 0
    <3>1. SignerOf[c].slot => Positions(pending, id) # {}
      BY <1>1, EntryIsThere DEF Holds
    <3>2. QED
      BY <1>1, <3>1, RemoveFirstCounts DEF ClearPending
  <2>3. ~SignerOf[c].slot => pending' = pending
    BY DEF ClearPending
  <2>4. Occurrences(pending, i) \in Nat
    BY <1>1, PositionsFinite
  <2>5. \/ /\ ~Holds(c, i)' /\ Holds(c, i)
           /\ Occurrences(pending', i) = Occurrences(pending, i) - 1
        \/ /\ Holds(c, i)' <=> Holds(c, i)
           /\ Occurrences(pending', i) = Occurrences(pending, i)
    BY <2>1, <2>2, <2>3, <2>4
  <2>6. QED
    BY <1>1, <2>5, Balance
<1>3. QED
  BY <1>2 DEF SlotInv

\* The future is dropped: the entry stays and is counted as abandoned.
LEMMA SlotAbandoned ==
    ASSUME Inv, SlotInv, NEW c \in Callers, Cancel(c)
    PROVE  SlotInv'
<1> DEFINE id == view[c].id
<1>1. /\ pending \in Seq(Ids) /\ abandoned \in Seq(Ids) /\ (Polling(c) => id \in Ids)
      /\ pending' = pending
  BY PollFacts DEF Inv, TypeOK, Cancel
<1>2. OthersHold(c) /\ pc'[c] = "idle"
  BY DEF Cancel, EndCall, OthersHold, Inv, TypeOK
<1>3. ASSUME NEW i \in Ids
      PROVE  /\ IsFiniteSet(Holders(i)')
             /\ Occurrences(pending', i) = Occurrences(abandoned', i) + Cardinality(Holders(i)')
  <2>1. ~Holds(c, i)' /\ (Holds(c, i) <=> Polling(c) /\ SignerOf[c].slot /\ id = i)
    BY <1>2 DEF Holds, Polling
  <2>2. Polling(c) /\ SignerOf[c].slot =>
          Occurrences(abandoned', i) = Occurrences(abandoned, i) + IF id = i THEN 1 ELSE 0
    BY <1>1, AppendCounts DEF Cancel
  <2>3. ~(Polling(c) /\ SignerOf[c].slot) => abandoned' = abandoned
    BY DEF Cancel
  <2>4. Occurrences(abandoned, i) \in Nat
    BY <1>1, PositionsFinite
  <2>5. \/ /\ ~Holds(c, i)' /\ Holds(c, i)
           /\ Occurrences(abandoned', i) = Occurrences(abandoned, i) + 1
        \/ /\ Holds(c, i)' <=> Holds(c, i)
           /\ Occurrences(abandoned', i) = Occurrences(abandoned, i)
    BY <2>1, <2>2, <2>3, <2>4
  <2>6. QED
    BY <1>1, <1>2, <2>5, Balance
<1>4. QED
  BY <1>3 DEF SlotInv

\* A step that moves no entry.
LEMMA SlotKept ==
    ASSUME Inv, SlotInv, NEW c \in Callers, OthersHold(c), abandoned' = abandoned,
           \A i \in Ids : /\ Holds(c, i)' <=> Holds(c, i)
                          /\ Occurrences(pending', i) = Occurrences(pending, i)
    PROVE  SlotInv'
<1>1. pending \in Seq(Ids) /\ abandoned \in Seq(Ids)
  BY DEF Inv, TypeOK
<1>2. ASSUME NEW i \in Ids
      PROVE  /\ IsFiniteSet(Holders(i)')
             /\ Occurrences(pending', i) = Occurrences(abandoned', i) + Cardinality(Holders(i)')
  BY <1>1, Balance
<1>3. QED
  BY <1>2 DEF SlotInv

LEMMA CreateAcceptedSlot ==
    ASSUME Inv, SlotInv, NEW c \in Callers, CreateAccepted(c)
    PROVE  SlotInv'
<1> DEFINE id == wire[c].id
           s == IF Crossmint(c) THEN orders[id].state ELSE "unread"
           ids == SetPending(c, id)
<1>1. pc[c] = "creating" /\ id \in Ids
  <2>1. pc[c] = "creating" /\ MyOrder(c, id)
    BY DEF CreateAccepted, Inv, CallInv, WireInv
  <2>2. QED
    BY <2>1, LenProperties DEF MyOrder, Ids, Inv, TypeOK
<1>2. Settle(c, id, s, 0, FALSE, ids) /\ abandoned' = abandoned
  BY DEF CreateAccepted, historyVars
<1>3. OthersHold(c)
  BY <1>2 DEF Settle, EndCall, OthersHold, Inv, TypeOK
<1> HIDE DEF id, s, ids
<1>4. CASE /\ pc' = [pc EXCEPT ![c] = "polling"]
           /\ view' = [view EXCEPT ![c] = [id |-> id, state |-> s]]
           /\ pending' = ids
  <2>1. pc'[c] = "polling" /\ view'[c].id = id /\ ~Polling(c)
    BY <1>1, <1>4 DEF Inv, TypeOK, Polling
  <2>2. QED
    BY <1>1, <1>2, <1>3, <1>4, <2>1, SlotEntered DEF ids
<1>5. CASE pc' = [pc EXCEPT ![c] = "idle"] /\ pending' = ClearPending(c, id, ids)
  <2>1. \A i : ~Holds(c, i) /\ ~Holds(c, i)'
    BY <1>1, <1>5 DEF Holds, Polling, Inv, TypeOK
  <2>2. pending \in Seq(Ids)
    BY DEF Inv, TypeOK
  <2>3. ASSUME NEW i \in Ids
        PROVE  Occurrences(pending', i) = Occurrences(pending, i)
    <3>1. CASE ~SignerOf[c].slot
      BY <1>5, <3>1 DEF ids, SetPending, ClearPending
    <3>2. CASE SignerOf[c].slot
      <4>1. ids = Append(pending, id) /\ pending' = RemoveFirst(ids, id)
        BY <1>5, <3>2 DEF ids, SetPending, ClearPending
      <4>2. ids \in Seq(Ids) /\ Positions(ids, id) # {}
        BY <1>1, <2>2, <4>1, AppendProperties, LenProperties DEF Positions
      <4>3. Occurrences(ids, i) = Occurrences(pending, i) + IF id = i THEN 1 ELSE 0
        BY <1>1, <2>2, <4>1, AppendCounts
      <4>4. Occurrences(pending', i) = Occurrences(ids, i) - IF id = i THEN 1 ELSE 0
        <5>1. Occurrences(RemoveFirst(ids, id), i) = Occurrences(ids, i) - IF id = i THEN 1 ELSE 0
          BY <4>2, RemoveFirstCounts
        <5>2. QED
          BY <4>1, <5>1
      <4>5. Occurrences(pending, i) \in Nat
        BY <2>2, PositionsFinite
      <4>6. QED
        BY <4>3, <4>4, <4>5
    <3>3. QED
      BY <3>1, <3>2
  <2>4. QED
    BY <1>2, <1>3, <2>1, <2>3, SlotKept
<1>6. QED
  BY <1>2, <1>4, <1>5 DEF Settle, EndCall

\* From one await of the poll loop to the next.
LEMMA PollSlot ==
    ASSUME Inv, SlotInv, NEW c \in Callers, Polling(c), NEW s, NEW n, NEW approval,
           \/ Settle(c, view[c].id, s, n, approval, pending)
           \/ ExchangeFails(c),
           abandoned' = abandoned
    PROVE  SlotInv'
<1> DEFINE id == view[c].id
<1>1. OthersHold(c)
  BY DEF Settle, ExchangeFails, EndCall, OthersHold, Inv, TypeOK
<1>2. CASE /\ pc' = [pc EXCEPT ![c] = "polling"]
           /\ view' = [view EXCEPT ![c] = [id |-> id, state |-> s]]
           /\ pending' = pending
  <2>1. \A i : Holds(c, i)' <=> Holds(c, i)
    BY <1>2 DEF Holds, Polling, Inv, TypeOK
  <2>2. QED
    BY <1>1, <1>2, <2>1, SlotKept
<1>3. CASE pc' = [pc EXCEPT ![c] = "idle"] /\ pending' = ClearPending(c, id, pending)
  <2>1. pc'[c] = "idle"
    BY <1>3 DEF Inv, TypeOK
  <2>2. QED
    BY <1>1, <1>3, <2>1, SlotLeft
<1>4. QED
  BY <1>2, <1>3 DEF Settle, ExchangeFails, EndCall

\* The steps that touch neither the slot nor a poll loop.
LEMMA OtherSlot ==
    ASSUME SlotInv, pending' = pending, abandoned' = abandoned,
           \A c \in Callers : /\ Polling(c)' <=> Polling(c)
                              /\ Polling(c) => view'[c] = view[c]
    PROVE  SlotInv'
<1>1. \A i : Holders(i)' = Holders(i)
  BY DEF Holders, Holds
<1>2. QED
  BY <1>1 DEF SlotInv

LEMMA NextSlot == Inv /\ SlotInv /\ [Next]_vars => SlotInv'
<1> SUFFICES ASSUME Inv, SlotInv, [Next]_vars PROVE SlotInv'
  OBVIOUS
<1>1. ASSUME NEW c \in Callers, RefuseInput(c) \/ Post(c) \/ Accept(c) \/ Reject(c)
      PROVE  SlotInv'
  BY <1>1, OtherSlot DEF RefuseInput, Post, Accept, Reject, Polling, Inv, TypeOK, historyVars
<1>2. ASSUME NEW c \in Callers, CreateFails(c) \/ CreateLost(c)
      PROVE  SlotInv'
  BY <1>2, OtherSlot DEF CreateFails, CreateLost, EndCall, Polling, Inv, TypeOK, historyVars
<1>3. ASSUME NEW c \in Callers, ReadOrder(c) \/ PollFails(c) \/ SubmitApproval(c)
      PROVE  SlotInv'
  BY <1>3, PollSlot DEF ReadOrder, PollFails, SubmitApproval, historyVars
<1>4. ASSUME NEW r \in stray, AcceptStray(r) \/ LoseStray(r)
      PROVE  SlotInv'
  BY <1>4, OtherSlot DEF AcceptStray, LoseStray, Polling, callVars, historyVars
<1>5. ASSUME NEW i \in DOMAIN orders, Progress(i)
      PROVE  SlotInv'
  BY <1>5, OtherSlot DEF Progress, Polling, callVars, historyVars
<1>6. CASE UNCHANGED vars
  BY <1>6, OtherSlot DEF vars, Polling, callVars, historyVars
<1>7. QED
  BY <1>1, <1>2, <1>3, <1>4, <1>5, <1>6, CreateAcceptedSlot, SlotAbandoned
     DEF Next, ClientStep, ExecuteManagedTransaction, SignAndBroadcast, PollTransaction, PollForResult

LEMMA InitSlot == Init => SlotInv
<1> SUFFICES ASSUME Init, NEW i \in Ids
             PROVE  /\ IsFiniteSet(Holders(i))
                    /\ Occurrences(pending, i) = Occurrences(abandoned, i) + Cardinality(Holders(i))
  BY DEF SlotInv
<1>1. Holders(i) = {}
  BY DEF Init, Holders, Holds, Polling
<1>2. pending = abandoned /\ Occurrences(pending, i) \in Nat
  <2>1. pending \in Seq(Ids)
    BY InitInv DEF Inv, TypeOK
  <2>2. QED
    BY <2>1, PositionsFinite DEF Init
<1>3. QED
  BY <1>1, <1>2, FS_EmptySet

\* The slot holds one entry for each call in its poll loop and each cancelled call, for any
\* number of callers that share orders: clear takes away one entry and it is always there.
THEOREM SlotIsExact == Spec => []SlotAccounts
<1>1. Inv /\ SlotInv => SlotAccounts
  <2> SUFFICES ASSUME Inv, SlotInv, NEW i \in DOMAIN orders
               PROVE  Occurrences(pending, i) =
                        Occurrences(abandoned, i)
                        + Cardinality({c \in Callers :
                            Polling(c) /\ SignerOf[c].slot /\ view[c].id = i})
    BY DEF SlotAccounts
  <2>1. i \in Ids
    BY LenProperties DEF Ids, Inv, TypeOK
  <2>2. QED
    BY <2>1 DEF SlotInv, Holders, Holds
<1>2. QED
  BY <1>1, Invariance, InitSlot, NextSlot, PTL DEF Spec
=============================================================================
