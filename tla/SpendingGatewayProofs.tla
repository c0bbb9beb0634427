------------------------ MODULE SpendingGatewayProofs ------------------------
(* Proofs about what a commission may spend, for any threads, sessions,     *)
(* cap, prices, retries and number of restarts.                             *)
EXTENDS SpendingGateway, FiniteSetTheorems, WellFoundedInduction, TLAPS

-----------------------------------------------------------------------------
(* Induction over data.  The libraries' induction theorems take a predicate *)
(* as a parameter; these take the set of the numbers that satisfy it.       *)

(* A set of natural numbers that is not empty has a least element: the      *)
(* intervals below its elements are finite sets, and inclusion of finite    *)
(* sets is well-founded.                                                    *)
LEMMA Least ==
  ASSUME NEW T \in SUBSET Nat, T # {}
  PROVE  \E n \in T : \A m \in T : n <= m
<1>. DEFINE Below(n) == 1 .. n
            U == {Below(n) : n \in T}
<1>1. U \in SUBSET FiniteSubsetsOf(Nat)
  <2>1. ASSUME NEW n \in T PROVE Below(n) \in SUBSET Nat /\ IsFiniteSet(Below(n))
    BY FS_Interval
  <2>. QED
    BY <2>1 DEF FiniteSubsetsOf
<1>2. PICK x \in U : \A y \in U : ~ (<<y, x>> \in StrictSubsetOrdering(Nat))
  <2>. HIDE DEF U
  <2>1. U # {}
    BY DEF U
  <2>. QED
    BY <1>1, <2>1, FS_StrictSubsetOrderingWellFounded, WFMin
<1>3. PICK n \in T : x = Below(n)
  OBVIOUS
<1>4. ASSUME NEW m \in T, m < n PROVE FALSE
  <2>1. Below(m) \subseteq Below(n) /\ n \in Below(n) /\ n \notin Below(m)
    BY <1>4
  <2>2. <<Below(m), Below(n)>> \in StrictSubsetOrdering(Nat)
    BY <2>1 DEF StrictSubsetOrdering
  <2>. QED
    BY <1>2, <1>3, <2>2
<1>. QED
  BY <1>4

(* A set that holds 0, and with each number below n its successor, holds    *)
(* all numbers up to n.                                                     *)
LEMMA CountUp ==
  ASSUME NEW n \in Nat, NEW S, 0 \in S, \A k \in 0 .. n : k < n /\ k \in S => k + 1 \in S
  PROVE  0 .. n \subseteq S
<1>. DEFINE T == {k \in 0 .. n : k \notin S}
<1>1. SUFFICES ASSUME T # {} PROVE FALSE
  OBVIOUS
<1>2. T \in SUBSET Nat
  OBVIOUS
<1>3. PICK k \in T : \A m \in T : k <= m
  <2>. HIDE DEF T
  <2>. QED BY <1>1, <1>2, Least
<1>4. k # 0 /\ k - 1 \in 0 .. n /\ k - 1 \in S
  BY <1>3
<1>. QED
  BY <1>4

-----------------------------------------------------------------------------
(* The sum of the charges of a sequence of requests. *)

(* The running sums, without recursion. *)
IsSum(f, s) ==
  /\ f \in [0 .. Len(s) -> Nat] /\ f[0] = 0
  /\ \A t \in 1 .. Len(s) : f[t] = f[t - 1] + Charge(s[t])

(* A request is charged a natural number. *)
LEMMA ChargeNat == ASSUME NEW s \in Seq(Requests), NEW t \in 1 .. Len(s) PROVE Charge(s[t]) \in Nat
<1>1. s[t] \in Requests
  OBVIOUS
<1>2. s[t].size \in Nat /\ s[t].charged \in Nat
  BY <1>1, SpendingGatewayAssumption DEF Requests
<1>. QED
  BY <1>2 DEF Charge

(* The recursive function that Total unfolds to exists, so Total is the     *)
(* last of the running sums.                                                *)
LEMMA TotalIsSum ==
  ASSUME NEW s \in Seq(Requests)
  PROVE  \E f : IsSum(f, s) /\ Total(s) = f[Len(s)]
<1>. DEFINE n == Len(s)
            Running(f, t) == IF t = 0 THEN 0 ELSE f[t - 1] + Charge(s[t])
            Upto(m) == \E f \in [0 .. m -> Nat] : \A t \in 0 .. m : f[t] = Running(f, t)
            S == {m \in 0 .. n : Upto(m)}
            Rec == CHOOSE f : f = [t \in 0 .. n |-> Running(f, t)]
<1>0. n \in Nat
  OBVIOUS
<1>1. 0 \in S
  <2>. DEFINE g == [t \in 0 .. 0 |-> 0]
  <2>1. g \in [0 .. 0 -> Nat] /\ \A t \in 0 .. 0 : g[t] = Running(g, t)
    OBVIOUS
  <2>2. Upto(0)
    <3>. HIDE DEF g, Running
    <3>. QED BY <2>1
  <2>. QED
    <3>. HIDE DEF Upto
    <3>. QED BY <2>2
<1>2. ASSUME NEW k \in 0 .. n, k < n, k \in S PROVE k + 1 \in S
  <2>1. PICK f \in [0 .. k -> Nat] : \A t \in 0 .. k : f[t] = Running(f, t)
    BY <1>2
  <2>. DEFINE g == [t \in 0 .. k + 1 |-> IF t = k + 1 THEN f[k] + Charge(s[t]) ELSE f[t]]
  <2>2. f[k] \in Nat /\ Charge(s[k + 1]) \in Nat
    BY <1>2, ChargeNat
  <2>3. g \in [0 .. k + 1 -> Nat]
    BY <2>2
  <2>4. ASSUME NEW t \in 0 .. k + 1 PROVE g[t] = Running(g, t)
    <3>1. CASE t = k + 1
      <4>1. g[k] = f[k] /\ g[t] = f[k] + Charge(s[t])
        BY <3>1
      <4>. QED BY <4>1, <3>1
    <3>2. CASE t \in 0 .. k
      <4>1. g[t] = f[t] /\ (t # 0 => g[t - 1] = f[t - 1])
        BY <3>2
      <4>. QED BY <4>1, <3>2, <2>1
    <3>. QED BY <3>1, <3>2
  <2>5. Upto(k + 1)
    <3>. HIDE DEF g, Running
    <3>. QED BY <2>3, <2>4
  <2>6. k + 1 \in 0 .. n
    BY <1>2
  <2>. QED
    <3>. HIDE DEF Upto
    <3>. QED BY <2>5, <2>6
<1>3. n \in S
  <2>1. 0 .. n \subseteq S
    <3>. HIDE DEF S, n
    <3>. QED BY <1>0, <1>1, <1>2, CountUp
  <2>2. n \in 0 .. n
    BY <1>0
  <2>. QED
    <3>. HIDE DEF S, n
    <3>. QED BY <2>1, <2>2
<1>4. PICK f \in [0 .. n -> Nat] : \A t \in 0 .. n : f[t] = Running(f, t)
  BY <1>3
<1>5. f = [t \in 0 .. n |-> Running(f, t)]
  BY <1>4
<1>6. Rec = [t \in 0 .. n |-> Running(Rec, t)]
  <2>. HIDE DEF Running
  <2>. QED BY <1>5
<1>7. Rec = f
  <2>. DEFINE E == {t \in 0 .. n : Rec[t] = f[t]}
  <2>0. ASSUME NEW t \in 0 .. n PROVE Rec[t] = Running(Rec, t)
    <3>. HIDE DEF Rec, Running
    <3>. QED BY <1>6
  <2>. HIDE DEF Rec
  <2>1. 0 \in E
    BY <2>0, <1>4
  <2>2. ASSUME NEW k \in 0 .. n, k < n, k \in E PROVE k + 1 \in E
    BY <2>0, <1>4, <2>2
  <2>3. 0 .. n \subseteq E
    <3>. HIDE DEF E
    <3>. QED BY <1>0, <2>1, <2>2, CountUp
  <2>4. \A t \in 0 .. n : Running(Rec, t) = Running(f, t)
    BY <2>3
  <2>. QED
    <3>. HIDE DEF Running, E
    <3>. QED BY <2>4, <1>5, <1>6
<1>8. Total(s) = Rec[n]
  BY DEF Total
<1>9. IsSum(f, s)
  BY <1>4 DEF IsSum
<1>. QED
  BY <1>7, <1>8, <1>9

(* What is committed is a natural number, nothing for no requests. *)
LEMMA TotalNat == ASSUME NEW s \in Seq(Requests) PROVE Total(s) \in Nat /\ (s = <<>> => Total(s) = 0)
BY TotalIsSum DEF IsSum

(* If no request is charged more, no more is committed. *)
LEMMA TotalFalls ==
  ASSUME NEW s \in Seq(Requests), NEW u \in Seq(Requests), Len(u) = Len(s),
         \A t \in 1 .. Len(s) : Charge(u[t]) <= Charge(s[t])
  PROVE  Total(u) <= Total(s)
<1>1. PICK f : IsSum(f, s) /\ Total(s) = f[Len(s)]
  BY TotalIsSum
<1>2. PICK g : IsSum(g, u) /\ Total(u) = g[Len(u)]
  BY TotalIsSum
<1>. DEFINE S == {t \in 0 .. Len(s) : g[t] <= f[t]}
<1>3. 0 \in S
  BY <1>1, <1>2 DEF IsSum
<1>4. ASSUME NEW k \in 0 .. Len(s), k < Len(s), k \in S PROVE k + 1 \in S
  <2>1. k + 1 \in 1 .. Len(s) /\ f[k] \in Nat /\ g[k] \in Nat
    BY <1>1, <1>2, <1>4, SMTT(30) DEF IsSum
  <2>2. Charge(s[k + 1]) \in Nat /\ Charge(u[k + 1]) \in Nat
    BY <2>1, ChargeNat
  <2>3. f[k + 1] = f[k] + Charge(s[k + 1]) /\ g[k + 1] = g[k] + Charge(u[k + 1])
    BY <1>1, <1>2, <2>1 DEF IsSum
  <2>. QED
    BY <1>4, <2>1, <2>2, <2>3
<1>5. Len(s) \in S
  <2>0. Len(s) \in Nat
    OBVIOUS
  <2>1. 0 .. Len(s) \subseteq S
    <3>. HIDE DEF S
    <3>. QED BY <2>0, <1>3, <1>4, CountUp
  <2>. QED BY <2>1
<1>. QED
  BY <1>1, <1>2, <1>5

(* A new request commits its charge. *)
LEMMA TotalAppend ==
  ASSUME NEW s \in Seq(Requests), NEW r \in Requests
  PROVE  Total(Append(s, r)) = Total(s) + Charge(r)
<1>. DEFINE u == Append(s, r)
            n == Len(s)
<1>0. u \in Seq(Requests) /\ Len(u) = n + 1 /\ u[n + 1] = r /\ \A t \in 1 .. n : u[t] = s[t]
  OBVIOUS
<1>. HIDE DEF u
<1>1. PICK f : IsSum(f, s) /\ Total(s) = f[n]
  BY TotalIsSum
<1>2. PICK g : IsSum(g, u) /\ Total(u) = g[n + 1]
  BY <1>0, TotalIsSum
<1>. DEFINE S == {t \in 0 .. n : g[t] = f[t]}
<1>3. 0 \in S
  BY <1>1, <1>2 DEF IsSum
<1>4. ASSUME NEW k \in 0 .. n, k < n, k \in S PROVE k + 1 \in S
  <2>1. k + 1 \in 1 .. n /\ k + 1 \in 1 .. Len(u)
    BY <1>0, <1>4
  <2>2. f[k + 1] = f[k] + Charge(s[k + 1]) /\ g[k + 1] = g[k] + Charge(u[k + 1])
    BY <1>1, <1>2, <2>1 DEF IsSum
  <2>. QED
    BY <1>0, <1>4, <2>1, <2>2
<1>5. g[n] = f[n]
  <2>1. 0 .. n \subseteq S
    <3>. HIDE DEF S
    <3>. QED BY <1>3, <1>4, CountUp
  <2>. QED BY <2>1
<1>6. g[n + 1] = g[n] + Charge(r)
  BY <1>0, <1>2 DEF IsSum
<1>. QED
  BY <1>1, <1>2, <1>5, <1>6 DEF u

-----------------------------------------------------------------------------
(* The inductive invariant *)

Labels == {"idle", "admit", "bind", "allowed", "reserve", "receive", "emit", "retry"}
CallType == [session : Kids \cup {Root, None}, size : Nat, attempt : Nat, ticket : Nat,
             counted : BOOLEAN, enabled : BOOLEAN]

LedgerPart ==
  /\ stopped \in {"none", "review", "final"} /\ requests \in Seq(Requests)
  /\ WithinCap

ControlPart ==
  /\ enabled \in BOOLEAN /\ child_session \in Kids \cup {None}
  /\ up \in BOOLEAN /\ closed \in BOOLEAN
  /\ guard \in {"look", "disable"} /\ seen \in Kids \cup {None}
  /\ restarts \in 0 .. MaxRestarts

(* While a call binds its session under Gateway.lock its place is kept. *)
ActivePart ==
  /\ active = {c \in Calls : Serving(c)} /\ IsFiniteSet(active)
  /\ Cardinality(active) <= MaxInflight
  /\ gate \in Calls \cup {None}
  /\ gate # None => Cardinality(active) < MaxInflight

(* A call that waits for an answer has a pending ticket of its own, of its  *)
(* size; one that does not holds no pending ticket.                         *)
CallInv(c) ==
  /\ pc[c] = "bind" <=> gate = c
  /\ pc[c] # "idle" => call[c].size \in Sizes
  /\ pc[c] = "bind" => call[c].session \in Kids
  /\ pc[c] = "admit" => call[c].session \in Kids \cup {Root}
  /\ pc[c] \in {"idle", "admit", "bind", "allowed", "reserve"} => call[c].ticket = 0
  /\ pc[c] = "receive" => /\ call[c].ticket \in 1 .. Len(requests)
                          /\ requests[call[c].ticket].status = "pending"
                          /\ requests[call[c].ticket].size = call[c].size
  /\ pc[c] \in {"emit", "retry"} =>
       call[c].ticket = 0 \/ /\ call[c].ticket \in 1 .. Len(requests)
                             /\ requests[call[c].ticket].status # "pending"

CallsPart ==
  /\ pc \in [Calls -> Labels] /\ call \in [Calls -> CallType]
  /\ \A c \in Calls : CallInv(c)
  /\ \A c, d \in Calls :
       pc[c] = "receive" /\ pc[d] = "receive" /\ call[c].ticket = call[d].ticket => c = d

IInv == LedgerPart /\ ControlPart /\ ActivePart /\ CallsPart /\ OrphansStop

(* What a step may do to the requests. *)
Kept ==
  \A t \in DOMAIN requests :
    /\ t \in DOMAIN requests'
    /\ requests'[t].size = requests[t].size
    /\ requests[t].status # "pending" => requests'[t] = requests[t]

(* The other calls stay where they are. *)
Alone(c) ==
  /\ pc' \in [Calls -> Labels] /\ call' \in [Calls -> CallType]
  /\ \A d \in Calls \ {c} : /\ pc'[d] = pc[d] /\ call'[d] = call[d]
                            /\ gate = d <=> gate' = d

(* A step of call c closes its own pending ticket or adds one. *)
Touches(c) ==
  /\ Len(requests) <= Len(requests')
  /\ \A t \in 1 .. Len(requests) :
       \/ requests'[t] = requests[t]
       \/ /\ pc[c] = "receive" /\ t = call[c].ticket
          /\ requests'[t].size = requests[t].size /\ requests'[t].status # "pending"
  /\ pc[c] = "receive" => requests'[call[c].ticket].status # "pending"
  /\ \A t \in 1 .. Len(requests') :
       t > Len(requests) => pc'[c] = "receive" /\ call'[c].ticket = t
  /\ pc'[c] = "receive" => call'[c].ticket > Len(requests)

(* A step of one call keeps what is said of all calls, of orphans, and of   *)
(* the requests, if it keeps what is said of that call.                     *)
LEMMA CallStep ==
  ASSUME IInv, NEW c \in Calls, Alone(c), Touches(c), CallInv(c)', requests' \in Seq(Requests),
         stopped' = "none" => stopped = "none", up' = up
  PROVE  CallsPart' /\ OrphansStop' /\ Kept
<1>0. /\ requests \in Seq(Requests) /\ CallInv(c)
      /\ \A d \in Calls : CallInv(d)
      /\ \A d, e \in Calls :
           pc[d] = "receive" /\ pc[e] = "receive" /\ call[d].ticket = call[e].ticket => d = e
  BY DEF IInv, LedgerPart, CallsPart
<1>1. Kept
  <2>1. ASSUME NEW t \in 1 .. Len(requests)
        PROVE  /\ t \in 1 .. Len(requests') /\ requests'[t].size = requests[t].size
               /\ requests[t].status # "pending" => requests'[t] = requests[t]
    <3>1. CASE requests'[t] = requests[t]
      BY <3>1, <1>0 DEF Touches
    <3>2. CASE /\ pc[c] = "receive" /\ t = call[c].ticket
               /\ requests'[t].size = requests[t].size
      BY <3>2, <1>0 DEF Touches, CallInv
    <3>. QED BY <3>1, <3>2 DEF Touches
  <2>2. DOMAIN requests = 1 .. Len(requests) /\ DOMAIN requests' = 1 .. Len(requests')
    BY <1>0
  <2>. QED BY <2>1, <2>2 DEF Kept
<1>2. ASSUME NEW d \in Calls, d # c PROVE CallInv(d)'
  <2>1. CallInv(d) /\ pc'[d] = pc[d] /\ call'[d] = call[d] /\ (gate = d <=> gate' = d)
    BY <1>0, <1>2 DEF Alone
  <2>2. ASSUME NEW t \in 1 .. Len(requests), t = call[d].ticket, pc[d] = "receive"
        PROVE  requests'[t] = requests[t]
    BY <2>2, <1>0, <1>2 DEF Touches
  <2>3. \A t \in 1 .. Len(requests) :
          /\ t \in 1 .. Len(requests')
          /\ requests[t].status # "pending" => requests'[t] = requests[t]
    BY <1>0, <1>1 DEF Kept
  <2>. QED BY <2>1, <2>2, <2>3 DEF CallInv
<1>3. ASSUME NEW d \in Calls, NEW e \in Calls, pc'[d] = "receive", pc'[e] = "receive",
             call'[d].ticket = call'[e].ticket, d # e
      PROVE  FALSE
  <2>1. \A x \in Calls \ {c} : pc'[x] = "receive" => call'[x].ticket \in 1 .. Len(requests)
    BY <1>0 DEF Alone, CallInv
  <2>2. pc'[c] = "receive" => call'[c].ticket > Len(requests)
    BY DEF Touches
  <2>3. CASE d # c /\ e # c
    BY <2>3, <1>0, <1>3 DEF Alone
  <2>4. CASE d = c
    BY <2>4, <2>1, <2>2, <1>0, <1>3
  <2>5. CASE e = c
    BY <2>5, <2>1, <2>2, <1>0, <1>3
  <2>. QED BY <2>3, <2>4, <2>5
<1>4. CallsPart'
  <2>1. \A d \in Calls : CallInv(d)'
    BY <1>2
  <2>2. pc' \in [Calls -> Labels] /\ call' \in [Calls -> CallType]
    BY DEF Alone
  <2>. QED BY <2>1, <2>2, <1>3 DEF CallsPart
<1>5. OrphansStop'
  <2>1. SUFFICES ASSUME up', stopped' = "none", NEW t \in 1 .. Len(requests'),
                        requests'[t].status = "pending"
                 PROVE  \E d \in Calls : pc'[d] = "receive" /\ call'[d].ticket = t
    BY DEF OrphansStop
  <2>2. CASE t > Len(requests)
    BY <2>2 DEF Touches
  <2>3. CASE t \in 1 .. Len(requests)
    <3>1. requests[t].status = "pending"
      BY <2>1, <2>3 DEF Touches
    <3>2. PICK d \in Calls : pc[d] = "receive" /\ call[d].ticket = t
      BY <2>1, <2>3, <3>1 DEF OrphansStop, IInv
    <3>3. d # c
      BY <2>1, <3>2 DEF Touches
    <3>. QED BY <3>2, <3>3 DEF Alone
  <2>. QED BY <2>2, <2>3, <1>0
<1>. QED BY <1>1, <1>4, <1>5

-----------------------------------------------------------------------------
(* Steps that leave the requests alone *)

(* Nothing is spent by a step that leaves the requests alone. *)
LEMMA NothingSpent ==
  ASSUME IInv, NEW c \in Calls, UNCHANGED requests, pc[c] # "receive", pc'[c] # "receive",
         stopped' = stopped \/ \E reason \in {"final", "review"} : StopWith(reason)
  PROVE  /\ LedgerPart' /\ Touches(c) /\ requests' \in Seq(Requests)
         /\ stopped' = "none" => stopped = "none"
<1>1. requests \in Seq(Requests) /\ stopped \in {"none", "review", "final"} /\ WithinCap
  BY DEF IInv, LedgerPart
<1>2. Touches(c)
  BY <1>1 DEF Touches
<1>3. LedgerPart' /\ (stopped' = "none" => stopped = "none")
  BY <1>1 DEF LedgerPart, WithinCap, Committed, StopWith
<1>. QED BY <1>1, <1>2, <1>3

(* Gateway.active is as it was when no call enters or leaves upstream. *)
LEMMA ActiveSame ==
  ASSUME IInv, UNCHANGED active, \A d \in Calls : Serving(d)' <=> Serving(d),
         gate' \in Calls \cup {None},
         gate' # None => gate' = gate \/ Cardinality(active) < MaxInflight
  PROVE  ActivePart'
BY DEF IInv, ActivePart

(* A call that leaves makes room; so does one that is refused. *)
LEMMA ActiveLeaves ==
  ASSUME IInv, NEW c \in Calls, Done(c), gate' = gate
  PROVE  ActivePart'
<1>1. /\ active = {d \in Calls : Serving(d)} /\ IsFiniteSet(active)
      /\ Cardinality(active) <= MaxInflight /\ gate \in Calls \cup {None}
      /\ gate # None => Cardinality(active) < MaxInflight
      /\ pc \in [Calls -> Labels] /\ MaxInflight \in Nat
  BY SpendingGatewayAssumption DEF IInv, ActivePart, CallsPart
<1>2. active' = active \ {c} /\ pc' = [pc EXCEPT ![c] = "idle"]
  BY DEF Done
<1>3. IsFiniteSet(active') /\ Cardinality(active') \in Nat /\ Cardinality(active) \in Nat
      /\ Cardinality(active') <= Cardinality(active)
  <2>1. IsFiniteSet(active \ {c}) /\ Cardinality(active) \in Nat
        /\ Cardinality(active \ {c}) = IF c \in active THEN Cardinality(active) - 1
                                                      ELSE Cardinality(active)
    BY <1>1, FS_RemoveElement, FS_CardinalityType
  <2>2. Cardinality(active \ {c}) \in Nat
    BY <2>1, FS_CardinalityType
  <2>. QED BY <2>1, <2>2, <1>2
<1>4. active' = {d \in Calls : Serving(d)'}
  BY <1>1, <1>2 DEF Serving
<1>. QED BY <1>1, <1>3, <1>4 DEF ActivePart

(* A call enters where there is room, alone or with the gate it held. *)
LEMMA ActiveEnters ==
  ASSUME IInv, NEW c \in Calls, Admitted(c), Cardinality(active) < MaxInflight, gate' = None
  PROVE  ActivePart'
<1>1. /\ active = {d \in Calls : Serving(d)} /\ IsFiniteSet(active)
      /\ pc \in [Calls -> Labels] /\ MaxInflight \in Nat
  BY SpendingGatewayAssumption DEF IInv, ActivePart, CallsPart
<1>2. active' = active \cup {c} /\ pc' = [pc EXCEPT ![c] = "allowed"]
  BY DEF Admitted, Goto
<1>3. /\ IsFiniteSet(active') /\ Cardinality(active') \in Nat /\ Cardinality(active) \in Nat
      /\ Cardinality(active') <= Cardinality(active) + 1
  <2>1. IsFiniteSet(active \cup {c}) /\ Cardinality(active) \in Nat
        /\ Cardinality(active \cup {c}) = IF c \in active THEN Cardinality(active)
                                                         ELSE Cardinality(active) + 1
    BY <1>1, FS_AddElement, FS_CardinalityType
  <2>2. Cardinality(active \cup {c}) \in Nat
    BY <2>1, FS_CardinalityType
  <2>. QED BY <2>1, <2>2, <1>2
<1>4. active' = {d \in Calls : Serving(d)'}
  BY <1>1, <1>2 DEF Serving
<1>. QED BY <1>1, <1>3, <1>4 DEF ActivePart

-----------------------------------------------------------------------------
(* do_POST *)

(* The facts of a call that the steps of its thread use. *)
LEMMA CallFacts ==
  ASSUME IInv, NEW c \in Calls
  PROVE  /\ pc \in [Calls -> Labels] /\ call \in [Calls -> CallType] /\ call[c] \in CallType
         /\ CallInv(c) /\ pc[c] \in Labels
         /\ requests \in Seq(Requests) /\ Sizes \subseteq Nat \ {0}
         /\ None \notin Calls /\ gate \in Calls \cup {None}
BY SpendingGatewayAssumption DEF IInv, LedgerPart, CallsPart, ActivePart

(* A refused or finished call leaves no trace but the ledger's. *)
LEMMA DoneCall ==
  ASSUME IInv, NEW c \in Calls, Done(c), gate' = gate, pc[c] # "bind"
  PROVE  Alone(c) /\ CallInv(c)' /\ pc'[c] = "idle"
<1>1. NoCall \in CallType
  BY DEF NoCall, CallType
<1>. QED
  BY <1>1, CallFacts DEF Done, Alone, CallInv, Labels, NoCall

(* A call is taken, or refused because admission is closed.                 *)
LEMMA PostInv ==
  ASSUME IInv, NEW c \in Calls, NEW session \in Kids \cup {Root}, NEW size \in Sizes,
         Post(c, session, size)
  PROVE  IInv' /\ Kept
<1>1. ControlPart'
  BY DEF Post, IInv, ControlPart, control, guarded
<1>2. Alone(c) /\ CallInv(c)' /\ pc'[c] \in {"idle", "admit"}
  <2>. DEFINE new == [NoCall EXCEPT !.session = session, !.size = size]
  <2>1. CASE ~enabled
    BY <2>1, CallFacts DEF Post, Alone, CallInv
  <2>2. CASE enabled
    <3>1. new \in CallType /\ new.session = session /\ new.size = size /\ new.ticket = 0
      BY CallFacts DEF NoCall, CallType
    <3>2. pc' = [pc EXCEPT ![c] = "admit"] /\ call' = [call EXCEPT ![c] = new]
          /\ gate' = gate /\ pc[c] = "idle"
      BY <2>2 DEF Post, Goto
    <3>. HIDE DEF new
    <3>3. pc' \in [Calls -> Labels] /\ call' \in [Calls -> CallType]
          /\ pc'[c] = "admit" /\ call'[c] = new
      BY <3>1, <3>2, CallFacts DEF Labels
    <3>. QED BY <3>1, <3>2, <3>3, CallFacts DEF Alone, CallInv
  <2>. QED BY <2>1, <2>2
<1>3. ActivePart'
  <2>1. \A d \in Calls : Serving(d)' <=> Serving(d)
    BY <1>2 DEF Serving, Alone, Post
  <2>. QED BY <2>1, ActiveSame, CallFacts DEF Post
<1>4. LedgerPart' /\ Touches(c) /\ requests' \in Seq(Requests)
      /\ (stopped' = "none" => stopped = "none") /\ up' = up
  BY <1>2, NothingSpent DEF Post
<1>. QED BY <1>1, <1>2, <1>3, <1>4, CallStep DEF IInv

(* The limit and the child session, under Gateway.lock.                     *)
LEMMA AdmitInv ==
  ASSUME IInv, NEW c \in Calls, Admit(c)
  PROVE  IInv' /\ Kept
<1>. DEFINE session  == call[c].session
            crowded  == Cardinality(active) >= MaxInflight
            stranger == session # Root /\ child_session \notin {None, session}
<1>0. /\ pc[c] = "admit" /\ gate = None /\ up' = up /\ UNCHANGED requests
      /\ UNCHANGED <<control, up, guarded, restarts>>
  BY DEF Admit
<1>1. ControlPart'
  BY <1>0 DEF IInv, ControlPart, control, guarded
<1>2. CASE StopWith("final") /\ Done(c) /\ UNCHANGED gate
  <2>1. Alone(c) /\ CallInv(c)' /\ pc'[c] = "idle"
    BY <1>0, <1>2, DoneCall
  <2>2. ActivePart'
    BY <1>2, ActiveLeaves
  <2>3. LedgerPart' /\ Touches(c) /\ requests' \in Seq(Requests)
        /\ (stopped' = "none" => stopped = "none")
    BY <1>0, <1>2, <2>1, NothingSpent
  <2>. QED BY <1>0, <1>1, <2>1, <2>2, <2>3, CallStep DEF IInv
<1>3. CASE /\ ~crowded /\ session # Root /\ child_session = None
           /\ gate' = c /\ Goto(c, "bind")
           /\ call' = [call EXCEPT ![c].enabled = enabled]
           /\ UNCHANGED <<stopped, active>>
  <2>0. enabled \in BOOLEAN
    BY DEF IInv, ControlPart
  <2>1. Alone(c) /\ CallInv(c)' /\ pc'[c] = "bind"
    <3>1. call' \in [Calls -> CallType]
      BY <1>3, <2>0, CallFacts DEF CallType
    <3>2. pc' \in [Calls -> Labels] /\ pc'[c] = "bind"
      BY <1>3, CallFacts DEF Goto, Labels
    <3>3. Alone(c)
      BY <1>0, <1>3, <3>1, <3>2, CallFacts DEF Goto, Alone
    <3>4. CallInv(c)'
      BY <1>0, <1>3, <3>2, CallFacts DEF CallInv, CallType
    <3>. QED BY <3>2, <3>3, <3>4
  <2>2. ActivePart'
    <3>1. \A d \in Calls : Serving(d)' <=> Serving(d)
      BY <1>0, <2>1 DEF Serving, Alone
    <3>2. Cardinality(active) < MaxInflight
      BY <1>3, SpendingGatewayAssumption, FS_CardinalityType DEF IInv, ActivePart
    <3>. QED BY <1>3, <3>1, <3>2, ActiveSame
  <2>3. LedgerPart' /\ Touches(c) /\ requests' \in Seq(Requests)
        /\ (stopped' = "none" => stopped = "none")
    BY <1>0, <1>3, <2>1, NothingSpent
  <2>. QED BY <1>0, <1>1, <2>1, <2>2, <2>3, CallStep DEF IInv
<1>4. CASE ~crowded /\ Admitted(c) /\ UNCHANGED <<stopped, gate>>
  <2>1. Alone(c) /\ CallInv(c)' /\ pc'[c] = "allowed"
    <3>1. call' \in [Calls -> CallType]
      BY <1>4, CallFacts, ZenonT(60) DEF CallType, Admitted
    <3>2. pc' \in [Calls -> Labels] /\ pc'[c] = "allowed"
      BY <1>4, CallFacts DEF Goto, Labels, Admitted
    <3>3. Alone(c)
      BY <1>0, <1>4, <3>1, <3>2, CallFacts DEF Goto, Alone, Admitted
    <3>4. CallInv(c)'
      BY <1>0, <1>4, <3>2, CallFacts DEF CallInv, CallType, Admitted
    <3>. QED BY <3>2, <3>3, <3>4
  <2>2. ActivePart'
    <3>2. Cardinality(active) < MaxInflight
      BY <1>4, SpendingGatewayAssumption, FS_CardinalityType DEF IInv, ActivePart
    <3>. QED BY <1>0, <1>4, <3>2, ActiveEnters
  <2>3. LedgerPart' /\ Touches(c) /\ requests' \in Seq(Requests)
        /\ (stopped' = "none" => stopped = "none")
    BY <1>0, <1>4, <2>1, NothingSpent
  <2>. QED BY <1>0, <1>1, <2>1, <2>2, <2>3, CallStep DEF IInv
<1>. QED BY <1>2, <1>3, <1>4 DEF Admit

(* The control is written back with the new child session.                  *)
LEMMA BindInv ==
  ASSUME IInv, NEW c \in Calls, Bind(c)
  PROVE  IInv' /\ Kept
<1>0. pc[c] = "bind" /\ gate = c /\ gate' = None /\ Admitted(c) /\ up' = up /\ UNCHANGED ledger
  BY CallFacts DEF Bind, CallInv
<1>1. ControlPart'
  BY <1>0, CallFacts DEF Bind, IInv, ControlPart, guarded, CallInv, CallType
<1>2. Alone(c) /\ CallInv(c)' /\ pc'[c] = "allowed"
  <2>1. call' \in [Calls -> CallType]
    BY <1>0, CallFacts, ZenonT(60) DEF CallType, Admitted
  <2>2. pc' \in [Calls -> Labels] /\ pc'[c] = "allowed"
    BY <1>0, CallFacts DEF Goto, Labels, Admitted
  <2>3. Alone(c)
    BY <1>0, <2>1, <2>2, CallFacts DEF Goto, Alone, Admitted
  <2>4. CallInv(c)'
    BY <1>0, <2>2, CallFacts DEF CallInv, CallType, Admitted
  <2>. QED BY <2>2, <2>3, <2>4
<1>3. ActivePart'
  <2>1. Cardinality(active) < MaxInflight
    BY <1>0, SpendingGatewayAssumption DEF IInv, ActivePart
  <2>. QED BY <1>0, <2>1, ActiveEnters
<1>4. LedgerPart' /\ Touches(c) /\ requests' \in Seq(Requests)
      /\ (stopped' = "none" => stopped = "none")
  BY <1>0, <1>2, NothingSpent DEF ledger
<1>. QED BY <1>0, <1>1, <1>2, <1>3, <1>4, CallStep DEF IInv

(* A client that breaks off only stops the ledger.                          *)
LEMMA DisconnectInv ==
  ASSUME IInv, NEW c \in Calls, Disconnect(c)
  PROVE  IInv' /\ Kept
<1>0. StopWith("final") /\ UNCHANGED <<requests, control, up, serving, guarded, restarts>>
  BY DEF Disconnect
<1>1. ControlPart' /\ ActivePart' /\ CallsPart'
  BY <1>0 DEF IInv, ControlPart, ActivePart, CallsPart, CallInv, Serving, control, serving,
              guarded
<1>2. LedgerPart' /\ OrphansStop'
  BY <1>0 DEF IInv, LedgerPart, WithinCap, Committed, StopWith, OrphansStop, serving
<1>3. Kept
  BY <1>0 DEF Kept
<1>. QED BY <1>1, <1>2, <1>3 DEF IInv

-----------------------------------------------------------------------------
(* upstream *)

(* A closed ticket: the request keeps its size, is charged no more than was *)
(* reserved, and the sum does not pass the cap.                             *)
LEMMA CloseTicket ==
  ASSUME IInv, NEW c \in Calls, pc[c] = "receive", pc'[c] # "receive",
         NEW r \in Requests, r.size = requests[call[c].ticket].size,
         r.status # "pending", Charge(r) <= r.size,
         requests' = [requests EXCEPT ![call[c].ticket] = r],
         stopped' = stopped \/ stopped' = "final"
  PROVE  /\ LedgerPart' /\ Touches(c) /\ requests' \in Seq(Requests)
         /\ stopped' = "none" => stopped = "none"
<1>. DEFINE t == call[c].ticket
<1>1. /\ requests \in Seq(Requests) /\ stopped \in {"none", "review", "final"} /\ WithinCap
      /\ t \in 1 .. Len(requests) /\ requests[t].status = "pending"
  BY CallFacts DEF IInv, LedgerPart, CallInv
<1>2. /\ requests' \in Seq(Requests) /\ Len(requests') = Len(requests) /\ requests'[t] = r
      /\ \A u \in 1 .. Len(requests) : u # t => requests'[u] = requests[u]
  BY <1>1
<1>3. \A u \in 1 .. Len(requests) : Charge(requests'[u]) <= Charge(requests[u])
  <2>1. ASSUME NEW u \in 1 .. Len(requests)
        PROVE  Charge(requests'[u]) <= Charge(requests[u])
    <3>1. CASE u = t
      BY <3>1, <1>1, <1>2 DEF Charge
    <3>2. CASE u # t
      <4>1. Charge(requests[u]) \in Nat
        BY <1>1, ChargeNat
      <4>. QED BY <4>1, <3>2, <1>2
    <3>. QED BY <3>1, <3>2
  <2>. QED BY <2>1
<1>4. Total(requests') <= Total(requests) /\ Total(requests') \in Nat /\ Total(requests) \in Nat
  BY <1>1, <1>2, <1>3, TotalFalls, TotalNat
<1>5. WithinCap'
  BY <1>1, <1>4, SpendingGatewayAssumption DEF WithinCap, Committed
<1>6. Touches(c)
  BY <1>1, <1>2 DEF Touches
<1>7. stopped' \in {"none", "review", "final"} /\ (stopped' = "none" => stopped = "none")
  BY <1>1
<1>. QED BY <1>2, <1>5, <1>6, <1>7 DEF LedgerPart

(* upstream's handler of exceptions ends the call and leaves its ticket,    *)
(* when it has a pending one, reserved.                                     *)
LEMMA FailInv ==
  ASSUME IInv, NEW c \in Calls, pc[c] \in {"allowed", "reserve", "receive", "retry"},
         Fail(c, "final"), UNCHANGED <<control, up, gate, guarded, restarts>>
  PROVE  IInv' /\ Kept
<1>. DEFINE t == call[c].ticket
            r == [requests[t] EXCEPT !.status = "uncertain"]
<1>0. Done(c) /\ gate' = gate /\ up' = up
  BY DEF Fail
<1>1. Alone(c) /\ CallInv(c)' /\ pc'[c] = "idle"
  BY <1>0, DoneCall
<1>2. ActivePart'
  BY <1>0, ActiveLeaves
<1>3. ControlPart'
  BY DEF IInv, ControlPart, control, guarded
<1>4. StopWith("final") /\ (stopped' = stopped \/ stopped' = "final")
  BY DEF Fail, Uncertain, StopWith
<1>5. LedgerPart' /\ Touches(c) /\ requests' \in Seq(Requests)
      /\ (stopped' = "none" => stopped = "none")
  <2>1. CASE pc[c] = "receive"
    <3>1. t \in 1 .. Len(requests) /\ requests[t].status = "pending" /\ requests[t] \in Requests
      BY <2>1, CallFacts DEF CallInv
    <3>2. r \in Requests /\ r.size = requests[t].size /\ r.status = "uncertain"
      BY <3>1 DEF Requests, Statuses
    <3>3. requests' = [requests EXCEPT ![t] = r]
      BY <3>1 DEF Fail, Uncertain
    <3>4. Charge(r) <= r.size
      BY <3>2, SpendingGatewayAssumption DEF Charge, Requests
    <3>. HIDE DEF r
    <3>. QED BY <1>1, <1>4, <2>1, <3>2, <3>3, <3>4, CloseTicket
  <2>2. CASE pc[c] # "receive"
    <3>1. requests' = requests
      BY <2>2, CallFacts DEF Fail, Uncertain, CallInv
    <3>. QED BY <1>1, <1>4, <2>2, <3>1, NothingSpent
  <2>. QED BY <2>1, <2>2
<1>. QED BY <1>0, <1>1, <1>2, <1>3, <1>5, CallStep DEF IInv

(* A call that goes on to another label of upstream, its ticket kept, with  *)
(* the same requests.                                                       *)
LEMMA GoOnInv ==
  ASSUME IInv, NEW c \in Calls, Serving(c), pc[c] # "receive",
         NEW label \in {"allowed", "reserve", "retry"}, Goto(c, label),
         call' \in [Calls -> CallType], \A d \in Calls \ {c} : call'[d] = call[d],
         call'[c].size = call[c].size,
         call'[c].ticket = 0,
         UNCHANGED <<ledger, active, control, up, gate, guarded, restarts>>
  PROVE  IInv' /\ Kept
<1>0. pc' = [pc EXCEPT ![c] = label] /\ requests' = requests /\ stopped' = stopped
  BY DEF Goto, ledger
<1>1. pc' \in [Calls -> Labels] /\ pc'[c] = label
  BY <1>0, CallFacts DEF Labels
<1>2. Alone(c)
  BY <1>0, <1>1, CallFacts DEF Alone
<1>3. CallInv(c)'
  BY <1>1, CallFacts DEF CallInv, Serving
<1>4. ActivePart'
  <2>1. \A d \in Calls : Serving(d)' <=> Serving(d)
    BY <1>1, <1>2 DEF Serving, Alone
  <2>. QED BY <2>1, ActiveSame, CallFacts
<1>5. ControlPart'
  BY DEF IInv, ControlPart, control, guarded
<1>6. LedgerPart' /\ Touches(c) /\ requests' \in Seq(Requests)
      /\ (stopped' = "none" => stopped = "none")
  BY <1>0, <1>1, NothingSpent
<1>. QED BY <1>2, <1>3, <1>4, <1>5, <1>6, CallStep DEF IInv

(* Before an attempt the control and the ledger are read again.             *)
LEMMA AllowedInv ==
  ASSUME IInv, NEW c \in Calls, Allowed(c)
  PROVE  IInv' /\ Kept
<1>0. pc[c] = "allowed" /\ Serving(c) /\ call[c].ticket = 0
      /\ UNCHANGED <<control, up, gate, guarded, restarts>>
  BY CallFacts DEF Allowed, Serving, CallInv
<1>1. CASE /\ Goto(c, "reserve") /\ call' = [call EXCEPT ![c].counted = TRUE]
           /\ UNCHANGED <<ledger, active>>
  <2>1. call' \in [Calls -> CallType] /\ call'[c].size = call[c].size /\ call'[c].ticket = 0
        /\ \A d \in Calls \ {c} : call'[d] = call[d]
    BY <1>0, <1>1, CallFacts DEF CallType
  <2>. QED BY <1>0, <1>1, <2>1, GoOnInv
<1>2. CASE Goto(c, "retry") /\ UNCHANGED <<ledger, active, call>>
  BY <1>0, <1>2, CallFacts, GoOnInv
<1>3. CASE Fail(c, "final")
  BY <1>0, <1>3, FailInv
<1>. QED BY <1>1, <1>2, <1>3 DEF Allowed

(* An overload gives the attempt up or takes another.                       *)
LEMMA RetryInv ==
  ASSUME IInv, NEW c \in Calls, Retry(c)
  PROVE  IInv' /\ Kept
<1>0. pc[c] = "retry" /\ Serving(c) /\ UNCHANGED <<control, up, gate, guarded, restarts>>
  BY DEF Retry, Serving
<1>1. CASE Fail(c, "final")
  BY <1>0, <1>1, FailInv
<1>2. CASE /\ Goto(c, "allowed") /\ UNCHANGED <<ledger, active>>
           /\ call' = [call EXCEPT ![c].attempt = call[c].attempt + 1, ![c].ticket = 0]
  <2>1. call' \in [Calls -> CallType] /\ call'[c].size = call[c].size /\ call'[c].ticket = 0
        /\ \A d \in Calls \ {c} : call'[d] = call[d]
    <3>0. PICK a \in Nat : a = call[c].attempt + 1
      BY CallFacts DEF CallType
    <3>. DEFINE new == [call[c] EXCEPT !.attempt = a, !.ticket = 0]
    <3>1. new \in CallType /\ new.size = call[c].size /\ new.ticket = 0
      BY CallFacts DEF CallType
    <3>2. call' = [call EXCEPT ![c] = new]
      BY <1>2, <3>0, CallFacts
    <3>. HIDE DEF new
    <3>. QED BY <3>1, <3>2, CallFacts
  <2>. QED BY <1>0, <1>2, <2>1, GoOnInv
<1>. QED BY <1>1, <1>2 DEF Retry

(* Settled output is passed on.                                             *)
LEMMA EmitInv ==
  ASSUME IInv, NEW c \in Calls, Emit(c)
  PROVE  IInv' /\ Kept
<1>0. pc[c] = "emit" /\ Done(c) /\ gate' = gate /\ up' = up /\ UNCHANGED ledger
  BY DEF Emit
<1>1. Alone(c) /\ CallInv(c)' /\ pc'[c] = "idle"
  BY <1>0, DoneCall
<1>2. ActivePart'
  BY <1>0, ActiveLeaves
<1>3. ControlPart'
  BY DEF Emit, IInv, ControlPart, control, guarded
<1>4. LedgerPart' /\ Touches(c) /\ requests' \in Seq(Requests)
      /\ (stopped' = "none" => stopped = "none")
  BY <1>0, <1>1, NothingSpent DEF ledger
<1>. QED BY <1>0, <1>1, <1>2, <1>3, <1>4, CallStep DEF IInv

(* A reservation fits under the cap with all others and gets a new ticket.  *)
LEMMA ReserveInv ==
  ASSUME IInv, NEW c \in Calls, Reserve(c)
  PROVE  IInv' /\ Kept
<1>. DEFINE new == NewRequest(call[c].size)
<1>0. pc[c] = "reserve" /\ Serving(c) /\ UNCHANGED <<control, up, gate, guarded, restarts>>
  BY DEF Reserve, Serving
<1>1. CASE Fail(c, "final")
  BY <1>0, <1>1, FailInv
<1>2. CASE /\ Fits(call[c].size)
           /\ requests' = Append(requests, new)
           /\ call' = [call EXCEPT ![c].ticket = Len(requests) + 1]
           /\ Goto(c, "receive")
           /\ UNCHANGED <<stopped, active>>
  <2>1. /\ new \in Requests /\ new.status = "pending" /\ new.size = call[c].size
        /\ Charge(new) = call[c].size /\ call[c].size \in Sizes
    BY <1>0, CallFacts DEF NewRequest, Requests, Statuses, Charge, CallInv
  <2>. HIDE DEF new
  <2>2. /\ requests' \in Seq(Requests) /\ Len(requests') = Len(requests) + 1
        /\ requests'[Len(requests) + 1] = new
        /\ \A t \in 1 .. Len(requests) : requests'[t] = requests[t]
    BY <1>2, <2>1, CallFacts
  <2>3. pc' \in [Calls -> Labels] /\ pc'[c] = "receive"
    BY <1>2, CallFacts DEF Goto, Labels
  <2>4. call' \in [Calls -> CallType] /\ call'[c].size = call[c].size
        /\ call'[c].ticket = Len(requests) + 1 /\ Len(requests) \in Nat
    <3>1. PICK t \in Nat : t = Len(requests) + 1
      BY CallFacts
    <3>. DEFINE next == [call[c] EXCEPT !.ticket = t]
    <3>2. next \in CallType /\ next.size = call[c].size /\ next.ticket = t
      BY CallFacts DEF CallType
    <3>3. call' = [call EXCEPT ![c] = next]
      BY <1>2, <3>1, CallFacts
    <3>. HIDE DEF next
    <3>. QED BY <3>1, <3>2, <3>3, CallFacts
  <2>5. Alone(c)
    BY <1>0, <1>2, <2>3, <2>4 DEF Alone, Goto
  <2>6. Touches(c)
    BY <1>0, <2>2, <2>3, <2>4 DEF Touches
  <2>7. CallInv(c)'
    BY <1>0, <2>1, <2>2, <2>3, <2>4, CallFacts DEF CallInv
  <2>8. ActivePart'
    <3>1. \A d \in Calls : Serving(d)' <=> Serving(d)
      BY <1>0, <2>3, <2>5 DEF Serving, Alone
    <3>. QED BY <1>0, <1>2, <3>1, ActiveSame, CallFacts
  <2>9. ControlPart'
    BY <1>0 DEF IInv, ControlPart, control, guarded
  <2>10. LedgerPart'
    <3>1. WithinCap'
      BY <1>2, <2>1, TotalAppend, CallFacts DEF WithinCap, Committed, Fits
    <3>. QED BY <1>2, <2>2, <3>1 DEF IInv, LedgerPart
  <2>. QED BY <1>0, <1>2, <2>2, <2>5, <2>6, <2>7, <2>8, <2>9, <2>10, CallStep DEF IInv
<1>. QED BY <1>1, <1>2 DEF Reserve

(* An answer that closes the ticket of the call and lets it go on, or ends  *)
(* it.                                                                      *)
LEMMA AnswerInv ==
  ASSUME IInv, NEW c \in Calls, pc[c] = "receive",
         UNCHANGED <<control, up, gate, guarded, restarts>>,
         NEW r \in Requests, r.size = requests[call[c].ticket].size,
         r.status # "pending", Charge(r) <= r.size,
         requests' = [requests EXCEPT ![call[c].ticket] = r],
         stopped' = stopped \/ stopped' = "final",
         \/ Done(c)
         \/ \E label \in {"emit", "retry"} : Goto(c, label) /\ UNCHANGED <<active, call>>
  PROVE  IInv' /\ Kept
<1>0. ControlPart' /\ up' = up /\ gate' = gate
  BY DEF IInv, ControlPart, control, guarded
<1>1. pc'[c] \in {"idle", "emit", "retry"}
  BY CallFacts DEF Done, Goto
<1>2. LedgerPart' /\ Touches(c) /\ requests' \in Seq(Requests)
      /\ (stopped' = "none" => stopped = "none")
  BY <1>1, CloseTicket
<1>3. CASE Done(c)
  <2>1. Alone(c) /\ CallInv(c)'
    BY <1>0, <1>3, DoneCall
  <2>2. ActivePart'
    BY <1>0, <1>3, ActiveLeaves
  <2>. QED BY <1>0, <1>2, <2>1, <2>2, CallStep DEF IInv
<1>4. ASSUME NEW label \in {"emit", "retry"}, Goto(c, label), UNCHANGED <<active, call>>
      PROVE  IInv' /\ Kept
  <2>1. pc' \in [Calls -> Labels] /\ pc'[c] = label
    BY <1>4, CallFacts DEF Goto, Labels
  <2>2. Alone(c)
    BY <1>0, <1>4, <2>1, CallFacts DEF Alone, Goto
  <2>3. ActivePart'
    <3>1. \A d \in Calls : Serving(d)' <=> Serving(d)
      BY <2>1, <2>2 DEF Serving, Alone
    <3>. QED BY <1>0, <1>4, <3>1, ActiveSame, CallFacts
  <2>4. CallInv(c)'
    <3>1. call[c].ticket \in 1 .. Len(requests) /\ Len(requests') = Len(requests)
          /\ requests'[call[c].ticket].status # "pending"
      BY CallFacts DEF CallInv
    <3>. QED BY <1>0, <1>4, <2>1, <3>1, CallFacts DEF CallInv
  <2>. QED BY <1>0, <1>2, <2>2, <2>3, <2>4, CallStep DEF IInv
<1>. QED BY <1>3, <1>4

(* Every answer closes the ticket with no more than was reserved.           *)
LEMMA ReceiveInv ==
  ASSUME IInv, NEW c \in Calls, Receive(c)
  PROVE  IInv' /\ Kept
<1>. DEFINE t == call[c].ticket
<1>0. pc[c] = "receive" /\ UNCHANGED <<control, up, gate, guarded, restarts>>
  BY DEF Receive
<1>1. /\ t \in 1 .. Len(requests) /\ requests[t].size = call[c].size
      /\ requests[t] \in Requests /\ requests[t].size \in Nat
  <2>1. /\ t \in 1 .. Len(requests) /\ requests[t].size = call[c].size
        /\ requests[t] \in Requests /\ Sizes \subseteq Nat
    BY <1>0, CallFacts DEF CallInv
  <2>. QED BY <2>1 DEF Requests
<1>2. ASSUME NEW charge \in 1 .. call[c].size, Settle(t, charge),
             \E label \in {"emit", "retry"} : Goto(c, label),
             stopped' = stopped \/ stopped' = "final",
             UNCHANGED <<active, call>>
      PROVE  IInv' /\ Kept
  <2>. DEFINE r == [requests[t] EXCEPT !.status = "settled", !.charged = charge]
  <2>1. r \in Requests /\ r.size = requests[t].size /\ r.status = "settled" /\ r.charged = charge
    <3>1. charge \in Nat
      BY <1>1, <1>2
    <3>. QED BY <1>1, <3>1 DEF Requests, Statuses
  <2>2. requests' = [requests EXCEPT ![t] = r]
    BY <1>1, <1>2 DEF Settle
  <2>. HIDE DEF r
  <2>3. Charge(r) <= r.size
    BY <1>1, <2>1 DEF Charge
  <2>. QED BY <1>0, <1>2, <2>1, <2>2, <2>3, AnswerInv
<1>3. ASSUME NEW status \in {"capacity_hold", "violation"},
             requests' = [requests EXCEPT ![t].status = status],
             \/ Goto(c, "retry") /\ UNCHANGED <<stopped, active, call>>
             \/ stopped' = "final" /\ Done(c)
      PROVE  IInv' /\ Kept
  <2>. DEFINE r == [requests[t] EXCEPT !.status = status]
  <2>1. r \in Requests /\ r.size = requests[t].size /\ r.status = status
    BY <1>1, <1>3 DEF Requests, Statuses
  <2>2. requests' = [requests EXCEPT ![t] = r]
    BY <1>1, <1>3
  <2>. HIDE DEF r
  <2>3. Charge(r) <= r.size
    BY <1>1, <2>1 DEF Charge
  <2>4. stopped' = stopped \/ stopped' = "final"
    BY <1>3
  <2>. QED BY <1>0, <1>3, <2>1, <2>2, <2>3, <2>4, AnswerInv
<1>4. ASSUME StopWith("final") PROVE stopped' = stopped \/ stopped' = "final"
  BY <1>4 DEF StopWith
<1>5. ASSUME NEW charge \in 1 .. call[c].size, Settle(t, charge),
             \/ Goto(c, "emit") /\ (StopWith("final") \/ UNCHANGED stopped)
             \/ Goto(c, "retry") /\ UNCHANGED stopped,
             UNCHANGED <<active, call>>
      PROVE  IInv' /\ Kept
  BY <1>2, <1>4, <1>5
<1>6. CASE /\ requests' = [requests EXCEPT ![t].status = "capacity_hold"]
           /\ Goto(c, "retry") /\ UNCHANGED <<stopped, active, call>>
  BY <1>3, <1>6
<1>7. CASE /\ requests' = [requests EXCEPT ![t].status = "violation"]
           /\ stopped' = "final" /\ Done(c)
  BY <1>3, <1>7
<1>8. CASE Fail(c, "final")
  BY <1>0, <1>8, FailInv
<1>. QED BY <1>5, <1>6, <1>7, <1>8 DEF Receive

-----------------------------------------------------------------------------
(* The gateway's process, the guardian and the environment *)

(* The gateway dies with its calls; pending tickets outlive them until it   *)
(* starts again.                                                            *)
LEMMA CrashInv ==
  ASSUME IInv, Crash
  PROVE  IInv' /\ Kept
<1>1. ControlPart'
  <2>1. restarts' \in 0 .. MaxRestarts
    BY SpendingGatewayAssumption DEF Crash, IInv, ControlPart
  <2>. QED BY <2>1 DEF Crash, IInv, ControlPart, control, guarded
<1>2. active' = {} /\ pc' = [c \in Calls |-> "idle"] /\ call' = [c \in Calls |-> NoCall]
      /\ gate' = None /\ up' = FALSE /\ requests' = requests /\ stopped' = stopped
  BY DEF Crash, ledger
<1>3. ActivePart'
  <2>1. IsFiniteSet({}) /\ Cardinality({}) = 0
    BY FS_EmptySet
  <2>2. active' = {c \in Calls : Serving(c)'}
    BY <1>2 DEF Serving
  <2>. QED BY <1>2, <2>1, <2>2, SpendingGatewayAssumption DEF ActivePart
<1>4. CallsPart'
  <2>1. NoCall \in CallType /\ NoCall.ticket = 0
    BY DEF NoCall, CallType
  <2>2. pc' \in [Calls -> Labels] /\ call' \in [Calls -> CallType]
    BY <1>2, <2>1 DEF Labels
  <2>3. \A c \in Calls : CallInv(c)'
    BY <1>2, <2>1, SpendingGatewayAssumption DEF CallInv
  <2>. QED BY <1>2, <2>2, <2>3 DEF CallsPart
<1>5. LedgerPart' /\ OrphansStop' /\ Kept
  BY <1>2 DEF IInv, LedgerPart, WithinCap, Committed, OrphansStop, Kept
<1>. QED BY <1>1, <1>3, <1>4, <1>5 DEF IInv

(* Steps that touch neither the calls nor the requests. *)
LEMMA AsideInv ==
  ASSUME IInv, UNCHANGED <<requests, serving>>, ControlPart',
         stopped' \in {"none", "review", "final"},
         up' /\ stopped' = "none" => \/ up /\ stopped = "none"
                                     \/ \A t \in DOMAIN requests : requests[t].status # "pending"
  PROVE  IInv' /\ Kept
<1>1. ActivePart' /\ CallsPart'
  BY DEF IInv, ActivePart, CallsPart, CallInv, Serving, serving
<1>2. LedgerPart' /\ OrphansStop' /\ Kept
  BY DEF IInv, LedgerPart, WithinCap, Committed, OrphansStop, serving, Kept
<1>. QED BY <1>1, <1>2 DEF IInv

(* Start stops a ledger with orphans, and Recover takes none that has any.  *)
LEMMA OtherInv ==
  ASSUME IInv, Start \/ Recover \/ Look \/ Fault \/ Disable \/ Close \/ Enable
  PROVE  IInv' /\ Kept
<1>0. ControlPart /\ stopped \in {"none", "review", "final"}
  BY DEF IInv, LedgerPart
<1>1. CASE Start
  <2>1. ControlPart'
    BY <1>0, <1>1 DEF Start, ControlPart, control, guarded
  <2>2. stopped' \in {"none", "review", "final"} /\ UNCHANGED <<requests, serving>>
        /\ (stopped' = "none" => \A t \in DOMAIN requests : requests[t].status # "pending")
    BY <1>0, <1>1 DEF Start, Has, StopWith
  <2>. QED BY <2>1, <2>2, AsideInv
<1>2. CASE Recover
  <2>1. ControlPart'
    BY <1>0, <1>2 DEF Recover, ControlPart, control, guarded
  <2>2. stopped' = "none" /\ UNCHANGED <<requests, serving>>
        /\ \A t \in DOMAIN requests : requests[t].status # "pending"
    BY <1>2 DEF Recover, Has
  <2>. QED BY <2>1, <2>2, AsideInv
<1>3. CASE Look \/ Fault \/ Disable \/ Close \/ Enable
  <2>1. ControlPart'
    BY <1>0, <1>3
       DEF Look, Fault, Disable, Close, Enable, ReadControl, ControlPart, control,
                      guarded
  <2>2. /\ stopped' \in {"none", "review", "final"} /\ UNCHANGED <<requests, serving>>
        /\ up' = up /\ (stopped' = "none" => stopped = "none")
    BY <1>0, <1>3 DEF Look, Fault, Disable, Close, Enable, ledger, StopWith
  <2>. QED BY <2>1, <2>2, AsideInv
<1>. QED BY <1>1, <1>2, <1>3

-----------------------------------------------------------------------------
(* A new campaign has spent nothing.                                        *)
LEMMA InitInv == Init => IInv
<1>. SUFFICES ASSUME Init PROVE IInv
  OBVIOUS
<1>1. requests = <<>> /\ stopped = "none" /\ gate = None /\ active = {}
      /\ pc = [c \in Calls |-> "idle"] /\ call = [c \in Calls |-> NoCall]
  BY DEF Init
<1>2. LedgerPart
  <2>1. requests \in Seq(Requests)
    BY <1>1
  <2>2. Total(requests) = 0
    BY <1>1, <2>1, TotalNat
  <2>. QED BY <1>1, <2>1, <2>2, SpendingGatewayAssumption DEF LedgerPart, WithinCap, Committed
<1>3. ControlPart
  <2>1. restarts \in 0 .. MaxRestarts
    BY SpendingGatewayAssumption DEF Init
  <2>. QED BY <2>1 DEF Init, ControlPart
<1>4. ActivePart
  <2>1. IsFiniteSet({}) /\ Cardinality({}) = 0
    BY FS_EmptySet
  <2>2. active = {c \in Calls : Serving(c)}
    BY <1>1 DEF Serving
  <2>. QED BY <1>1, <2>1, <2>2, SpendingGatewayAssumption DEF ActivePart
<1>5. CallsPart
  <2>1. NoCall \in CallType /\ NoCall.ticket = 0
    BY DEF NoCall, CallType
  <2>2. pc \in [Calls -> Labels] /\ call \in [Calls -> CallType]
    BY <1>1, <2>1 DEF Labels
  <2>3. \A c \in Calls : CallInv(c)
    BY <1>1, <2>1, SpendingGatewayAssumption DEF CallInv
  <2>. QED BY <1>1, <2>2, <2>3 DEF CallsPart
<1>6. OrphansStop
  BY <1>1 DEF OrphansStop
<1>. QED BY <1>2, <1>3, <1>4, <1>5, <1>6 DEF IInv

(* Every step keeps the invariant and every request. *)
LEMMA NextInv == IInv /\ [Next]_vars => IInv' /\ (Kept \/ UNCHANGED vars)
<1>. SUFFICES ASSUME IInv, [Next]_vars PROVE IInv' /\ (Kept \/ UNCHANGED vars)
  OBVIOUS
<1>1. CASE Next
  <2>1. ASSUME NEW c \in Calls, NEW session \in Kids \cup {Root}, NEW size \in Sizes,
               Post(c, session, size)
        PROVE  IInv' /\ Kept
    BY <2>1, PostInv
  <2>2. ASSUME NEW c \in Calls, Step(c) \/ Disconnect(c) PROVE IInv' /\ Kept
    BY <2>2, AdmitInv, BindInv, AllowedInv, ReserveInv, ReceiveInv, EmitInv, RetryInv,
       DisconnectInv DEF Step
  <2>. QED BY <1>1, <2>1, <2>2, CrashInv, OtherInv DEF Next
<1>2. CASE UNCHANGED vars
  <2>1. UNCHANGED <<requests, serving, stopped, up>> /\ ControlPart'
    BY <1>2 DEF vars, ledger, control, guarded, IInv, ControlPart
  <2>2. stopped \in {"none", "review", "final"}
    BY DEF IInv, LedgerPart
  <2>. QED BY <1>2, <2>1, <2>2, AsideInv
<1>. QED BY <1>1, <1>2

(* The invariant holds in every reachable state. *)
THEOREM Invariance == Spec => []IInv
BY InitInv, NextInv, PTL DEF Spec

(* The variables keep their types, the calls being served are the active    *)
(* ones, never more than allowed, and a call that waits for its answer has  *)
(* a pending ticket.                                                        *)
THEOREM TypeCorrect == Spec => []TypeOK
<1>1. IInv => TypeOK
  BY DEF IInv, LedgerPart, ControlPart, ActivePart, CallsPart, CallInv, TypeOK
<1>. QED BY <1>1, Invariance, PTL

(* A request whose answer nobody waits for is never left behind by a        *)
(* running campaign (check_pending, recover_infrastructure).                *)
THEOREM OrphansAreStopped == Spec => []OrphansStop
<1>1. IInv => OrphansStop
  BY DEF IInv
<1>. QED BY <1>1, Invariance, PTL

(* Charges and outstanding reservations never pass the cap, and what was    *)
(* reserved is charged or kept, however many threads reserve at once and    *)
(* whatever dies and is recovered.                                          *)
THEOREM SpendingIsAccounted == Spec => SpendingAccounted
<1>1. IInv => WithinCap
  BY DEF IInv, LedgerPart
<1>2. IInv /\ [Next]_vars =>
        [\A t \in DOMAIN requests :
           /\ t \in DOMAIN requests'
           /\ requests'[t].size = requests[t].size
           /\ requests[t].status # "pending" => requests'[t] = requests[t]]_vars
  BY NextInv DEF Kept
<1>3. Spec => []WithinCap
  BY <1>1, Invariance, PTL
<1>4. Spec => ChargesKept
  <2>1. Spec => []IInv /\ [][Next]_vars
    BY Invariance, PTL DEF Spec
  <2>. QED BY <1>2, <2>1, PTL DEF ChargesKept
<1>. QED BY <1>3, <1>4, PTL DEF SpendingAccounted
=============================================================================
