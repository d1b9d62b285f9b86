----------------------------- MODULE AccountsProofs -----------------------------
(***************************************************************************)
(* Proofs about what a person and a business have with Algebra: policy     *)
(* sets, sessions, profiles, agents and their tokens, and the limiter they *)
(* pass; and the types of every service's tables.  The frame is that of    *)
(* ServicesProofs: a step of one service moves no request of another's and *)
(* leaves its tables alone.                                                *)
(***************************************************************************)
EXTENDS ServicesProofs, FiniteSetTheorems

\* What was cut short stays on record.
LEMMA CutsAreKept == ASSUME [Next]_vars PROVE cut \subseteq cut'
<1>1. ASSUME NEW c \in Calls, Fails(c) \/ Cuts(c) PROVE cut \subseteq cut'
  BY <1>1 DEF Fails, Cuts
<1>2. CASE BillingNext \/ CodeGrantsNext
  BY <1>1, <1>2 DEF BillingNext, CodeGrantsNext
<1>3. CASE ProfilesNext
  <2>1. ASSUME NEW c \in Calls, ErrorDropped(c) PROVE Cuts(c)
    BY <2>1 DEF ErrorDropped, Drops
  <2> QED BY <1>1, <1>3, <2>1 DEF ProfilesNext, AccountsNext, Breaks, TimePasses, VaultForgets
<1>4. CASE TenantsNext \/ PolicySetsNext \/ SearchNext
  BY <1>1, <1>4 DEF TenantsNext, PolicySetsNext, SearchNext
<1>5. CASE InstamartNext
  <2>1. ASSUME NEW c \in Calls, AnswerLost(c) PROVE cut \subseteq cut'
    BY <1>1, <2>1 DEF AnswerLost, Drops
  <2> QED BY <1>1, <1>5, <2>1 DEF InstamartNext
<1>6. CASE RateLimitNext
  <2>1. ASSUME NEW c \in Calls, FailOpen(c) PROVE Cuts(c)
    BY <2>1 DEF FailOpen, Drops
  <2> QED BY <1>1, <1>6, <2>1 DEF RateLimitNext, DiesInLimiter, WindowPasses
<1>7. CASE WebhooksNext
  BY <1>1, <1>7 DEF WebhooksNext, DispatchFails, HookFails
<1> QED BY <1>2, <1>3, <1>4, <1>5, <1>6, <1>7 DEF Next, vars

-------------------------------------------------------------------------------
(* Policy sets.  A SetPolicy that is past its second statement has superseded   *)
(* what was on record when it began, and who supersedes inserts or is cut.      *)

PolicyCallOK(c) ==
  /\ Op(c) \in Scopes /\ pc[c] = "done" => c \in cut \/ sets[c] # NONE
  /\ pc[c] \in {"supersede", "insert"} => mem[c] \in Nat
  /\ sets[c] # NONE => Op(c) \in Scopes /\ pc[c] = "done" /\ sets[c] \in PolicySet /\ sets[c].scope = Op(c)
  /\ older[c] \subseteq Versions(Op(c))
  /\ pc[c] = "insert" \/ sets[c] # NONE => older[c] \cap Live(Op(c)) = {}

Replacing(scope) == \E d \in Calls : Op(d) = scope /\ (pc[d] = "insert" \/ d \in cut)

PoliciesOK ==
  /\ sets = [c \in Calls |-> sets[c]] /\ older = [c \in Calls |-> older[c]]
  /\ \A c \in Calls : PolicyCallOK(c)
  /\ \A scope \in Scopes : Versions(scope) # {} => Live(scope) # {} \/ Replacing(scope)

LEMMA SetPolicyKeeps ==
  ASSUME RequestsOK, PoliciesOK, job' = job, cut' = cut, NEW c \in Calls, SetPolicy(c) PROVE PoliciesOK'
<1> Total /\ Op(c) \in Scopes /\ pc[c] = "idle"
  BY DEF RequestsOK, SetPolicy, At
<1>1. /\ sets' = sets /\ older' = [older EXCEPT ![c] = Versions(Op(c))]
      /\ pc'[c] = "supersede" /\ mem'[c] = NextVersion(GetActive(Op(c)))
      /\ \A d \in Calls \ {c} : pc'[d] = pc[d] /\ mem'[d] = mem[d]
  BY DEF SetPolicy, Keep, Total
<1>2. \A scope : Versions(scope)' = Versions(scope) /\ Live(scope)' = Live(scope)
  BY <1>1 DEF Versions, Live
<1>3. sets[c] = NONE
  BY DEF PoliciesOK, PolicyCallOK
<1>4. mem'[c] \in Nat
  <2> DEFINE active == GetActive(Op(c))
  <2>1. \A s \in active : s \in Calls /\ sets[s] \in PolicySet
    BY DEF GetActive, Live, Versions, PoliciesOK, PolicyCallOK
  <2>2. \A s \in active : sets[s].version \in Nat
    BY <2>1 DEF PolicySet
  <2>3. active # {} => (CHOOSE s \in active : TRUE) \in active
    OBVIOUS
  <2> HIDE DEF active
  <2>4. NextVersion(active) \in Nat
    BY <2>2, <2>3 DEF NextVersion
  <2> QED BY <1>1, <2>4 DEF active
<1>5. ASSUME NEW d \in Calls PROVE PolicyCallOK(d)'
  <2>1. PolicyCallOK(d)
    BY DEF PoliciesOK
  <2>2. CASE d = c
    BY <1>1, <1>2, <1>3, <1>4, <2>1, <2>2 DEF PolicyCallOK, Op, PoliciesOK
  <2>3. CASE d # c
    BY <1>1, <1>2, <2>1, <2>3 DEF PolicyCallOK, Op, PoliciesOK
  <2> QED BY <2>2, <2>3
<1>6. \A scope \in Scopes : Replacing(scope) => Replacing(scope)'
  BY <1>1 DEF Replacing, Op
<1> QED BY <1>1, <1>2, <1>5, <1>6 DEF PoliciesOK

LEMMA SupersedeKeeps ==
  ASSUME RequestsOK, PoliciesOK, job' = job, cut' = cut, NEW c \in Calls, SupersedeActive(c) PROVE PoliciesOK'
<1> Total /\ Op(c) \in Scopes /\ pc[c] = "supersede"
  BY DEF RequestsOK, SupersedeActive, At
<1>1. /\ sets' = Superseded(Op(c)) /\ older' = older /\ mem' = mem
      /\ pc'[c] = "insert" /\ \A d \in Calls \ {c} : pc'[d] = pc[d]
  BY DEF SupersedeActive, Goto, Total
<1>2. ASSUME NEW s \in Calls
      PROVE  /\ sets'[s] = NONE <=> sets[s] = NONE
             /\ sets[s] \in PolicySet => sets'[s] \in PolicySet /\ sets'[s].scope = sets[s].scope
             /\ s \in Live(Op(c)) => ~sets'[s].live
             /\ s \notin Live(Op(c)) => sets'[s] = sets[s]
  <2>1. CASE s \in Live(Op(c))
    <3>1. sets[s] # NONE /\ sets[s] \in PolicySet
      BY <2>1 DEF Live, Versions, PoliciesOK, PolicyCallOK
    <3>2. sets'[s] = [sets[s] EXCEPT !.live = FALSE]
      BY <1>1, <2>1 DEF Superseded
    <3>3. sets'[s] \in PolicySet /\ sets'[s].scope = sets[s].scope /\ ~sets'[s].live
      BY <3>1, <3>2 DEF PolicySet
    <3> QED BY <2>1, <3>1, <3>3, NoPolicySetAssumption
  <2>2. CASE s \notin Live(Op(c))
    BY <1>1, <2>2 DEF Superseded
  <2> QED BY <2>1, <2>2
<1>3. \A scope : Versions(scope)' = Versions(scope)
  BY <1>2 DEF Versions, PoliciesOK, PolicyCallOK
<1>4. /\ Live(Op(c))' = {}
      /\ \A scope : scope # Op(c) => Live(scope)' = Live(scope)
      /\ \A scope : Live(scope)' \subseteq Live(scope)
  BY <1>2, <1>3 DEF Live, Versions, Op
<1>5. ASSUME NEW d \in Calls PROVE PolicyCallOK(d)'
  <2>1. PolicyCallOK(d)
    BY DEF PoliciesOK
  <2>2. CASE d = c
    BY <1>1, <1>2, <1>3, <1>4, <2>1, <2>2 DEF PolicyCallOK, Op
  <2>3. CASE d # c
    BY <1>1, <1>2, <1>3, <1>4, <2>1, <2>3 DEF PolicyCallOK, Op
  <2> QED BY <2>2, <2>3
<1>6. \A scope \in Scopes : Replacing(scope) => Replacing(scope)'
  BY <1>1 DEF Replacing, Op
<1>7. Replacing(Op(c))'
  BY <1>1 DEF Replacing, Op
<1>8. sets' = [d \in Calls |-> sets'[d]] /\ older' = [d \in Calls |-> older'[d]]
  BY <1>1 DEF Superseded, PoliciesOK
<1> QED BY <1>3, <1>4, <1>5, <1>6, <1>7, <1>8 DEF PoliciesOK, Op

LEMMA InsertKeeps ==
  ASSUME RequestsOK, PoliciesOK, job' = job, cut' = cut, NEW c \in Calls, CreatePolicySet(c) PROVE PoliciesOK'
<1> Total /\ Op(c) \in Scopes /\ pc[c] = "insert" /\ PolicyCallOK(c)
  BY DEF RequestsOK, CreatePolicySet, At, PoliciesOK
<1> DEFINE row == [scope |-> Op(c), version |-> mem[c], live |-> TRUE]
<1>1. /\ sets' = [sets EXCEPT ![c] = row] /\ older' = older
      /\ pc'[c] = "done" /\ \A d \in Calls \ {c} : pc'[d] = pc[d] /\ mem'[d] = mem[d]
  BY DEF CreatePolicySet, Done, Keep, Total
<1>2. row \in PolicySet /\ row.scope = Op(c) /\ row.live
  BY DEF PolicySet, PolicyCallOK
<1>3. row # NONE /\ sets[c] = NONE
  BY <1>2, NoPolicySetAssumption DEF PolicyCallOK
<1> HIDE DEF row
<1>4. /\ Versions(Op(c))' = Versions(Op(c)) \cup {c} /\ Live(Op(c))' = Live(Op(c)) \cup {c}
      /\ \A scope : scope # Op(c) => Versions(scope)' = Versions(scope) /\ Live(scope)' = Live(scope)
      /\ c \notin Versions(Op(c))
  BY <1>1, <1>2, <1>3 DEF Versions, Live, PoliciesOK, Op
<1>5. ASSUME NEW d \in Calls PROVE PolicyCallOK(d)'
  <2>1. PolicyCallOK(d)
    BY DEF PoliciesOK
  <2>2. CASE d = c
    BY <1>1, <1>2, <1>3, <1>4, <2>1, <2>2 DEF PolicyCallOK, Op, PoliciesOK
  <2>3. CASE d # c
    BY <1>1, <1>4, <2>1, <2>3 DEF PolicyCallOK, Op, PoliciesOK
  <2> QED BY <2>2, <2>3
<1>6. \A scope \in Scopes : scope # Op(c) /\ Replacing(scope) => Replacing(scope)'
  BY <1>1 DEF Replacing, Op
<1>7. sets' = [d \in Calls |-> sets'[d]] /\ older' = [d \in Calls |-> older'[d]]
  BY <1>1 DEF PoliciesOK
<1> QED BY <1>4, <1>5, <1>6, <1>7 DEF PoliciesOK, Op

\* Whoever fails is on record as cut, and other services' requests are no matter here.
LEMMA OthersKeepPolicies ==
  ASSUME RequestsOK, PoliciesOK, job' = job, UNCHANGED policyVars, cut \subseteq cut',
         \A c \in Calls : \/ pc'[c] = pc[c] /\ mem'[c] = mem[c]
                          \/ pc'[c] = "done" /\ c \in cut'
                          \/ Op(c) \notin Scopes /\ pc'[c] \notin PolicyLabels /\ pc[c] \notin PolicyLabels
  PROVE  PoliciesOK'
<1>1. sets' = sets /\ older' = older
  BY DEF policyVars
<1>2. \A scope : Versions(scope)' = Versions(scope) /\ Live(scope)' = Live(scope)
  BY <1>1 DEF Versions, Live
<1>3. ASSUME NEW d \in Calls PROVE PolicyCallOK(d)'
  <2>1. PolicyCallOK(d)
    BY DEF PoliciesOK
  <2> QED BY <1>1, <1>2, <2>1 DEF PolicyCallOK, Op, PolicyLabels
<1>4. \A scope \in Scopes : Replacing(scope) => Replacing(scope)'
  BY DEF Replacing, Op, PolicyLabels
<1> QED BY <1>1, <1>2, <1>3, <1>4 DEF PoliciesOK

LEMMA PoliciesHold == Spec => []PoliciesOK
<1>1. ASSUME Init PROVE PoliciesOK
  <2>1. \A c \in Calls : pc[c] \in {"done", "idle"} /\ (Op(c) \in Scopes => pc[c] = "idle")
    BY <1>1 DEF Init, RequestsInit, Scopes
  <2>2. sets = [c \in Calls |-> NONE] /\ older = [c \in Calls |-> {}]
    BY <1>1 DEF Init, PolicySetsInit
  <2>3. \A c \in Calls : PolicyCallOK(c)
    BY <2>1, <2>2 DEF PolicyCallOK
  <2>4. \A scope : Versions(scope) = {}
    BY <2>2 DEF Versions
  <2> QED BY <2>2, <2>3, <2>4 DEF PoliciesOK
<1>2. ASSUME RequestsOK, PoliciesOK, [Next]_vars PROVE PoliciesOK'
  <2>1. job' = job /\ cut \subseteq cut'
    BY <1>2, OthersStay, CutsAreKept
  <2>2. CASE PolicySetsNext
    <3>1. ASSUME NEW c \in Calls, Fails(c), UNCHANGED policyVars PROVE PoliciesOK'
      <4>1. c \in cut' /\ pc'[c] = "done" /\ \A d \in Calls \ {c} : pc'[d] = pc[d] /\ mem'[d] = mem[d]
        BY <1>2, <3>1 DEF Fails, Cuts, Done, Keep, RequestsOK, Total
      <4> QED BY <1>2, <2>1, <3>1, <4>1, OthersKeepPolicies
    <3> QED BY <1>2, <2>1, <2>2, <3>1, SetPolicyKeeps, SupersedeKeeps, InsertKeeps DEF PolicySetsNext
  <2>3. CASE Stays(Scopes, PolicyLabels) /\ UNCHANGED policyVars
    <3>1. \A c \in Calls : pc[c] \in PolicyLabels => Op(c) \in Scopes
      BY <1>2 DEF RequestsOK, Placed, PlacedAt
    <3> QED BY <1>2, <2>1, <2>3, <3>1, OthersKeepPolicies DEF Stays
  <2> QED BY <1>2, <2>2, <2>3, OthersStay
<1> QED BY <1>1, <1>2, RequestsAreSorted, PTL DEF Spec

\* When every SetPolicy is through, the policy in force is none that was on record before
\* another began, and no scope that was set is left without one.
THEOREM PoliciesAreInForce == Spec => []PolicyInForce
<1>1. ASSUME PoliciesOK PROVE PolicyInForce
  <2>1. ASSUME \A c \in ByOp(Scopes) : pc[c] = "done" /\ c \notin cut
        PROVE  /\ \A s \in Effective : \A c \in ByOp(Scopes) : sets[s].scope = Op(c) => s \notin older[c]
               /\ \A scope \in Scopes : Versions(scope) # {} => Live(scope) # {}
    <3>1. \A s \in Effective : s \in Live(sets[s].scope)
      BY DEF Effective, GetActive, Live, Versions
    <3>2. \A c \in ByOp(Scopes) : older[c] \cap Live(Op(c)) = {}
      BY <1>1, <2>1 DEF PoliciesOK, PolicyCallOK, ByOp
    <3>3. \A scope \in Scopes : ~Replacing(scope)
      BY <2>1 DEF Replacing, ByOp
    <3> QED BY <1>1, <3>1, <3>2, <3>3 DEF PoliciesOK
  <2> QED BY <2>1 DEF PolicyInForce
<1> QED BY <1>1, PoliciesHold, PTL

-------------------------------------------------------------------------------
(* The rate limiter.  A counter has counted every call its window admitted, and *)
(* the call that opened the window owes the key its expiry until it is lost.     *)

OpenedBy(k) == \E c \in Calls : pc[c] = "expire" /\ mem[c] = k

WindowOK(k) ==
  /\ counters[k] \in [count : Nat, expires : BOOLEAN]
  /\ IsFiniteSet(admitted[k])
  /\ Cardinality(admitted[k]) <= counters[k].count /\ Cardinality(admitted[k]) <= Limit[k]
  /\ counters[k].count # 0 => counters[k].expires \/ OpenedBy(k) \/ k \in stuck

LimiterOK ==
  /\ counters = [k \in Keys |-> counters[k]] /\ admitted = [k \in Keys |-> admitted[k]]
  /\ \A c \in Calls : pc[c] \in LimiterLabels => mem[c] \in Keys
  /\ \A k \in Keys : WindowOK(k)

LEMMA AllowKeeps ==
  ASSUME RequestsOK, LimiterOK, NEW c \in Calls, Allow(c) PROVE LimiterOK'
<1> Total
  BY DEF RequestsOK
<1>1. PICK key \in Keys : key = mem[c]
  BY DEF LimiterOK, LimiterLabels, Allow
<1> DEFINE count == counters[key].count + 1
<1>2. /\ counters' = [counters EXCEPT ![key].count = count]
      /\ admitted' = IF Over(count, key) THEN admitted ELSE [admitted EXCEPT ![key] = @ \cup {c}]
      /\ IF count = 1 THEN Goto(c, "expire")
         ELSE IF Over(count, key) THEN Done(c) ELSE NextKey(c, key)
      /\ stuck' = stuck /\ pc[c] = "count"
  BY <1>1 DEF Allow
<1>3. WindowOK(key) /\ Limit[key] \in Nat
  BY AdmissionAssumption DEF LimiterOK
<1>4. /\ counters'[key] = [count |-> count, expires |-> counters[key].expires] /\ count \in Nat /\ count # 0
      /\ \A k \in Keys \ {key} : counters'[k] = counters[k] /\ admitted'[k] = admitted[k]
      /\ counters' = [k \in Keys |-> counters'[k]] /\ admitted' = [k \in Keys |-> admitted'[k]]
      /\ admitted'[key] = IF Over(count, key) THEN admitted[key] ELSE admitted[key] \cup {c}
  <2>1. /\ counters = [k \in Keys |-> counters[k]] /\ admitted = [k \in Keys |-> admitted[k]]
        /\ counters[key] \in [count : Nat, expires : BOOLEAN]
    BY <1>3 DEF LimiterOK, WindowOK
  <2>2. count \in Nat /\ count # 0
    BY <2>1
  <2> HIDE DEF count
  <2>3. /\ counters'[key] = [count |-> count, expires |-> counters[key].expires]
        /\ \A k \in Keys \ {key} : counters'[k] = counters[k]
        /\ counters' = [k \in Keys |-> counters'[k]]
    BY <1>2, <2>1
  <2>4. /\ \A k \in Keys \ {key} : admitted'[k] = admitted[k]
        /\ admitted' = [k \in Keys |-> admitted'[k]]
        /\ admitted'[key] = IF Over(count, key) THEN admitted[key] ELSE admitted[key] \cup {c}
    BY <1>2, <2>1
  <2> QED BY <2>2, <2>3, <2>4
<1>5. \A d \in Calls \ {c} : pc'[d] = pc[d] /\ mem'[d] = mem[d]
  BY <1>2 DEF Goto, Done, NextKey, Keep, Total
<1>6. /\ pc'[c] \in LimiterLabels => mem'[c] \in Keys
      /\ count = 1 => pc'[c] = "expire" /\ mem'[c] = key
  BY <1>1, <1>2 DEF Goto, Done, NextKey, Keep, Total, LimiterLabels, Keys
<1>7. /\ IsFiniteSet(admitted'[key])
      /\ Cardinality(admitted'[key]) <= count /\ Cardinality(admitted'[key]) <= Limit[key]
  <2>1. /\ IsFiniteSet(admitted[key] \cup {c}) /\ Cardinality(admitted[key]) \in Nat
        /\ Cardinality(admitted[key] \cup {c}) 
              \in {Cardinality(admitted[key]), Cardinality(admitted[key]) + 1}
    BY <1>3, FS_AddElement, FS_CardinalityType DEF WindowOK
  <2>2. CASE Over(count, key)
    BY <1>3, <1>4, <2>1, <2>2 DEF WindowOK
  <2>3. CASE ~Over(count, key)
    BY <1>3, <1>4, <2>1, <2>3 DEF WindowOK, Over
  <2> QED BY <2>2, <2>3
<1> HIDE DEF count
<1>8. ASSUME NEW k \in Keys PROVE OpenedBy(k) => OpenedBy(k)'
  BY <1>2, <1>5 DEF OpenedBy
<1>9. WindowOK(key)'
  <2>1. count # 1 => counters[key].count # 0
    BY <1>3 DEF count, WindowOK
  <2>2. count = 1 => OpenedBy(key)'
    BY <1>6 DEF OpenedBy
  <2>3. counters'[key].count = count /\ counters'[key].expires = counters[key].expires
    BY <1>4
  <2>4. counters'[key] \in [count : Nat, expires : BOOLEAN]
    BY <1>3, <1>4 DEF WindowOK
  <2> QED BY <1>2, <1>3, <1>4, <1>7, <1>8, <2>1, <2>2, <2>3, <2>4 DEF WindowOK
<1>10. ASSUME NEW k \in Keys, k # key PROVE WindowOK(k)'
  <2>1. WindowOK(k)
    BY DEF LimiterOK
  <2> QED BY <1>2, <1>4, <1>8, <1>10, <2>1 DEF WindowOK
<1> QED BY <1>4, <1>5, <1>6, <1>9, <1>10 DEF LimiterOK

\* Who leaves the limiter leaves its key marked, if it was the one to set the expiry.
LEMMA PassingKeeps ==
  ASSUME RequestsOK, LimiterOK, NEW c \in Calls, UNCHANGED <<counters, admitted>>, stuck \subseteq stuck',
         \A d \in Calls \ {c} : pc'[d] = pc[d] /\ mem'[d] = mem[d],
         pc[c] = "expire" => mem[c] \in stuck',
         pc'[c] \in LimiterLabels => mem'[c] \in Keys
  PROVE  LimiterOK'
<1>1. ASSUME NEW k \in Keys PROVE WindowOK(k)'
  <2>1. WindowOK(k)
    BY DEF LimiterOK
  <2>2. OpenedBy(k) => OpenedBy(k)' \/ k \in stuck'
    BY DEF OpenedBy
  <2> QED BY <2>1, <2>2 DEF WindowOK
<1> QED BY <1>1 DEF LimiterOK

LEMMA SetExpiryKeeps ==
  ASSUME RequestsOK, LimiterOK, NEW c \in Calls, SetExpiry(c) PROVE LimiterOK'
<1> Total
  BY DEF RequestsOK
<1>1. PICK key \in Keys : key = mem[c]
  BY DEF LimiterOK, LimiterLabels, SetExpiry
<1>2. /\ counters' = [counters EXCEPT ![key].expires = TRUE] /\ NextKey(c, key)
      /\ UNCHANGED <<admitted, stuck>>
  BY <1>1 DEF SetExpiry
<1>3. counters = [k \in Keys |-> counters[k]] /\ WindowOK(key)
  BY DEF LimiterOK
<1>4. /\ counters'[key] = [counters[key] EXCEPT !.expires = TRUE]
      /\ \A k \in Keys \ {key} : counters'[k] = counters[k]
      /\ counters' = [k \in Keys |-> counters'[k]]
  BY <1>2, <1>3
<1>5. counters'[key] \in [count : Nat, expires : BOOLEAN] /\ counters'[key].expires
      /\ counters'[key].count = counters[key].count
  BY <1>3, <1>4 DEF WindowOK
<1>6. /\ \A d \in Calls \ {c} : pc'[d] = pc[d] /\ mem'[d] = mem[d]
      /\ pc'[c] \in LimiterLabels => mem'[c] \in Keys
  BY <1>2 DEF NextKey, Keep, Done, Total, LimiterLabels, Keys
<1>7. ASSUME NEW k \in Keys PROVE WindowOK(k)'
  <2>1. WindowOK(k)
    BY DEF LimiterOK
  <2>2. CASE k = key
    BY <1>2, <1>5, <2>1, <2>2 DEF WindowOK
  <2>3. CASE k # key
    <3>1. OpenedBy(k) => OpenedBy(k)'
      BY <1>1, <1>6, <2>3 DEF OpenedBy
    <3> QED BY <1>2, <1>4, <2>1, <2>3, <3>1 DEF WindowOK
  <2> QED BY <2>2, <2>3
<1> QED BY <1>2, <1>4, <1>6, <1>7 DEF LimiterOK

\* A statement that gives no answer: it has not run, or it was the INCR, or the EXPIRE.
LEMMA UnansweredKeeps ==
  ASSUME RequestsOK, LimiterOK, NEW c \in Calls, Unanswered(c),
         \A d \in Calls \ {c} : pc'[d] = pc[d] /\ mem'[d] = mem[d],
         pc'[c] \in LimiterLabels => mem'[c] \in Keys
  PROVE  LimiterOK'
<1>1. PICK key \in Keys : key = mem[c]
  BY DEF LimiterOK, LimiterLabels, Unanswered
<1>2. counters = [k \in Keys |-> counters[k]] /\ admitted' = admitted /\ WindowOK(key)
  BY DEF LimiterOK, Unanswered
<1>3. /\ stuck \subseteq stuck'
      /\ \/ counters' = counters /\ (pc[c] = "expire" => key \in stuck')
         \/ /\ pc[c] = "count" /\ counters' = [counters EXCEPT ![key].count = @ + 1]
            /\ counters[key].count = 0 => key \in stuck'
         \/ pc[c] = "expire" /\ counters' = [counters EXCEPT ![key].expires = TRUE]
  BY <1>1 DEF Unanswered
<1>4. CASE counters' = counters /\ (pc[c] = "expire" => key \in stuck')
  BY <1>1, <1>2, <1>3, <1>4, PassingKeeps
<1>5. CASE /\ pc[c] = "count" /\ counters' = [counters EXCEPT ![key].count = @ + 1]
           /\ counters[key].count = 0 => key \in stuck'
  <2>1. /\ counters'[key] = [counters[key] EXCEPT !.count = @ + 1]
        /\ \A k \in Keys \ {key} : counters'[k] = counters[k]
        /\ counters' = [k \in Keys |-> counters'[k]]
    BY <1>2, <1>5
  <2>2. /\ counters'[key] \in [count : Nat, expires : BOOLEAN]
        /\ counters'[key].count = counters[key].count + 1
        /\ counters'[key].expires = counters[key].expires
    BY <1>2, <2>1 DEF WindowOK
  <2>3. Cardinality(admitted[key]) \in Nat
    BY <1>2, FS_CardinalityType DEF WindowOK
  <2>4. \A k \in Keys : OpenedBy(k) => OpenedBy(k)'
    BY <1>5 DEF OpenedBy
  <2>5. WindowOK(key)'
    BY <1>2, <1>3, <1>5, <2>2, <2>3, <2>4 DEF WindowOK
  <2>6. ASSUME NEW k \in Keys, k # key PROVE WindowOK(k)'
    BY <1>2, <1>3, <2>1, <2>4, <2>6 DEF LimiterOK, WindowOK
  <2> QED BY <1>2, <2>1, <2>5, <2>6 DEF LimiterOK
<1>6. CASE pc[c] = "expire" /\ counters' = [counters EXCEPT ![key].expires = TRUE]
  <2>1. /\ counters'[key] = [counters[key] EXCEPT !.expires = TRUE]
        /\ \A k \in Keys \ {key} : counters'[k] = counters[k]
        /\ counters' = [k \in Keys |-> counters'[k]]
    BY <1>2, <1>6
  <2>2. /\ counters'[key] \in [count : Nat, expires : BOOLEAN]
        /\ counters'[key].count = counters[key].count /\ counters'[key].expires
    BY <1>2, <2>1 DEF WindowOK
  <2>3. WindowOK(key)'
    BY <1>2, <2>2 DEF WindowOK
  <2>4. ASSUME NEW k \in Keys, k # key PROVE WindowOK(k)'
    <3>1. OpenedBy(k) => OpenedBy(k)'
      BY <1>1, <2>4 DEF OpenedBy
    <3> QED BY <1>2, <1>3, <2>1, <2>4, <3>1 DEF LimiterOK, WindowOK
  <2> QED BY <1>2, <2>1, <2>3, <2>4 DEF LimiterOK
<1> QED BY <1>3, <1>4, <1>5, <1>6

LEMMA WindowPassesKeeps ==
  ASSUME RequestsOK, LimiterOK, NEW key \in Keys, WindowPasses(key) PROVE LimiterOK'
<1>1. /\ counters' = [counters EXCEPT ![key] = [count |-> 0, expires |-> FALSE]]
      /\ admitted' = [admitted EXCEPT ![key] = {}] /\ UNCHANGED <<pc, mem, stuck>>
  BY DEF WindowPasses, requests
<1>2. /\ counters'[key] = [count |-> 0, expires |-> FALSE] /\ admitted'[key] = {}
      /\ \A k \in Keys \ {key} : counters'[k] = counters[k] /\ admitted'[k] = admitted[k]
      /\ counters' = [k \in Keys |-> counters'[k]] /\ admitted' = [k \in Keys |-> admitted'[k]]
  BY <1>1 DEF LimiterOK
<1>3. \A k : OpenedBy(k)' <=> OpenedBy(k)
  BY <1>1 DEF OpenedBy
<1>4. ASSUME NEW k \in Keys PROVE WindowOK(k)'
  <2>1. CASE k = key
    <3>1. Limit[k] \in Nat /\ IsFiniteSet({}) /\ Cardinality({}) = 0
      BY AdmissionAssumption, FS_EmptySet
    <3>2. counters'[k] = [count |-> 0, expires |-> FALSE]
      BY <1>2, <2>1
    <3>3. counters'[k] \in [count : Nat, expires : BOOLEAN] /\ counters'[k].count = 0
      BY <3>2
    <3> QED BY <1>2, <2>1, <3>1, <3>3 DEF WindowOK
  <2>2. CASE k # key
    BY <1>1, <1>2, <1>3, <2>2 DEF LimiterOK, WindowOK
  <2> QED BY <2>1, <2>2
<1> QED BY <1>1, <1>2, <1>4 DEF LimiterOK

LEMMA LimiterHolds == Spec => []LimiterOK
<1>1. ASSUME Init PROVE LimiterOK
  <2>1. \A c \in Calls : pc[c] \in {"done", "idle"}
    BY <1>1 DEF Init, RequestsInit
  <2>2. /\ counters = [k \in Keys |-> [count |-> 0, expires |-> FALSE]]
        /\ admitted = [k \in Keys |-> {}]
    BY <1>1 DEF Init, RateLimitInit
  <2>3. \A k \in Keys : Limit[k] \in Nat /\ IsFiniteSet({}) /\ Cardinality({}) = 0
    BY AdmissionAssumption, FS_EmptySet
  <2>4. \A k \in Keys : WindowOK(k)
    BY <2>2, <2>3 DEF WindowOK
  <2> QED BY <2>1, <2>2, <2>4 DEF LimiterOK, LimiterLabels
<1>2. ASSUME RequestsOK, LimiterOK, [Next]_vars PROVE LimiterOK'
  <2> Total
    BY <1>2 DEF RequestsOK
  <2>1. CASE RateLimitNext
    <3>1. ASSUME NEW c \in Calls, ArriveAtLimiter(c) PROVE LimiterOK'
      <4>1. /\ UNCHANGED <<counters, admitted, stuck>>
            /\ \A d \in Calls \ {c} : pc'[d] = pc[d] /\ mem'[d] = mem[d]
            /\ pc[c] = "idle" /\ mem'[c] \in Keys
        BY <3>1 DEF ArriveAtLimiter, At, limiterVars, Keep, Total, Keys
      <4> QED BY <1>2, <4>1, PassingKeeps
    <3>2. ASSUME NEW c \in Calls, FailOpen(c) \/ DiesInLimiter(c) PROVE LimiterOK'
      <4>1. Unanswered(c)
        BY <3>2 DEF FailOpen, DiesInLimiter
      <4>2. /\ \A d \in Calls \ {c} : pc'[d] = pc[d] /\ mem'[d] = mem[d]
            /\ pc'[c] \in LimiterLabels => mem'[c] \in Keys
        BY <3>2 DEF FailOpen, DiesInLimiter, Fails, Drops, Keep, Done, Total, LimiterLabels, Keys
      <4> QED BY <1>2, <4>1, <4>2, UnansweredKeeps
    <3> QED BY <1>2, <2>1, <3>1, <3>2, AllowKeeps, SetExpiryKeeps, WindowPassesKeeps DEF RateLimitNext
  <2>2. CASE Stays(LimiterOps, LimiterLabels) /\ UNCHANGED limiterVars
    <3>1. \A c \in Calls : pc[c] \in LimiterLabels => Op(c) \in LimiterOps
      BY <1>2 DEF RequestsOK, Placed, PlacedAt
    <3>2. UNCHANGED <<counters, admitted, stuck>>
      BY <2>2 DEF limiterVars
    <3>3. ASSUME NEW k \in Keys PROVE WindowOK(k)'
      <4>1. OpenedBy(k) => OpenedBy(k)'
        BY <2>2, <3>1 DEF OpenedBy, Stays, LimiterLabels
      <4> QED BY <1>2, <3>2, <4>1 DEF LimiterOK, WindowOK
    <3> QED BY <1>2, <2>2, <3>2, <3>3 DEF LimiterOK, Stays
  <2> QED BY <1>2, <2>1, <2>2, OthersStay
<1> QED BY <1>1, <1>2, RequestsAreSorted, PTL DEF Spec

\* A window admits no more than its limit, and a key that turns callers away will end, or
\* its expiry was lost.
THEOREM WindowsDoHold == Spec => []WindowsHold
<1>1. ASSUME LimiterOK PROVE WindowsHold
  <2>1. ASSUME NEW k \in Keys, Over(counters[k].count, k)
        PROVE  counters[k].expires \/ OpenedBy(k) \/ k \in stuck
    <3>1. WindowOK(k) /\ Limit[k] \in Nat
      BY <1>1, AdmissionAssumption DEF LimiterOK
    <3>2. counters[k].count # 0
      BY <2>1, <3>1 DEF Over, WindowOK
    <3> QED BY <3>1, <3>2 DEF WindowOK
  <2> QED BY <1>1, <2>1 DEF LimiterOK, WindowOK, WindowsHold, OpenedBy
<1> QED BY <1>1, LimiterHolds, PTL

-------------------------------------------------------------------------------
(* The profile.  Who is about to write the row holds a copy in which everything *)
(* said so far is kept, or was said while another was about to write.           *)

Patches == {"shopping", "food", "alias", "note", "unalias"}
Writing == {"myname", "setname", "home", "profile?", "profile!"}

Kept(noted, p) == \A a \in noted : \E b \in p.attributes : b = a \/ (a.key # "note" /\ b.key = a.key)

WriterOK(c) ==
  /\ pc[c] \in Writing =>
       /\ mem[c] = [agent |-> mem[c].agent, housed |-> mem[c].housed, copy |-> mem[c].copy,
                    todo |-> mem[c].todo]
       /\ mem[c].todo \in Seq(Patches) /\ mem[c].todo # <<>>
  /\ pc[c] = "profile!" => mem[c].copy \in CommerceProfile /\ Kept(said \ raced, mem[c].copy)

ProfileOK ==
  /\ AddressOpens
  /\ IF profile = NONE THEN said = {} ELSE profile \in CommerceProfile
  /\ Kept(said \ raced, profile)
  /\ \A c \in Calls : WriterOK(c)

\* A card is revoked in its row after it was at the vault, where no card comes to life twice.
RevokerOK(c) ==
  pc[c] = "revoke row" => mem[c] \in Calls /\ cards[mem[c]] # NONE /\ vault[mem[c]] # "live"

CardsOK ==
  /\ cards = [s \in Calls |-> cards[s]] /\ vault = [s \in Calls |-> vault[s]]
  /\ \A s \in Calls : cards[s] # NONE => Op(s) = "addcard" /\ pc[s] = "done"
  /\ \A c \in Calls : RevokerOK(c)
  /\ RevokedAtVault

LEMMA MergeKeeps ==
  ASSUME NEW noted, NEW p \in CommerceProfile, NEW q, NEW a, Kept(noted, p),
         q.attributes = MergePreferences(p.attributes, a)
  PROVE  Kept(noted \cup {a}, q)
<1>1. a \in q.attributes
  BY DEF MergePreferences
<1>2. ASSUME NEW x \in noted PROVE \E b \in q.attributes : b = x \/ (x.key # "note" /\ b.key = x.key)
  <2>1. PICK b \in p.attributes : b = x \/ (x.key # "note" /\ b.key = x.key)
    BY DEF Kept
  <2>2. CASE a.key = "note" \/ b.key # a.key
    BY <2>1, <2>2 DEF MergePreferences
  <2>3. CASE a.key # "note" /\ b.key = a.key
    BY <1>1, <2>1, <2>3
  <2> QED BY <2>2, <2>3
<1> QED BY <1>1, <1>2 DEF Kept

\* The profile after a patch is one, and keeps what its copy kept.
LEMMA PatchKeeps ==
  ASSUME NEW c \in Calls, NEW patch \in Patches, NEW copy \in CommerceProfile, NEW noted, Kept(noted, copy)
  PROVE  LET new == IF patch \in {"alias", "unalias"} THEN {} ELSE {[by |-> c, key |-> patch]}
         IN  Patched(c, copy, patch) \in CommerceProfile /\ Kept(noted \cup new, Patched(c, copy, patch))
<1> DEFINE after == Patched(c, copy, patch)
<1>1. CASE patch \in {"alias", "unalias"}
  <2>1. PICK ship \in BOOLEAN : after = [copy EXCEPT !.shipping = ship]
    <3>1. CASE patch = "alias"
      <4>1. after = [copy EXCEPT !.shipping = copy.shipping \/ mem[c].housed]
        BY <3>1 DEF Patched
      <4>2. (copy.shipping \/ mem[c].housed) \in BOOLEAN
        OBVIOUS
      <4> QED BY <4>1, <4>2
    <3>2. CASE patch = "unalias"
      <4>1. after = [copy EXCEPT !.shipping = FALSE]
        BY <3>2 DEF Patched
      <4> QED BY <4>1
    <3> QED BY <1>1, <3>1, <3>2
  <2> HIDE DEF after
  <2>2. after \in CommerceProfile /\ after.attributes = copy.attributes
    BY <2>1 DEF CommerceProfile
  <2>3. Kept(noted, after)
    BY <2>2 DEF Kept
  <2> QED BY <1>1, <2>2, <2>3 DEF after
<1>2. CASE patch \notin {"alias", "unalias"}
  <2> DEFINE a == [by |-> c, key |-> patch]
  <2>1. after = [copy EXCEPT !.attributes = MergePreferences(copy.attributes, a)]
    BY <1>2 DEF Patched
  <2>2. a \in Attributes
    BY <1>2 DEF Attributes, Patches
  <2>3. MergePreferences(copy.attributes, a) \subseteq copy.attributes \cup {a}
    BY DEF MergePreferences
  <2> HIDE DEF a, after
  <2>4. after \in CommerceProfile /\ after.attributes = MergePreferences(copy.attributes, a)
    BY <2>1, <2>2, <2>3 DEF CommerceProfile
  <2>5. Kept(noted \cup {a}, after)
    BY <2>4, MergeKeeps
  <2> QED BY <1>2, <2>4, <2>5 DEF a, after
<1> QED BY <1>1, <1>2

\* A request other than a writer of the row, before its write.
LEMMA ProfileMoved ==
  ASSUME RequestsOK, ProfileOK, NEW c \in Calls, AddressOpens', UNCHANGED <<profile, said, raced>>,
         \A d \in Calls \ {c} : pc'[d] = pc[d] /\ mem'[d] = mem[d], WriterOK(c)'
  PROVE  ProfileOK'
<1>1. ASSUME NEW d \in Calls, d # c PROVE WriterOK(d)'
  BY <1>1 DEF ProfileOK, WriterOK, Writing
<1> QED BY <1>1 DEF ProfileOK

LEMMA WriteProfileKeeps ==
  ASSUME RequestsOK, ProfileOK, NEW c \in Calls, WriteProfile(c) PROVE ProfileOK'
<1> DEFINE patch == Head(mem[c].todo)
           new == IF patch \in {"alias", "unalias"} THEN {} ELSE {[by |-> c, key |-> patch]}
           left == Tail(mem[c].todo)
<1>1. Total /\ pc[c] = "profile!" /\ WriterOK(c)
  BY DEF RequestsOK, WriteProfile, At, ProfileOK
<1>2. /\ mem[c] = [agent |-> mem[c].agent, housed |-> mem[c].housed, copy |-> mem[c].copy,
                   todo |-> mem[c].todo]
      /\ mem[c].todo \in Seq(Patches) /\ mem[c].todo # <<>>
      /\ mem[c].copy \in CommerceProfile /\ Kept(said \ raced, mem[c].copy)
  BY <1>1 DEF WriterOK, Writing
<1>3. patch \in Patches /\ left \in Seq(Patches)
  BY <1>2
<1>4. /\ profile' = Patched(c, mem[c].copy, patch) /\ said' = said \cup new
      /\ raced' = raced \cup IF \E d \in Calls \ {c} : pc[d] = "profile!" THEN new ELSE {}
      /\ IF left # <<>> THEN Keep(c, [mem[c] EXCEPT !.todo = left, !.copy = NONE], "profile?")
         ELSE IF Op(c) = "onboard" THEN Goto(c, "finish") ELSE Done(c)
      /\ address' = address
  BY DEF WriteProfile
<1>5. profile' \in CommerceProfile /\ Kept((said \ raced) \cup new, profile')
  BY <1>2, <1>3, <1>4, PatchKeeps
<1> HIDE DEF patch, new, left
<1>6. Kept(said' \ raced', profile')
  BY <1>4, <1>5 DEF Kept
<1>7. /\ \A d \in Calls \ {c} : pc'[d] = pc[d] /\ mem'[d] = mem[d]
      /\ pc'[c] # "profile!"
      /\ pc'[c] \in Writing => left # <<>> /\ mem'[c] = [mem[c] EXCEPT !.todo = left, !.copy = NONE]
  BY <1>1, <1>4 DEF Keep, Goto, Done, Total, Writing
<1>8. ASSUME NEW d \in Calls PROVE WriterOK(d)'
  <2>1. CASE d = c
    <3>1. ASSUME pc'[c] \in Writing
          PROVE  /\ mem'[c] = [agent |-> mem'[c].agent, housed |-> mem'[c].housed, copy |-> mem'[c].copy,
                               todo |-> mem'[c].todo]
                 /\ mem'[c].todo \in Seq(Patches) /\ mem'[c].todo # <<>>
      BY <1>2, <1>3, <1>7, <3>1
    <3> QED BY <1>7, <2>1, <3>1 DEF WriterOK
  <2>2. CASE d # c
    <3>1. WriterOK(d)
      BY DEF ProfileOK
    <3>2. ASSUME pc[d] = "profile!" PROVE said' \ raced' \subseteq said \ raced
      BY <1>4, <2>2, <3>2
    <3> QED BY <1>7, <2>2, <3>1, <3>2 DEF WriterOK, Kept
  <2> QED BY <2>1, <2>2
<1>9. profile' # NONE
  BY <1>5, NoProfileAssumption
<1> QED BY <1>4, <1>5, <1>6, <1>8, <1>9 DEF ProfileOK, AddressOpens

LEMMA ProfileStepKeeps ==
  ASSUME RequestsOK, ProfileOK, NEW c \in Calls, ProfilesStep(c), ~WriteProfile(c) PROVE ProfileOK'
<1> Total /\ WriterOK(c)
  BY DEF RequestsOK, ProfileOK
<1>1. UNCHANGED <<profile, said, raced>>
  BY DEF ProfilesStep, SetGuardrails, Complete, ReadName, WriteName, StoreShipping, UpdateProfile,
     ReadProfile, MarkOnboarded, AddCard, CreateSource, RevokeSource, RevokeRow, profileVars, profileRows
<1>2. \A d \in Calls \ {c} : pc'[d] = pc[d] /\ mem'[d] = mem[d]
  BY DEF ProfilesStep, SetGuardrails, Complete, ReadName, WriteName, StoreShipping, UpdateProfile,
     ReadProfile, MarkOnboarded, AddCard, CreateSource, RevokeSource, RevokeRow, Keep, Goto, Done, Total
<1>3. AddressOpens'
  <2>1. CASE StoreShipping(c)
    BY <2>1 DEF StoreShipping, Put, AddressOpens, ProfileOK
  <2>2. CASE ~StoreShipping(c)
    <3>1. address' = address
      BY <2>2 DEF ProfilesStep, SetGuardrails, Complete, ReadName, WriteName, UpdateProfile,
         ReadProfile, MarkOnboarded, AddCard, CreateSource, RevokeSource, RevokeRow, profileVars, profileRows
    <3> QED BY <3>1 DEF AddressOpens, ProfileOK
  <2> QED BY <2>1, <2>2
<1>4. WriterOK(c)'
  <2>1. CASE Complete(c) \/ UpdateProfile(c)
    <3>1. \E s, housed, todo : /\ mem'[c] = [agent |-> s, housed |-> housed, copy |-> NONE, todo |-> todo]
                               /\ todo \in Seq(Patches) /\ todo # <<>>
      <4>1. CASE Complete(c)
        <5>1. PICK s \in ListActiveSessions, housed, diet \in BOOLEAN :
                mem'[c] = [agent |-> s, housed |-> housed, copy |-> NONE,
                           todo |-> IF diet THEN <<"shopping", "food", "alias">> ELSE <<"shopping", "alias">>]
          BY <4>1 DEF Complete, Keep, Total
        <5>2. /\ <<"shopping", "food", "alias">> \in Seq(Patches) /\ <<"shopping", "food", "alias">> # <<>>
              /\ <<"shopping", "alias">> \in Seq(Patches) /\ <<"shopping", "alias">> # <<>>
          BY DEF Patches
        <5> QED BY <5>1, <5>2
      <4>2. CASE UpdateProfile(c)
        <5>1. PICK s \in Calls, patch \in {"note", "alias", "unalias"} :
                mem'[c] = [agent |-> s, housed |-> TRUE, copy |-> NONE, todo |-> <<patch>>]
          BY <4>2 DEF UpdateProfile, Keep, Total
        <5>2. <<patch>> \in Seq(Patches) /\ <<patch>> # <<>>
          BY DEF Patches
        <5> QED BY <5>1, <5>2
      <4> QED BY <2>1, <4>1, <4>2
    <3>2. pc'[c] # "profile!"
      BY <2>1 DEF Complete, UpdateProfile, Keep, Total
    <3> QED BY <3>1, <3>2 DEF WriterOK
  <2>2. CASE ReadName(c) \/ WriteName(c) \/ StoreShipping(c)
    <3>1. /\ pc[c] \in Writing /\ pc'[c] # "profile!"
          /\ pc'[c] \in Writing =>
               mem'[c] = mem[c] \/ \E copy : mem'[c] = [mem[c] EXCEPT !.copy = copy]
      BY <2>2 DEF ReadName, WriteName, StoreShipping, At, Keep, Goto, Done, Total, Writing
    <3> QED BY <3>1 DEF WriterOK
  <2>3. CASE ReadProfile(c)
    <3>1. pc[c] \in Writing
      BY <2>3 DEF ReadProfile, At, Writing
    <3>2. CASE agents[mem[c].agent] = "live"
      <4>1. PICK copy : copy = IF profile = NONE THEN Empty ELSE profile
        OBVIOUS
      <4>2. copy \in CommerceProfile /\ Kept(said \ raced, copy)
        BY <4>1 DEF ProfileOK, Empty, CommerceProfile, Kept
      <4>3. pc'[c] = "profile!" /\ mem'[c] = [mem[c] EXCEPT !.copy = copy]
        BY <2>3, <3>2, <4>1 DEF ReadProfile, Keep, Total
      <4> QED BY <1>1, <3>1, <4>2, <4>3 DEF WriterOK
    <3>3. CASE agents[mem[c].agent] # "live"
      BY <2>3, <3>3 DEF ReadProfile, Done, Keep, Total, WriterOK, Writing
    <3> QED BY <3>2, <3>3
  <2>4. CASE \/ SetGuardrails(c) \/ MarkOnboarded(c) \/ AddCard(c) \/ CreateSource(c)
             \/ RevokeSource(c) \/ RevokeRow(c)
    <3>1. pc'[c] \notin Writing
      BY <2>4 DEF SetGuardrails, MarkOnboarded, AddCard, CreateSource, RevokeSource, RevokeRow, Keep, Goto,
         Done, Total, Writing
    <3> QED BY <3>1 DEF WriterOK, Writing
  <2> QED BY <2>1, <2>2, <2>3, <2>4 DEF ProfilesStep
<1> QED BY <1>1, <1>2, <1>3, <1>4, ProfileMoved

LEMMA CardMoved ==
  ASSUME CardsOK, job' = job, NEW c \in Calls, pc[c] # "done",
         \A d \in Calls \ {c} : pc'[d] = pc[d] /\ mem'[d] = mem[d],
         cards' = [s \in Calls |-> cards'[s]], vault' = [s \in Calls |-> vault'[s]],
         \A s \in Calls \ {c} : cards'[s] # NONE <=> cards[s] # NONE,
         cards'[c] # NONE => Op(c) = "addcard" /\ pc'[c] = "done",
         \A s \in Calls \ {c} : vault'[s] = "live" => vault[s] = "live",
         RevokerOK(c)', RevokedAtVault'
  PROVE  CardsOK'
<1>1. cards[c] = NONE
  BY DEF CardsOK
<1>2. ASSUME NEW d \in Calls, d # c PROVE RevokerOK(d)'
  <2>1. RevokerOK(d)
    BY DEF CardsOK
  <2> QED BY <1>1, <1>2, <2>1 DEF RevokerOK
<1>3. \A s \in Calls : cards'[s] # NONE => Op(s) = "addcard" /\ pc'[s] = "done"
  BY DEF CardsOK
<1> QED BY <1>2, <1>3 DEF CardsOK, Op

LEMMA CardStepKeeps ==
  ASSUME RequestsOK, CardsOK, job' = job, NEW c \in Calls, ProfilesStep(c) PROVE CardsOK'
<1> Total
  BY DEF RequestsOK
<1>0. NONE # "revoked" /\ NONE # "live"
  BY NoAccountAssumption DEF SessionStates, AgentStates
<1>1. \A d \in Calls \ {c} : pc'[d] = pc[d] /\ mem'[d] = mem[d]
  BY DEF ProfilesStep, SetGuardrails, Complete, ReadName, WriteName, StoreShipping, UpdateProfile,
     ReadProfile, WriteProfile, MarkOnboarded, AddCard, CreateSource, RevokeSource, RevokeRow, Keep, Goto,
     Done, Total
<1>2. pc[c] # "done"
  BY DEF ProfilesStep, SetGuardrails, Complete, ReadName, WriteName, StoreShipping, UpdateProfile,
     ReadProfile, WriteProfile, MarkOnboarded, AddCard, CreateSource, RevokeSource, RevokeRow, At
<1>3. cards[c] = NONE /\ cards = [s \in Calls |-> cards[s]] /\ vault = [s \in Calls |-> vault[s]]
  BY <1>2 DEF CardsOK
<1>4. CASE AddCard(c)
  <2>1. /\ cards' = cards /\ vault' = [vault EXCEPT ![c] = "live"] /\ pc'[c] = "store"
    BY <1>4 DEF AddCard, Goto, Total, cardRows
  <2>2. RevokerOK(c)' /\ RevokedAtVault'
    BY <1>0, <1>3, <2>1 DEF CardsOK, RevokerOK, RevokedAtVault
  <2> QED BY <1>1, <1>2, <1>3, <2>1, <2>2, CardMoved
<1>5. CASE CreateSource(c)
  <2>1. /\ vault' = vault /\ cards' = [cards EXCEPT ![c] = "live"] /\ pc'[c] = "done" /\ Op(c) = "addcard"
    BY <1>5 DEF CreateSource, Done, Keep, Total, At
  <2>2. RevokerOK(c)' /\ RevokedAtVault'
    BY <1>0, <1>3, <2>1 DEF CardsOK, RevokerOK, RevokedAtVault
  <2> QED BY <1>1, <1>2, <1>3, <2>1, <2>2, CardMoved
<1>6. CASE RevokeSource(c)
  <2>1. PICK s \in Calls :
          /\ cards[s] # NONE
          /\ IF vault[s] = NONE
               THEN Done(c) /\ UNCHANGED vault
               ELSE vault' = [vault EXCEPT ![s] = "revoked"] /\ Keep(c, s, "revoke row")
    BY <1>6 DEF RevokeSource
  <2>2. cards' = cards
    BY <1>6 DEF RevokeSource
  <2>3. CASE vault[s] = NONE
    <3>1. vault' = vault /\ pc'[c] = "done"
      BY <2>1, <2>3 DEF Done, Keep, Total
    <3>2. RevokerOK(c)' /\ RevokedAtVault'
      BY <2>2, <3>1 DEF CardsOK, RevokerOK, RevokedAtVault
    <3> QED BY <1>1, <1>2, <1>3, <2>2, <3>1, <3>2, CardMoved
  <2>4. CASE vault[s] # NONE
    <3>1. /\ vault' = [vault EXCEPT ![s] = "revoked"] /\ pc'[c] = "revoke row" /\ mem'[c] = s
      BY <2>1, <2>4 DEF Keep, Total
    <3>2. /\ \A t \in Calls : vault'[t] = "live" => vault[t] = "live"
          /\ vault'[s] # "live" /\ vault' = [t \in Calls |-> vault'[t]]
      BY <1>3, <3>1
    <3>3. RevokerOK(c)' /\ RevokedAtVault'
      BY <2>1, <2>2, <3>1, <3>2 DEF CardsOK, RevokerOK, RevokedAtVault
    <3> QED BY <1>1, <1>2, <1>3, <2>2, <3>2, <3>3, CardMoved
  <2> QED BY <2>3, <2>4
<1>7. CASE RevokeRow(c)
  <2>1. /\ pc[c] = "revoke row" /\ cards' = [cards EXCEPT ![mem[c]] = "revoked"] /\ pc'[c] = "done"
        /\ vault' = vault
    BY <1>7 DEF RevokeRow, Done, Keep, Total, At
  <2>2. mem[c] \in Calls /\ cards[mem[c]] # NONE /\ vault[mem[c]] # "live"
    BY <2>1 DEF CardsOK, RevokerOK
  <2>3. \A s \in Calls : /\ cards'[s] # NONE <=> cards[s] # NONE
                         /\ cards'[s] = "revoked" => cards[s] = "revoked" \/ s = mem[c]
    BY <1>0, <1>3, <2>1, <2>2
  <2>4. RevokerOK(c)' /\ RevokedAtVault' /\ cards' = [s \in Calls |-> cards'[s]]
    BY <1>3, <2>1, <2>2, <2>3 DEF CardsOK, RevokerOK, RevokedAtVault
  <2> QED BY <1>1, <1>2, <1>3, <2>1, <2>3, <2>4, CardMoved
<1>8. CASE \/ SetGuardrails(c) \/ Complete(c) \/ ReadName(c) \/ WriteName(c) \/ StoreShipping(c)
           \/ UpdateProfile(c) \/ ReadProfile(c) \/ WriteProfile(c) \/ MarkOnboarded(c)
  <2>1. UNCHANGED <<cards, vault>>
    BY <1>8 DEF SetGuardrails, Complete, ReadName, WriteName, StoreShipping, UpdateProfile, ReadProfile,
       WriteProfile, MarkOnboarded, profileVars, cardRows
  <2>2. pc'[c] # "revoke row"
    BY <1>8 DEF SetGuardrails, Complete, ReadName, WriteName, StoreShipping, UpdateProfile, ReadProfile,
       WriteProfile, MarkOnboarded, Keep, Goto, Done, Total
  <2>3. RevokerOK(c)' /\ RevokedAtVault'
    BY <2>1, <2>2 DEF CardsOK, RevokerOK, RevokedAtVault
  <2> QED BY <1>1, <1>2, <1>3, <2>1, <2>3, CardMoved
<1> QED BY <1>4, <1>5, <1>6, <1>7, <1>8 DEF ProfilesStep

LEMMA RecordsHold == Spec => [](ProfileOK /\ CardsOK)
<1>1. ASSUME Init PROVE ProfileOK /\ CardsOK
  <2>1. \A c \in Calls : pc[c] \in {"done", "idle"}
    BY <1>1 DEF Init, RequestsInit
  <2>2. /\ address = NONE /\ profile = NONE /\ said = {} /\ raced = {}
        /\ cards = [c \in Calls |-> NONE] /\ vault = [c \in Calls |-> NONE]
    BY <1>1 DEF Init, ProfilesInit
  <2> QED BY <2>1, <2>2, NoAccountAssumption
          DEF ProfileOK, CardsOK, WriterOK, RevokerOK, Writing, Kept, AddressOpens, RevokedAtVault,
          SessionStates
<1>2. ASSUME RequestsOK, ProfileOK, CardsOK, [Next]_vars PROVE ProfileOK' /\ CardsOK'
  <2> Total /\ job' = job
    BY <1>2, OthersStay DEF RequestsOK
  <2>1. ASSUME NEW c \in Calls, Fails(c), UNCHANGED profileVars PROVE ProfileOK' /\ CardsOK'
    <3>1. /\ pc[c] # "done" /\ pc'[c] = "done" /\ \A d \in Calls \ {c} : pc'[d] = pc[d] /\ mem'[d] = mem[d]
      BY <2>1 DEF Fails, Idle, Done, Keep, Total
    <3>2. UNCHANGED <<address, profile, said, raced, cards, vault>>
      BY <2>1 DEF profileVars, profileRows, cardRows
    <3>3. WriterOK(c)' /\ AddressOpens'
      BY <1>2, <3>1, <3>2 DEF WriterOK, Writing, AddressOpens, ProfileOK
    <3>4. CardsOK'
      <4>1. RevokerOK(c)' /\ RevokedAtVault' /\ cards[c] = NONE
        BY <1>2, <3>1, <3>2 DEF CardsOK, RevokerOK, RevokedAtVault
      <4>2. cards = [s \in Calls |-> cards[s]] /\ vault = [s \in Calls |-> vault[s]]
        BY <1>2 DEF CardsOK
      <4> QED BY <1>2, <3>1, <3>2, <4>1, <4>2, CardMoved
    <3> QED BY <1>2, <3>1, <3>2, <3>3, <3>4, ProfileMoved
  <2>2. CASE VaultForgets
    <3>1. /\ UNCHANGED <<pc, mem, address, profile, said, raced, cards>> /\ vault' = [s \in Calls |-> NONE]
      BY <2>2 DEF VaultForgets, requests, profileRows
    <3>2. ProfileOK'
      BY <1>2, <3>1 DEF ProfileOK, WriterOK, Writing, AddressOpens, Kept
    <3>3. CardsOK'
      BY <1>2, <3>1, NoAccountAssumption DEF CardsOK, RevokerOK, RevokedAtVault, Op, AgentStates
    <3> QED BY <3>2, <3>3
  <2>3. CASE Stays(ProfileOps, ProfileLabels) /\ UNCHANGED profileVars
    <3>1. UNCHANGED <<address, profile, said, raced, cards, vault>>
      BY <2>3 DEF profileVars, profileRows, cardRows
    <3>2. ASSUME NEW c \in Calls PROVE WriterOK(c)'
      <4>1. WriterOK(c)
        BY <1>2 DEF ProfileOK
      <4>2. pc'[c] \in Writing => pc'[c] = pc[c] /\ mem'[c] = mem[c]
        BY <2>3 DEF Stays, Writing, ProfileLabels
      <4>3. CASE pc'[c] \in Writing
        BY <3>1, <4>1, <4>2, <4>3 DEF WriterOK
      <4>4. CASE pc'[c] \notin Writing
        BY <4>4 DEF WriterOK, Writing
      <4> QED BY <4>3, <4>4
    <3>3. ProfileOK'
      BY <1>2, <3>1, <3>2 DEF ProfileOK, AddressOpens, Kept
    <3>4. CardsOK'
      BY <1>2, <2>3, <3>1 DEF Stays, CardsOK, RevokerOK, RevokedAtVault, Op, ProfileOps, ProfileLabels
    <3> QED BY <3>3, <3>4
  <2>4. ASSUME NEW c \in Calls, ProfilesStep(c) PROVE ProfileOK' /\ CardsOK'
    BY <1>2, <2>4, WriteProfileKeeps, ProfileStepKeeps, CardStepKeeps
  <2> QED BY <1>2, <2>1, <2>2, <2>3, <2>4, OthersStay DEF ProfilesOwn
<1> QED BY <1>1, <1>2, RequestsAreSorted, PTL DEF Spec

\* What was said stays in the profile until the same is said again or another was between
\* its read and its write, the stored address opens, and a revoked card is no longer live.
THEOREM RecordsDoAgree == Spec => []RecordsAgree
<1>1. ASSUME ProfileOK, CardsOK PROVE RecordsAgree
  BY <1>1 DEF ProfileOK, CardsOK, RecordsAgree, AttributesKept, Kept
<1> QED BY <1>1, RecordsHold, PTL

-------------------------------------------------------------------------------
(* Names.  A sign-in fills in a profile from the copy it has read.  A copy that  *)
(* has no name was read before anybody had set one, so that once there is a name *)
(* of the user's own, in the row or in a copy, its sign-in is among the renamed. *)

Copying == {"link", "verify", "profile"}
RowOK(u) == u \in User /\ (u.name = Theirs => u.avatar = Theirs)
OwnSeen ==
  \/ user # NONE /\ user.name = Own
  \/ \E d \in Calls : pc[d] \in Copying /\ mem[d].name = Own

CopyOK(c) ==
  pc[c] \in Copying =>
    /\ user # NONE /\ RowOK(mem[c])
    /\ mem[c].name = NONE /\ OwnSeen => c \in renamed
    /\ user.name = NONE => mem[c].name = NONE

EditorOK(c) ==
  /\ pc[c] \in Copying \cup {"create"} => Op(c) = "oauth"
  /\ pc[c] \in {"agent", "session", "password", "list"} => user # NONE
  /\ pc[c] = "rename" => user # NONE /\ mem[c] \in User
  /\ sessions[c] # NONE \/ tokens[c] # NONE => user # NONE

NamerOK(c) ==
  /\ pc[c] = "myname" => user # NONE
  /\ pc[c] = "setname" => user # NONE /\ mem[c].copy \in User

NamesOK ==
  /\ user # NONE => RowOK(user)
  /\ linked => user # NONE
  /\ sessions = [c \in Calls |-> sessions[c]] /\ tokens = [c \in Calls |-> tokens[c]]
  /\ \A c \in Calls : CopyOK(c) /\ EditorOK(c) /\ NamerOK(c)

\* Whose rows of the account the step may write.
LEMMA AccountRowsStay ==
  ASSUME [Next]_vars
  PROVE  \/ AccountsNext
         \/ /\ UNCHANGED <<user, linked, sessions, tokens, owed, renamed, stranded>>
            /\ \/ UNCHANGED agents
               \/ \E c \in Calls : Disown(c)
         \/ \E c \in Calls : WriteName(c)
<1> USE DEF accountVars, accountRows
<1>1. CASE ProfilesNext
  <2>1. ASSUME NEW c \in Calls, ProfilesStep(c), ~WriteName(c) PROVE UNCHANGED accountVars
    BY <2>1 DEF ProfilesStep, SetGuardrails, Complete, ReadName, StoreShipping, UpdateProfile,
       ReadProfile, WriteProfile, MarkOnboarded, AddCard, CreateSource, RevokeSource, RevokeRow
  <2> QED BY <1>1, <2>1 DEF ProfilesNext, VaultForgets
<1>2. CASE TenantsNext
  <2>1. ASSUME NEW c \in Calls, LoadAgent(c) PROVE UNCHANGED accountVars
    BY <2>1 DEF LoadAgent
  <2>2. ASSUME NEW c \in Calls, Disown(c) PROVE UNCHANGED <<user, linked, sessions, tokens, owed, renamed, stranded>>
    BY <2>2 DEF Disown
  <2> QED BY <1>2, <2>1, <2>2 DEF TenantsNext
<1> QED BY <1>1, <1>2 DEF Next, vars, services

\* A step by which one request moves.
LEMMA NamesMoved ==
  ASSUME NamesOK, job' = job, NEW c \in Calls,
         \A d \in Calls \ {c} : pc'[d] = pc[d] /\ mem'[d] = mem[d],
         renamed \subseteq renamed',
         user' # NONE => RowOK(user'), linked' => user' # NONE,
         user # NONE => user' # NONE /\ (user'.name = NONE => user.name = NONE),
         \/ OwnSeen' => OwnSeen
         \/ user = NONE
         \/ \A d \in Calls \ {c} : pc[d] \in Copying => d \in renamed',
         sessions' = [d \in Calls |-> sessions'[d]], tokens' = [d \in Calls |-> tokens'[d]],
         \A d \in Calls : sessions'[d] # NONE \/ tokens'[d] # NONE => user' # NONE,
         CopyOK(c)', EditorOK(c)', NamerOK(c)'
  PROVE  NamesOK'
<1>1. ASSUME NEW d \in Calls, d # c PROVE (CopyOK(d) /\ EditorOK(d) /\ NamerOK(d))'
  <2>1. CopyOK(d) /\ EditorOK(d) /\ NamerOK(d)
    BY DEF NamesOK
  <2>2. CopyOK(d)'
    BY <1>1, <2>1 DEF CopyOK
  <2>3. EditorOK(d)'
    BY <1>1, <2>1 DEF EditorOK, Op
  <2>4. NamerOK(d)'
    BY <1>1, <2>1 DEF NamerOK
  <2> QED BY <2>2, <2>3, <2>4
<1> QED BY <1>1 DEF NamesOK

\* The steps that leave the user's row alone.
LEMMA ReadingKeepsNames ==
  ASSUME RequestsOK, NamesOK, job' = job, NEW c \in Calls,
         \/ SignIn(c) \/ SignInWithOAuth(c) \/ LinkOAuthIdentity(c) \/ CreateAgent(c) \/ CreateSession(c)
         \/ SignOut(c) \/ RevokeSession(c) \/ RevokeAgent(c) \/ UndoAgent(c) \/ UpdateName(c)
         \/ RequestPasswordReset(c) \/ SendMail(c) \/ ResetPassword(c) \/ ListSessions(c)
         \/ PurgeExpired(c) \/ ErrorDropped(c)
  PROVE  NamesOK'
<1> USE DEF accountVars, accountRows
<1>0. Total /\ CopyOK(c) /\ EditorOK(c) /\ NamerOK(c)
  BY DEF RequestsOK, NamesOK
<1>1. \A d \in Calls \ {c} : pc'[d] = pc[d] /\ mem'[d] = mem[d]
  BY <1>0 DEF SignIn, SignInWithOAuth, LinkOAuthIdentity, CreateAgent, CreateSession, SignOut, RevokeSession,
     RevokeAgent, UndoAgent, UpdateName, RequestPasswordReset, SendMail, ResetPassword, ListSessions,
     PurgeExpired, ErrorDropped, NextSession, Drops, Keep, Goto, Done, Total
<1>2. UNCHANGED <<user, renamed>>
  BY DEF SignIn, SignInWithOAuth, LinkOAuthIdentity, CreateAgent, CreateSession, SignOut, RevokeSession,
     RevokeAgent, UndoAgent, UpdateName, RequestPasswordReset, SendMail, ResetPassword, ListSessions,
     PurgeExpired, ErrorDropped
<1>3. /\ sessions' = [d \in Calls |-> sessions'[d]] /\ tokens' = [d \in Calls |-> tokens'[d]]
      /\ \A d \in Calls : sessions'[d] # NONE \/ tokens'[d] # NONE => user # NONE
      /\ linked' => user # NONE
  <2>0. NONE \notin {"active", "revoked", "expired", "made", "sent", "used"}
    BY NoAccountAssumption DEF SessionStates, TokenStates
  <2>1. CASE CreateSession(c)
    BY <1>0, <2>1 DEF CreateSession, NamesOK, EditorOK
  <2>2. CASE RevokeSession(c)
    <3>1. PICK s : sessions' = [sessions EXCEPT ![s] = IF @ = "active" THEN "revoked" ELSE @]
      BY <2>2 DEF RevokeSession
    <3>2. \A d \in Calls : sessions'[d] # NONE => sessions[d] # NONE
      BY <2>0, <3>1 DEF NamesOK
    <3>3. sessions' = [d \in Calls |-> sessions'[d]] /\ UNCHANGED <<tokens, linked>>
      BY <2>2, <3>1 DEF RevokeSession, NamesOK
    <3> QED BY <3>2, <3>3 DEF NamesOK, EditorOK
  <2>3. CASE RequestPasswordReset(c) \/ SendMail(c)
    <3>1. UNCHANGED <<sessions, linked>> /\ tokens' = [d \in Calls |-> tokens'[d]]
      BY <2>3 DEF RequestPasswordReset, SendMail, NamesOK
    <3>2. \A d \in Calls : tokens'[d] # NONE => tokens[d] # NONE \/ user # NONE
      BY <2>0, <2>3 DEF RequestPasswordReset, SendMail, NamesOK
    <3> QED BY <3>1, <3>2 DEF NamesOK, EditorOK
  <2>4. CASE ResetPassword(c)
    <3>1. PICK t \in Calls : tokens[t] = "sent" /\ tokens' = [tokens EXCEPT ![t] = "used"]
      BY <2>4 DEF ResetPassword
    <3>2. UNCHANGED <<sessions, linked>>
      BY <2>4 DEF ResetPassword
    <3> QED BY <2>0, <3>1, <3>2 DEF NamesOK, EditorOK
  <2>5. CASE PurgeExpired(c)
    <3>1. PICK gone \in SUBSET {s \in Calls : sessions[s] \in {"revoked", "expired"}} :
             sessions' = [s \in Calls |-> IF s \in gone THEN "purged" ELSE sessions[s]]
      BY <2>5 DEF PurgeExpired
    <3>2. tokens' = [t \in Calls |-> IF tokens[t] \in {"used", "expired"} THEN "purged" ELSE tokens[t]]
      BY <2>5 DEF PurgeExpired
    <3>3. \A d \in Calls : /\ sessions'[d] # NONE => sessions[d] # NONE
                           /\ tokens'[d] # NONE => tokens[d] # NONE
      BY <2>0, <3>1, <3>2
    <3>4. linked' = linked
      BY <2>5 DEF PurgeExpired
    <3> QED BY <3>1, <3>2, <3>3, <3>4 DEF NamesOK, EditorOK
  <2>6. CASE LinkOAuthIdentity(c)
    <3>1. UNCHANGED <<sessions, tokens>> /\ user # NONE
      BY <1>0, <2>6 DEF LinkOAuthIdentity, CopyOK, Copying
    <3> QED BY <3>1 DEF NamesOK, EditorOK
  <2>7. CASE \/ SignIn(c) \/ SignInWithOAuth(c) \/ CreateAgent(c) \/ SignOut(c) \/ RevokeAgent(c)
             \/ UndoAgent(c)
             \/ UpdateName(c) \/ ListSessions(c) \/ ErrorDropped(c)
    <3>1. UNCHANGED <<sessions, tokens, linked>>
      BY <2>7 DEF SignIn, SignInWithOAuth, CreateAgent, SignOut, RevokeAgent, UndoAgent, UpdateName,
         ListSessions, ErrorDropped
    <3> QED BY <3>1 DEF NamesOK, EditorOK
  <2> QED BY <2>1, <2>2, <2>3, <2>4, <2>5, <2>6, <2>7
<1>4. \/ pc'[c] \notin Copying
      \/ pc[c] \in Copying /\ mem'[c] = mem[c]
      \/ Op(c) = "oauth" /\ user # NONE /\ mem'[c] = user
  BY <1>0 DEF SignIn, SignInWithOAuth, LinkOAuthIdentity, CreateAgent, CreateSession, SignOut, RevokeSession,
     RevokeAgent, UndoAgent, UpdateName, RequestPasswordReset, SendMail, ResetPassword, ListSessions,
     PurgeExpired, ErrorDropped, NextSession, Drops, Keep, Goto, Done, Total, Copying, At, NamesOK
<1>5. OwnSeen' => OwnSeen
  BY <1>1, <1>2, <1>4 DEF OwnSeen
<1>6. CopyOK(c)'
  <2>1. CASE pc'[c] \notin Copying
    BY <2>1 DEF CopyOK
  <2>2. CASE pc[c] \in Copying /\ mem'[c] = mem[c]
    BY <1>0, <1>2, <1>5, <2>2 DEF CopyOK
  <2>3. CASE user # NONE /\ mem'[c] = user
    <3>1. ASSUME user.name = NONE PROVE ~OwnSeen
      <4>1. NONE # Own
        BY NoAccountAssumption
      <4>2. \A d \in Calls : pc[d] \in Copying => mem[d].name = NONE
        BY <3>1 DEF NamesOK, CopyOK
      <4> QED BY <3>1, <4>1, <4>2 DEF OwnSeen
    <3> QED BY <1>2, <1>5, <2>3, <3>1 DEF CopyOK, NamesOK
  <2> QED BY <1>4, <2>1, <2>2, <2>3
<1>7. EditorOK(c)'
  <2>1. pc'[c] \in Copying \cup {"create"} => Op(c) = "oauth"
    BY <1>0 DEF SignIn, SignInWithOAuth, LinkOAuthIdentity, CreateAgent, CreateSession, SignOut,
         RevokeSession,
       RevokeAgent, UndoAgent, UpdateName, RequestPasswordReset, SendMail, ResetPassword, ListSessions,
       PurgeExpired, ErrorDropped, NextSession, Drops, Keep, Goto, Done, Total, Copying, At, EditorOK
  <2>2. pc'[c] \in {"agent", "session", "password", "list"} => user # NONE
    <3>1. CASE ResetPassword(c)
      <4>1. PICK t \in Calls : tokens[t] = "sent"
        BY <3>1 DEF ResetPassword
      <4>2. tokens[t] # NONE
        BY <4>1, NoAccountAssumption DEF TokenStates
      <4> QED BY <4>2 DEF NamesOK, EditorOK
    <3>2. CASE ~ResetPassword(c)
      BY <1>0, <3>2 DEF SignIn, SignInWithOAuth, LinkOAuthIdentity, CreateAgent, CreateSession, SignOut,
         RevokeSession, RevokeAgent, UndoAgent, UpdateName, RequestPasswordReset, SendMail, ListSessions,
         PurgeExpired, ErrorDropped, NextSession, Drops, Keep, Goto, Done, Total, Copying, At,
         EditorOK, CopyOK
    <3> QED BY <3>1, <3>2
  <2>3. pc'[c] = "rename" => user # NONE /\ mem'[c] \in User
    <3>1. CASE UpdateName(c)
      <4>1. PICK s \in Calls : sessions[s] = "active"
        BY <3>1 DEF UpdateName, ListActiveSessions
      <4>2. user # NONE
        BY <4>1, NoAccountAssumption DEF NamesOK, EditorOK, SessionStates
      <4> QED BY <1>0, <3>1, <4>2 DEF UpdateName, Keep, Total, NamesOK, RowOK
    <3>2. CASE ~UpdateName(c)
      BY <1>0, <3>2 DEF SignIn, SignInWithOAuth, LinkOAuthIdentity, CreateAgent, CreateSession, SignOut,
         RevokeSession, RevokeAgent, UndoAgent, RequestPasswordReset, SendMail, ResetPassword, ListSessions,
         PurgeExpired, ErrorDropped, NextSession, Drops, Keep, Goto, Done, Total
    <3> QED BY <3>1, <3>2
  <2> QED BY <1>2, <1>3, <2>1, <2>2, <2>3 DEF EditorOK, Op
<1>8. NamerOK(c)'
  <2>1. pc'[c] \notin {"myname", "setname"}
    BY <1>0 DEF SignIn, SignInWithOAuth, LinkOAuthIdentity, CreateAgent, CreateSession, SignOut,
         RevokeSession,
       RevokeAgent, UndoAgent, UpdateName, RequestPasswordReset, SendMail, ResetPassword, ListSessions,
       PurgeExpired, ErrorDropped, NextSession, Drops, Keep, Goto, Done, Total
  <2> QED BY <2>1 DEF NamerOK
<1>9. user' # NONE => RowOK(user')
  BY <1>2 DEF NamesOK
<1> QED BY <1>1, <1>2, <1>3, <1>5, <1>6, <1>7, <1>8, <1>9, NamesMoved

\* The steps that write it.
LEMMA WritingKeepsNames ==
  ASSUME RequestsOK, NamesOK, job' = job, NEW c \in Calls,
         \/ SignUp(c) \/ CreateUser(c) \/ MarkEmailVerified(c) \/ FillProfile(c)
         \/ UpdateUserProfile(c) \/ SetPassword(c) \/ WriteName(c)
  PROVE  NamesOK'
<1>0. Total /\ CopyOK(c) /\ EditorOK(c) /\ NamerOK(c)
  BY DEF RequestsOK, NamesOK
<1>1. \A d \in Calls \ {c} : pc'[d] = pc[d] /\ mem'[d] = mem[d]
  BY <1>0 DEF SignUp, CreateUser, MarkEmailVerified, FillProfile, UpdateUserProfile, SetPassword, WriteName,
     Keep, Goto, Done, Total
<1>2. UNCHANGED <<sessions, tokens, linked>> /\ renamed \subseteq renamed'
  BY DEF SignUp, CreateUser, MarkEmailVerified, FillProfile, UpdateUserProfile, SetPassword, WriteName
<1>3. NONE \notin {Own, Theirs} /\ Own # Theirs
  BY NoAccountAssumption DEF Own, Theirs
<1>4. user = NONE => \A d \in Calls : pc[d] \notin Copying
  BY DEF NamesOK, CopyOK
<1>5. ASSUME user = NONE, user' \in User, RowOK(user'), pc'[c] \in {"agent", "link"},
             pc'[c] = "link" => /\ Op(c) = "oauth" /\ mem'[c] = user' /\ user'.name = Theirs
      PROVE  NamesOK'
  <2>1. user' # NONE
    BY <1>5, NoAccountAssumption
  <2>2. CopyOK(c)' /\ EditorOK(c)' /\ NamerOK(c)'
    BY <1>0, <1>2, <1>3, <1>5, <2>1 DEF CopyOK, EditorOK, NamerOK, Copying, Op
  <2>3. \A d \in Calls : sessions'[d] # NONE \/ tokens'[d] # NONE => user' # NONE
    BY <2>1
  <2>4. linked' => user' # NONE
    BY <2>1
  <2>5. sessions' = [d \in Calls |-> sessions'[d]] /\ tokens' = [d \in Calls |-> tokens'[d]]
    BY <1>2 DEF NamesOK
  <2> QED BY <1>1, <1>2, <1>5, <2>1, <2>2, <2>3, <2>4, <2>5, NamesMoved
<1>6. ASSUME user # NONE, user' \in User, RowOK(user'), user'.name = NONE => user.name = NONE,
             \/ OwnSeen' => OwnSeen
             \/ \A d \in Calls \ {c} : pc[d] \in Copying => d \in renamed',
             CopyOK(c)', EditorOK(c)', NamerOK(c)'
      PROVE  NamesOK'
  <2>1. user' # NONE
    BY <1>6, NoAccountAssumption
  <2>3. \A d \in Calls : sessions'[d] # NONE \/ tokens'[d] # NONE => user' # NONE
    BY <2>1
  <2>4. linked' => user' # NONE
    BY <2>1
  <2>5. sessions' = [d \in Calls |-> sessions'[d]] /\ tokens' = [d \in Calls |-> tokens'[d]]
    BY <1>2 DEF NamesOK
  <2> QED BY <1>1, <1>2, <1>6, <2>1, <2>3, <2>4, <2>5, NamesMoved
<1>7. CASE SignUp(c)
  <2>1. PICK name \in {NONE, Own} :
          user' = [name |-> name, avatar |-> NONE, password |-> c, verified |-> FALSE]
    BY <1>7 DEF SignUp
  <2>2. user' \in User /\ RowOK(user')
    BY <1>3, <2>1 DEF RowOK, User
  <2>3. user = NONE /\ pc'[c] = "agent"
    BY <1>0, <1>7 DEF SignUp, Goto, Total
  <2> QED BY <1>5, <2>2, <2>3
<1>8. CASE CreateUser(c)
  <2>1. CASE user = NONE
    <3>1. /\ user' = [name |-> Theirs, avatar |-> Theirs, password |-> NONE, verified |-> TRUE]
          /\ pc'[c] = "link" /\ mem'[c] = user' /\ pc[c] = "create"
      BY <1>0, <1>8, <2>1 DEF CreateUser, Keep, Total
    <3>2. user' \in User /\ RowOK(user') /\ user'.name = Theirs
      BY <3>1 DEF RowOK, User
    <3> QED BY <1>0, <1>5, <2>1, <3>1, <3>2 DEF EditorOK
  <2>2. CASE user # NONE
    <3>1. user' = user /\ pc'[c] = "done" /\ renamed' = renamed
      BY <1>0, <1>8, <2>2 DEF CreateUser, Done, Keep, Total
    <3>2. OwnSeen' => OwnSeen
      BY <1>1, <3>1 DEF OwnSeen, Copying
    <3>3. CopyOK(c)' /\ EditorOK(c)' /\ NamerOK(c)'
      BY <1>0, <1>2, <3>1 DEF CopyOK, EditorOK, NamerOK, Copying
    <3>4. user' \in User /\ RowOK(user')
      BY <2>2, <3>1 DEF NamesOK, RowOK
    <3> QED BY <1>6, <2>2, <3>1, <3>2, <3>3, <3>4
  <2> QED BY <2>1, <2>2
<1>9. CASE MarkEmailVerified(c)
  <2>1. user # NONE /\ pc[c] = "verify" /\ RowOK(user) /\ RowOK(mem[c])
    BY <1>0, <1>9 DEF MarkEmailVerified, CopyOK, Copying, NamesOK
  <2>2. user' = [user EXCEPT !.verified = TRUE] /\ pc'[c] = "profile" /\ mem'[c] = mem[c]
        /\ renamed' = renamed
    BY <1>0, <1>9 DEF MarkEmailVerified, Goto, Total
  <2>3. user' \in User /\ RowOK(user') /\ user'.name = user.name
    BY <2>1, <2>2 DEF RowOK, User
  <2>4. OwnSeen' => OwnSeen
    BY <1>1, <2>1, <2>2, <2>3 DEF OwnSeen, Copying
  <2>5. user' # NONE
    BY <2>3, NoAccountAssumption
  <2>6. CopyOK(c)' /\ EditorOK(c)' /\ NamerOK(c)'
    BY <1>0, <1>2, <2>1, <2>2, <2>3, <2>4, <2>5 DEF CopyOK, EditorOK, NamerOK, Copying, Op
  <2> QED BY <1>6, <2>1, <2>3, <2>4, <2>6
<1>10. CASE FillProfile(c)
  <2> DEFINE filled == [mem[c] EXCEPT !.name = Fill(mem[c].name), !.avatar = Fill(mem[c].avatar)]
  <2>1. user # NONE /\ pc[c] = "profile" /\ RowOK(user) /\ RowOK(mem[c])
    BY <1>0, <1>10 DEF FillProfile, CopyOK, Copying, NamesOK
  <2>2. /\ user' = IF filled = mem[c] THEN user
                   ELSE [user EXCEPT !.name = filled.name, !.avatar = filled.avatar]
        /\ pc'[c] = "agent" /\ renamed' = renamed
    BY <1>0, <1>10 DEF FillProfile, Goto, Total
  <2>3. /\ filled \in User /\ filled.avatar = Theirs /\ filled.name # NONE
        /\ filled.name = IF mem[c].name = NONE THEN Theirs ELSE mem[c].name
    BY <1>3, <2>1 DEF RowOK, User, Fill
  <2> HIDE DEF filled
  <2>4. /\ user' \in User /\ RowOK(user') /\ (user'.name = NONE => user.name = NONE)
        /\ user'.name = Own => user.name = Own \/ mem[c].name = Own
    BY <1>3, <2>1, <2>2, <2>3 DEF RowOK, User
  <2>5. OwnSeen' => OwnSeen
    BY <1>1, <2>1, <2>2, <2>4 DEF OwnSeen, Copying
  <2>6. user' # NONE
    BY <2>4, NoAccountAssumption
  <2>7. CopyOK(c)' /\ EditorOK(c)' /\ NamerOK(c)'
    BY <1>0, <1>2, <2>1, <2>2, <2>6 DEF CopyOK, EditorOK, NamerOK, Copying, Op
  <2> QED BY <1>6, <2>1, <2>4, <2>5, <2>7
<1>11. CASE UpdateUserProfile(c)
  <2>1. user # NONE /\ mem[c] \in User /\ user \in User
    BY <1>0, <1>11 DEF UpdateUserProfile, EditorOK, NamesOK, RowOK
  <2>2. /\ user' = [user EXCEPT !.name = Own, !.avatar = mem[c].avatar] /\ pc'[c] = "done"
        /\ renamed' = renamed \cup {r \in ByOp({"oauth"}) : pc[r] \in {"create", "link", "verify", "profile"}}
    BY <1>0, <1>11 DEF UpdateUserProfile, Done, Keep, Total
  <2>3. user' \in User /\ RowOK(user') /\ user'.name # NONE
    BY <1>3, <2>1, <2>2 DEF RowOK, User
  <2>4. \A d \in Calls : pc[d] \in Copying => d \in renamed'
    BY <2>2 DEF NamesOK, EditorOK, Copying, ByOp
  <2>5. CopyOK(c)' /\ EditorOK(c)' /\ NamerOK(c)'
    BY <1>0, <1>2, <2>1, <2>2, <2>3, NoAccountAssumption DEF CopyOK, EditorOK, NamerOK, Copying
  <2> QED BY <1>6, <2>1, <2>3, <2>4, <2>5
<1>12. CASE SetPassword(c)
  <2>1. user # NONE /\ RowOK(user)
    BY <1>0, <1>12 DEF SetPassword, EditorOK, NamesOK
  <2>2. user' = [user EXCEPT !.password = c] /\ pc'[c] = "list" /\ renamed' = renamed
    BY <1>0, <1>12 DEF SetPassword, Goto, Total
  <2>3. user' \in User /\ RowOK(user') /\ user'.name = user.name
    BY <2>1, <2>2 DEF RowOK, User
  <2>4. OwnSeen' => OwnSeen
    BY <1>1, <2>1, <2>2, <2>3 DEF OwnSeen, Copying
  <2>5. CopyOK(c)' /\ EditorOK(c)' /\ NamerOK(c)'
    BY <1>0, <1>2, <2>1, <2>2, <2>3, NoAccountAssumption DEF CopyOK, EditorOK, NamerOK, Copying
  <2> QED BY <1>6, <2>1, <2>3, <2>4, <2>5
<1>13. CASE WriteName(c)
  <2>1. user # NONE /\ mem[c].copy \in User /\ user \in User
    BY <1>0, <1>13 DEF WriteName, At, NamerOK, NamesOK, RowOK
  <2>2. /\ user' = [user EXCEPT !.name = Own, !.avatar = mem[c].copy.avatar] /\ pc'[c] = "home"
        /\ renamed' = renamed \cup {r \in ByOp({"oauth"}) : ~Idle(r)}
    BY <1>0, <1>13 DEF WriteName, Goto, Total
  <2>3. user' \in User /\ RowOK(user') /\ user'.name # NONE
    BY <1>3, <2>1, <2>2 DEF RowOK, User
  <2>4. \A d \in Calls : pc[d] \in Copying => d \in renamed'
    BY <2>2 DEF NamesOK, EditorOK, Copying, ByOp, Idle
  <2>5. CopyOK(c)' /\ EditorOK(c)' /\ NamerOK(c)'
    BY <1>0, <1>2, <2>1, <2>2, <2>3, NoAccountAssumption DEF CopyOK, EditorOK, NamerOK, Copying
  <2> QED BY <1>6, <2>1, <2>3, <2>4, <2>5
<1> QED BY <1>7, <1>8, <1>9, <1>10, <1>11, <1>12, <1>13

LEMMA AccountsKeepNames == ASSUME RequestsOK, NamesOK, job' = job, AccountsNext PROVE NamesOK'
<1> Total
  BY DEF RequestsOK
<1>1. ASSUME NEW c \in Calls, Breaks(c) PROVE NamesOK'
  <2>1. pc'[c] = "done" /\ \A d \in Calls \ {c} : pc'[d] = pc[d] /\ mem'[d] = mem[d]
    BY <1>1 DEF Breaks, Fails, Done, Keep, Total
  <2>2. UNCHANGED <<user, linked, sessions, tokens, renamed>>
    BY <1>1 DEF Breaks, accountRows
  <2>3. OwnSeen' => OwnSeen
    BY <2>1, <2>2 DEF OwnSeen, Copying
  <2>4. CopyOK(c)' /\ EditorOK(c)' /\ NamerOK(c)'
    BY <2>1, <2>2 DEF NamesOK, CopyOK, EditorOK, NamerOK, Copying
  <2> QED BY <2>1, <2>2, <2>3, <2>4, NamesMoved DEF NamesOK, EditorOK
<1>2. ASSUME NEW c \in Calls, TimePasses(c) PROVE NamesOK'
  <2>1. UNCHANGED <<pc, mem, user, linked, renamed>>
    BY <1>2 DEF TimePasses, requests
  <2>2. NONE \notin {"active", "made", "sent"}
    BY NoAccountAssumption DEF SessionStates, TokenStates
  <2>3. /\ \A d \in Calls : /\ sessions'[d] # NONE => sessions[d] # NONE
                            /\ tokens'[d] # NONE => tokens[d] # NONE
        /\ sessions' = [d \in Calls |-> sessions'[d]] /\ tokens' = [d \in Calls |-> tokens'[d]]
    BY <1>2, <2>2 DEF TimePasses, NamesOK
  <2>4. OwnSeen' <=> OwnSeen
    BY <2>1 DEF OwnSeen
  <2>5. \A d \in Calls : CopyOK(d)' /\ EditorOK(d)' /\ NamerOK(d)'
    BY <2>1, <2>3, <2>4 DEF NamesOK, CopyOK, EditorOK, NamerOK, Op
  <2> QED BY <2>1, <2>3, <2>5 DEF NamesOK
<1> QED BY <1>1, <1>2, ReadingKeepsNames, WritingKeepsNames DEF AccountsNext, AccountsStep

\* The onboarding reads the name in a session.
LEMMA OthersKeepNames ==
  ASSUME RequestsOK, ProfileOK, NamesOK, job' = job, UNCHANGED <<user, linked, sessions, tokens, renamed>>,
         Stays(AccountOps \ GrantOps, AccountLabels),
         ProfilesOwn \/ Stays(ProfileOps, ProfileLabels)
  PROVE  NamesOK'
<1> Total
  BY DEF RequestsOK
<1>1. OwnSeen' => OwnSeen
  BY DEF OwnSeen, Stays, AccountLabels, Copying
<1>2. ASSUME NEW d \in Calls PROVE CopyOK(d)' /\ EditorOK(d)'
  <2>1. CopyOK(d) /\ EditorOK(d)
    BY DEF NamesOK
  <2>2. CopyOK(d)'
    BY <1>1, <2>1 DEF CopyOK, Stays, AccountLabels, Copying
  <2>3. EditorOK(d)'
    BY <2>1 DEF EditorOK, Stays, AccountLabels, Copying, Op
  <2> QED BY <2>2, <2>3
<1>3. ASSUME NEW d \in Calls PROVE NamerOK(d)'
  <2>1. NamerOK(d) /\ WriterOK(d)
    BY DEF NamesOK, ProfileOK
  <2>2. CASE Stays(ProfileOps, ProfileLabels) \/ (pc'[d] = pc[d] /\ mem'[d] = mem[d])
    BY <2>1, <2>2 DEF NamerOK, Stays, ProfileLabels
  <2>3. CASE Complete(d)
    <3>1. PICK s \in Calls : sessions[s] = "active"
      BY <2>3 DEF Complete, ListActiveSessions
    <3>2. user # NONE
      BY <3>1, NoAccountAssumption DEF NamesOK, EditorOK, SessionStates
    <3>3. pc'[d] # "setname"
      BY <2>3 DEF Complete, Keep, Total
    <3> QED BY <3>2, <3>3 DEF NamerOK
  <2>4. CASE ReadName(d)
    <3>1. pc[d] = "myname" /\ pc'[d] = "setname" /\ mem'[d] = [mem[d] EXCEPT !.copy = user]
      BY <2>4 DEF ReadName, At, Keep, Total
    <3>2. mem'[d].copy = user
      BY <2>1, <3>1 DEF WriterOK, Writing
    <3> QED BY <2>1, <3>1, <3>2 DEF NamerOK, NamesOK, RowOK
  <2>5. ASSUME pc'[d] \notin {"myname", "setname"} PROVE NamerOK(d)'
    BY <2>5 DEF NamerOK
  <2>6. ASSUME NEW c \in Calls, ProfilesStep(c)
        PROVE  \/ pc'[d] = pc[d] /\ mem'[d] = mem[d]
               \/ c = d /\ (Complete(d) \/ ReadName(d))
               \/ pc'[d] \notin {"myname", "setname"}
    <3>1. CASE SetGuardrails(c) \/ Complete(c) \/ ReadName(c) \/ WriteName(c) \/ StoreShipping(c)
      BY <3>1 DEF SetGuardrails, Complete, ReadName, WriteName, StoreShipping, Keep, Goto, Done, Total
    <3>2. CASE UpdateProfile(c) \/ ReadProfile(c) \/ WriteProfile(c) \/ MarkOnboarded(c)
      BY <3>2 DEF UpdateProfile, ReadProfile, WriteProfile, MarkOnboarded, Keep, Goto, Done, Total
    <3>3. CASE AddCard(c) \/ CreateSource(c) \/ RevokeSource(c) \/ RevokeRow(c)
      BY <3>3 DEF AddCard, CreateSource, RevokeSource, RevokeRow, Keep, Goto, Done, Total
    <3> QED BY <2>6, <3>1, <3>2, <3>3 DEF ProfilesStep
  <2>7. ASSUME NEW c \in Calls, Fails(c)
        PROVE  (pc'[d] = pc[d] /\ mem'[d] = mem[d]) \/ pc'[d] = "done"
    BY <2>7 DEF Fails, Done, Keep, Total
  <2>8. ASSUME VaultForgets PROVE pc'[d] = pc[d] /\ mem'[d] = mem[d]
    BY <2>8 DEF VaultForgets, requests
  <2> QED BY <2>2, <2>3, <2>4, <2>5, <2>6, <2>7, <2>8 DEF ProfilesOwn
<1> QED BY <1>2, <1>3 DEF NamesOK

LEMMA NamesHold == Spec => []NamesOK
<1>1. ASSUME Init PROVE NamesOK
  <2>1. \A c \in Calls : pc[c] \in {"done", "idle"}
    BY <1>1 DEF Init, RequestsInit
  <2>2. /\ user = NONE /\ linked = FALSE
        /\ sessions = [c \in Calls |-> NONE] /\ tokens = [c \in Calls |-> NONE]
    BY <1>1 DEF Init, AccountsInit
  <2> QED BY <2>1, <2>2 DEF NamesOK, CopyOK, EditorOK, NamerOK, Copying
<1>2. ASSUME RequestsOK, ProfileOK, NamesOK, [Next]_vars PROVE NamesOK'
  <2>1. job' = job
    BY <1>2, OthersStay
  <2>2. ASSUME NEW c \in Calls, WriteName(c) PROVE NamesOK'
    BY <1>2, <2>1, <2>2, WritingKeepsNames
  <2>3. CASE AccountsNext
    BY <1>2, <2>1, <2>3, AccountsKeepNames
  <2> QED BY <1>2, <2>1, <2>2, <2>3, OthersStay, OthersKeepNames, AccountRowsStay
<1> QED BY <1>1, <1>2, RequestsAreSorted, RecordsHold, PTL DEF Spec

\* The name a user has set is overwritten by no provider's sign-in that read the profile
\* after it was set.
THEOREM NamesAreKept == Spec => OwnNameKept
<1>1. ASSUME RequestsOK, NamesOK, [Next]_vars
      PROVE  [user # NONE /\ user.name = Own /\ user'.name # Own => \E c \in renamed : pc[c] = "profile"]_user
  <2>1. SUFFICES ASSUME user # NONE, user.name = Own, user'.name # Own
                 PROVE  \E c \in renamed : pc[c] = "profile"
    OBVIOUS
  <2>2. RowOK(user)
    BY <1>1, <2>1 DEF NamesOK
  <2>3. ASSUME NEW c \in Calls, FillProfile(c) PROVE c \in renamed /\ pc[c] = "profile"
    <3>1. pc[c] = "profile" /\ CopyOK(c)
      BY <1>1, <2>3 DEF FillProfile, NamesOK
    <3>2. RowOK(mem[c]) /\ (mem[c].name = NONE => c \in renamed)
      BY <2>1, <3>1 DEF CopyOK, Copying, OwnSeen
    <3>3. CASE mem[c].name = Own
      <4>1. [mem[c] EXCEPT !.name = Fill(mem[c].name), !.avatar = Fill(mem[c].avatar)].name = Own
        BY <3>2, <3>3, NoAccountAssumption DEF RowOK, User, Fill
      <4>2. user'.name = Own
        BY <2>1, <2>2, <2>3, <4>1 DEF FillProfile, RowOK, User
      <4> QED BY <2>1, <4>2
    <3>4. CASE mem[c].name = Theirs
      <4>1. [mem[c] EXCEPT !.name = Fill(mem[c].name), !.avatar = Fill(mem[c].avatar)] = mem[c]
        BY <3>2, <3>4, NoAccountAssumption DEF RowOK, User, Fill
      <4>2. user' = user
        BY <2>3, <4>1 DEF FillProfile
      <4> QED BY <2>1, <4>2
    <3> QED BY <3>1, <3>2, <3>3, <3>4 DEF RowOK, User
  <2>4. ASSUME NEW c \in Calls, AccountsStep(c) \/ WriteName(c), ~FillProfile(c) PROVE FALSE
    <3>1. CASE \/ SignUp(c) \/ CreateUser(c) \/ MarkEmailVerified(c) \/ UpdateUserProfile(c)
               \/ SetPassword(c) \/ WriteName(c)
      BY <2>1, <2>2, <3>1 DEF SignUp, CreateUser, MarkEmailVerified, UpdateUserProfile, SetPassword,
           WriteName,
         RowOK, User
    <3>2. CASE ~(\/ SignUp(c) \/ CreateUser(c) \/ MarkEmailVerified(c) \/ UpdateUserProfile(c)
                 \/ SetPassword(c) \/ WriteName(c))
      <4>1. user' = user
        BY <2>4, <3>2 DEF AccountsStep, SignIn, SignInWithOAuth, LinkOAuthIdentity, CreateAgent,
             CreateSession,
           SignOut, RevokeSession, RevokeAgent, UndoAgent, UpdateName, RequestPasswordReset, SendMail,
           ResetPassword, ListSessions, PurgeExpired, accountVars, accountRows
      <4> QED BY <2>1, <4>1
    <3> QED BY <3>1, <3>2
  <2>5. ASSUME NEW c \in Calls, Breaks(c) \/ ErrorDropped(c) \/ TimePasses(c) PROVE FALSE
    BY <2>1, <2>5 DEF Breaks, ErrorDropped, TimePasses, accountRows
  <2> QED BY <1>1, <2>1, <2>3, <2>4, <2>5, AccountRowsStay DEF AccountsNext
<1> QED BY <1>1, NamesHold, RequestsAreSorted, PTL DEF Spec, OwnNameKept

-------------------------------------------------------------------------------
(* Sessions and their agents.  A session is made by a sign-in that ends with it and is  *)
(* never active again; who ends sessions holds those it has left to end.                *)

SignInOps == {"signup", "signin", "oauth"}
EndOps == {"signout", "reset"}
Recorded == {s \in Calls : sessions[s] # NONE}

\* The request d has ended the session s and has its agent left to revoke.
Ending(d, s) == At(d, EndOps, "disarm") /\ mem[d].now = s

SessionOK(s) ==
  /\ sessions[s] # NONE => agents[s] # NONE /\ pc[s] = "done"
  /\ pc[s] = "session" => agents[s] # NONE
  /\ agents[s] # NONE => Op(s) \in SignInOps /\ pc[s] \in {"session", "disarm", "done"}
  /\ pc[s] = "session" \/ sessions[s] = "active" => agents[s] = "live" \/ s \in disowned
  /\ agents[s] = "live" => \/ sessions[s] = "active"
                           \/ pc[s] \in {"session", "disarm"}
                           \/ s \in stranded
                           \/ \E d \in Calls : Ending(d, s)

EnderOK(c) ==
  /\ pc[c] \in {"create", "link", "verify", "profile"} => Op(c) = "oauth"
  /\ pc[c] \in {"agent", "session"} => Op(c) \in SignInOps
  /\ pc[c] \in {"rename", "mail"} => Op(c) \in {"rename", "forgot"}
  /\ pc[c] \in {"password", "list"} => Op(c) = "reset"
  /\ pc[c] \in {"revoke", "disarm"} => Op(c) \in EndOps \cup SignInOps
  /\ pc[c] = "revoke" => Op(c) \in EndOps /\ mem[c] \subseteq Recorded
  /\ At(c, EndOps, "disarm") =>
       /\ mem[c].now \in Recorded /\ sessions[mem[c].now] # "active"
       /\ mem[c].left \subseteq Recorded
  /\ At(c, SignInOps, "disarm") => mem[c].now = c

\* What a reset owes is ended or left to end.
ResetOK(c) ==
  Op(c) = "reset" =>
    /\ owed[c] \subseteq Recorded
    /\ \A s \in owed[c] : sessions[s] = "active" =>
         /\ pc[c] # "done"
         /\ pc[c] = "revoke" => s \in mem[c]
         /\ pc[c] = "disarm" => s \in mem[c].left

SessionsOK ==
  /\ sessions = [s \in Calls |-> sessions[s]] /\ agents = [s \in Calls |-> agents[s]]
  /\ owed = [c \in Calls |-> owed[c]]
  /\ \A c \in Calls : SessionOK(c) /\ EnderOK(c) /\ ResetOK(c)

\* A session or its agent may end meanwhile, but not the agent of one that is active,
\* unless the person revokes it.
SessionsEnd(s) ==
  /\ sessions'[s] = sessions[s] \/ (s \in Recorded /\ sessions'[s] \notin {NONE, "active"})
  /\ \/ agents'[s] = agents[s]
     \/ agents[s] # NONE /\ agents'[s] = "revoked"
           /\ (s \in disowned' \/ (sessions[s] # "active" /\ pc[s] # "session"))

\* A step by which one request moves.
LEMMA SessionsMoved ==
  ASSUME SessionsOK, job' = job, NEW c \in Calls,
         stranded \subseteq stranded', disowned \subseteq disowned',
         \A d \in Calls \ {c} : pc'[d] = pc[d] /\ mem'[d] = mem[d] /\ owed'[d] = owed[d] /\ SessionsEnd(d),
         Recorded \subseteq Recorded',
         \A s \in Calls \ {c} : sessions[s] = "active" /\ sessions'[s] # "active" => Ending(c, s)',
         \A s \in Calls \ {c} : Ending(c, s) =>
            Ending(c, s)' \/ agents'[s] # "live" \/ s \in stranded',
         sessions' = [s \in Calls |-> sessions'[s]], agents' = [s \in Calls |-> agents'[s]],
         owed' = [s \in Calls |-> owed'[s]],
         sessions'[c] = "active" => sessions[c] \in {NONE, "active"},
         SessionOK(c)', EnderOK(c)', ResetOK(c)'
  PROVE  SessionsOK'
<1>1. ASSUME NEW d \in Calls, d # c PROVE SessionOK(d)'
  <2>1. SessionOK(d) /\ SessionsEnd(d) /\ pc'[d] = pc[d]
    BY <1>1 DEF SessionsOK
  <2>2. sessions'[d] # NONE => sessions[d] # NONE
    BY <2>1 DEF SessionsEnd, Recorded
  <2>3. NONE \notin {"active", "live", "revoked"}
    BY NoAccountAssumption DEF SessionStates, AgentStates
  <2>4. agents'[d] # NONE <=> agents[d] # NONE
    BY <2>1, <2>3 DEF SessionsEnd
  <2>5. sessions'[d] = "active" => sessions[d] = "active"
    BY <2>1 DEF SessionsEnd
  <2>6. pc'[d] = "session" \/ sessions'[d] = "active" => agents'[d] = "live" \/ d \in disowned'
    BY <2>1, <2>5 DEF SessionOK, SessionsEnd
  <2>7. ASSUME agents'[d] = "live", sessions'[d] # "active",
               pc'[d] \notin {"session", "disarm"}, d \notin stranded'
        PROVE  \E e \in Calls : Ending(e, d)'
    <3>1. agents[d] = "live" /\ d \notin stranded
      BY <2>1, <2>3, <2>7 DEF SessionsEnd
    <3>2. CASE sessions[d] = "active"
      BY <1>1, <2>7, <3>2
    <3>3. CASE sessions[d] # "active"
      <4>1. PICK e \in Calls : Ending(e, d)
        BY <2>1, <2>7, <3>1, <3>3 DEF SessionOK
      <4>2. CASE e = c
        BY <1>1, <2>7, <4>1, <4>2
      <4>3. CASE e # c
        BY <4>1, <4>3 DEF Ending, At, Op
      <4> QED BY <4>2, <4>3
    <3> QED BY <3>2, <3>3
  <2> QED BY <2>1, <2>2, <2>4, <2>6, <2>7 DEF SessionOK, Op
<1>2. ASSUME NEW d \in Calls, d # c PROVE EnderOK(d)'
  <2>1. EnderOK(d) /\ pc'[d] = pc[d] /\ mem'[d] = mem[d]
    BY <1>2 DEF SessionsOK
  <2>2. ASSUME At(d, EndOps, "disarm") PROVE sessions'[mem[d].now] # "active"
    <3>1. mem[d].now \in Recorded /\ sessions[mem[d].now] # "active"
      BY <2>1, <2>2 DEF EnderOK
    <3> QED BY <3>1 DEF SessionsEnd, Recorded
  <2> QED BY <2>1, <2>2 DEF EnderOK, At, Op
<1>3. ASSUME NEW d \in Calls, d # c PROVE ResetOK(d)'
  <2>1. ResetOK(d) /\ pc'[d] = pc[d] /\ mem'[d] = mem[d] /\ owed'[d] = owed[d]
    BY <1>3 DEF SessionsOK
  <2>2. ASSUME NEW s \in Recorded, sessions'[s] = "active" PROVE sessions[s] = "active"
    BY <2>2 DEF SessionsEnd, Recorded
  <2> QED BY <2>1, <2>2 DEF ResetOK, Op
<1> QED BY <1>1, <1>2, <1>3 DEF SessionsOK

\* A step that leaves sessions and agents alone.
LEMMA QuietKeeps ==
  ASSUME SessionsOK, job' = job, NEW c \in Calls,
         UNCHANGED <<sessions, agents, disowned>>, stranded \subseteq stranded',
         owed' = [d \in Calls |-> owed'[d]],
         \A d \in Calls \ {c} : pc'[d] = pc[d] /\ mem'[d] = mem[d] /\ owed'[d] = owed[d],
         pc[c] # "done", pc'[c] # "session", \A s \in Calls : Ending(c, s) => s \in stranded',
         At(c, SignInOps, "session") \/ At(c, SignInOps, "disarm") => pc'[c] = "done" /\ c \in stranded',
         EnderOK(c)', ResetOK(c)'
  PROVE  SessionsOK'
<1>1. sessions[c] = NONE /\ (agents[c] # NONE => Op(c) \in SignInOps /\ pc[c] \in {"session", "disarm"})
  BY DEF SessionsOK, SessionOK
<1>2. agents[c] # NONE => pc'[c] = "done" /\ c \in stranded'
  BY <1>1 DEF At
<1>3. NONE \notin {"active", "live"}
  BY NoAccountAssumption DEF SessionStates, AgentStates
<1>4. SessionOK(c)'
  BY <1>1, <1>2, <1>3 DEF SessionOK, Op
<1>5. \A d \in Calls : SessionsEnd(d)
  BY DEF SessionsEnd
<1>6. Recorded' = Recorded
  BY DEF Recorded
<1> QED BY <1>1, <1>3, <1>4, <1>5, <1>6, SessionsMoved DEF SessionsOK

\* A request that is cut short strands the agent it was busy with and owes nothing more.
LEMMA CutShortKeeps ==
  ASSUME RequestsOK, SessionsOK, disowned' = disowned, NEW c \in Calls, Breaks(c)
  PROVE  SessionsOK'
<1>0. Total /\ EnderOK(c)
  BY DEF RequestsOK, SessionsOK
<1>1. /\ job' = job /\ pc[c] # "done" /\ pc'[c] = "done" /\ UNCHANGED <<sessions, agents>>
      /\ \A d \in Calls \ {c} : pc'[d] = pc[d] /\ mem'[d] = mem[d]
  BY <1>0 DEF Breaks, Fails, Idle, Done, Keep, Total, accountRows
<1>2. /\ owed' = [d \in Calls |-> owed'[d]] /\ owed'[c] = {}
      /\ \A d \in Calls \ {c} : owed'[d] = owed[d]
  BY DEF Breaks, SessionsOK
<1>3. stranded' = stranded \cup Due(c)
  BY DEF Breaks
<1>4. EnderOK(c)'
  BY <1>1 DEF EnderOK, At
<1>5. ResetOK(c)'
  BY <1>2 DEF ResetOK
<1>6. \A s \in Calls : Ending(c, s) => s \in stranded'
  BY <1>3 DEF Ending, At, Due
<1>7. At(c, SignInOps, "session") \/ At(c, SignInOps, "disarm") => c \in stranded'
  BY <1>0, <1>3 DEF EnderOK, At, Due
<1> QED BY <1>1, <1>2, <1>3, <1>4, <1>5, <1>6, <1>7, QuietKeeps

\* The statements of an account's requests that are about neither.
LEMMA AskingKeeps ==
  ASSUME RequestsOK, SessionsOK, job' = job, cut' = cut, disowned' = disowned, NEW c \in Calls,
         \/ SignUp(c) \/ SignIn(c) \/ SignInWithOAuth(c) \/ CreateUser(c) \/ LinkOAuthIdentity(c)
         \/ MarkEmailVerified(c) \/ FillProfile(c) \/ SignOut(c) \/ UpdateName(c) \/ UpdateUserProfile(c)
         \/ RequestPasswordReset(c) \/ SendMail(c) \/ ResetPassword(c) \/ ListSessions(c)
  PROVE  SessionsOK'
<1> USE DEF accountVars, accountRows
<1>0. Total /\ EnderOK(c) /\ ResetOK(c)
  BY DEF RequestsOK, SessionsOK
<1>1. UNCHANGED <<sessions, agents, owed, stranded>>
  BY DEF SignUp, SignIn, SignInWithOAuth, CreateUser, LinkOAuthIdentity, MarkEmailVerified, FillProfile,
     SignOut, UpdateName, UpdateUserProfile, RequestPasswordReset, SendMail, ResetPassword, ListSessions
<1>2. /\ \A d \in Calls \ {c} : pc'[d] = pc[d] /\ mem'[d] = mem[d]
      /\ pc[c] \notin {"done", "session", "disarm"} /\ pc'[c] \notin {"session", "disarm"}
  BY <1>0 DEF SignUp, SignIn, SignInWithOAuth, CreateUser, LinkOAuthIdentity, MarkEmailVerified, FillProfile,
     SignOut, UpdateName, UpdateUserProfile, RequestPasswordReset, SendMail, ResetPassword, ListSessions,
     NextSession, At, Keep, Goto, Done, Total
<1>3. /\ pc'[c] \in {"create", "link", "verify", "profile"} => Op(c) = "oauth"
      /\ pc'[c] \in {"agent", "session"} => Op(c) \in SignInOps
      /\ pc'[c] \in {"rename", "mail"} => Op(c) \in {"rename", "forgot"}
      /\ pc'[c] \in {"password", "list"} => Op(c) = "reset"
      /\ pc'[c] = "revoke" => Op(c) \in EndOps
  BY <1>0 DEF SignUp, SignIn, SignInWithOAuth, CreateUser, LinkOAuthIdentity, MarkEmailVerified, FillProfile,
     SignOut, UpdateName, UpdateUserProfile, RequestPasswordReset, SendMail, ResetPassword, ListSessions,
     NextSession, At, Keep, Goto, Done, Total, EnderOK, SignInOps, EndOps
<1>4. Recorded' = Recorded /\ ListActiveSessions \subseteq Recorded
  BY <1>1, NoAccountAssumption DEF Recorded, ListActiveSessions, SessionStates
<1>5. pc'[c] = "revoke" => mem'[c] \subseteq ListActiveSessions
  BY <1>0 DEF SignUp, SignIn, SignInWithOAuth, CreateUser, LinkOAuthIdentity, MarkEmailVerified, FillProfile,
     SignOut, UpdateName, UpdateUserProfile, RequestPasswordReset, SendMail, ResetPassword, ListSessions,
     NextSession, At, Keep, Goto, Done, Total
<1>6. EnderOK(c)'
  BY <1>2, <1>3, <1>4, <1>5 DEF EnderOK, At, Op
<1>7. ResetOK(c)'
  <2>1. CASE ListSessions(c)
    <3>1. IF ListActiveSessions = {} THEN pc'[c] = "done"
                                        ELSE pc'[c] = "revoke" /\ mem'[c] = ListActiveSessions
      BY <1>0, <2>1 DEF ListSessions, NextSession, Keep, Done, Total
    <3>2. \A s \in Recorded : sessions[s] = "active" => s \in ListActiveSessions
      BY DEF Recorded, ListActiveSessions
    <3> QED BY <1>0, <1>1, <1>4, <3>1, <3>2 DEF ResetOK, Op
  <2>2. CASE ~ListSessions(c) /\ Op(c) = "reset"
    <3>1. pc'[c] = "password"
      BY <1>0, <2>2 DEF SignUp, SignIn, SignInWithOAuth, CreateUser, LinkOAuthIdentity, MarkEmailVerified,
         FillProfile, SignOut, UpdateName, UpdateUserProfile, RequestPasswordReset, SendMail, ResetPassword,
         At, Goto, Total, EnderOK
    <3> QED BY <1>0, <1>1, <1>4, <3>1 DEF ResetOK, Op
  <2> QED BY <2>1, <2>2 DEF ResetOK, Op
<1>8. \A s \in Calls : ~Ending(c, s)
  BY <1>2 DEF Ending, At
<1> QED BY <1>1, <1>2, <1>6, <1>7, <1>8, QuietKeeps DEF At, SessionsOK

\* The statements that make a session or its agent.
LEMMA SigningInKeeps ==
  ASSUME RequestsOK, SessionsOK, job' = job, cut' = cut, disowned' = disowned, NEW c \in Calls,
         CreateAgent(c) \/ CreateSession(c) \/ UndoAgent(c)
  PROVE  SessionsOK'
<1>0. /\ Total /\ EnderOK(c) /\ ResetOK(c) /\ SessionOK(c)
      /\ NONE \notin {"active", "live", "revoked"}
  BY NoAccountAssumption DEF RequestsOK, SessionsOK, SessionStates, AgentStates
<1>1. /\ \A d \in Calls \ {c} : pc'[d] = pc[d] /\ mem'[d] = mem[d]
      /\ UNCHANGED <<owed, stranded>> /\ pc[c] # "done"
  BY <1>0 DEF CreateAgent, CreateSession, UndoAgent, At, Keep, Goto, Done, Total
<1>2. Op(c) \in SignInOps /\ sessions[c] = NONE /\ Op(c)' = Op(c)
  BY <1>0 DEF CreateAgent, CreateSession, UndoAgent, EnderOK, At, SignInOps, SessionOK, Op
<1>3. /\ \A s \in Calls \ {c} : sessions'[s] = sessions[s] /\ agents'[s] = agents[s]
      /\ sessions' = [s \in Calls |-> sessions'[s]] /\ agents' = [s \in Calls |-> agents'[s]]
  BY DEF CreateAgent, CreateSession, UndoAgent, SessionsOK
<1>4. Recorded \subseteq Recorded' /\ (\A s \in Calls \ {c} : SessionsEnd(s))
  BY <1>2, <1>3 DEF Recorded, SessionsEnd
<1>5. ~\E s \in Calls : Ending(c, s)
  BY <1>2 DEF Ending, At, SignInOps, EndOps
<1>6. EnderOK(c)'
  <2>1. pc'[c] \in {"session", "disarm", "done"} /\ (pc'[c] = "disarm" => mem'[c].now = c)
    BY <1>0 DEF CreateAgent, CreateSession, UndoAgent, Keep, Goto, Done, Total
  <2> QED BY <1>2, <2>1 DEF EnderOK, At, SignInOps, EndOps
<1>7. ResetOK(c)'
  BY <1>2 DEF ResetOK, SignInOps
<1>8. SessionOK(c)'
  <2>1. CASE CreateAgent(c)
    BY <1>0, <1>2, <2>1 DEF CreateAgent, Goto, Total, SessionOK, SessionsOK
  <2>2. CASE CreateSession(c)
    BY <1>0, <1>2, <2>2 DEF CreateSession, Keep, Done, Total, SessionOK, SessionsOK
  <2>3. CASE UndoAgent(c)
    BY <1>0, <1>2, <2>3 DEF UndoAgent, Keep, Done, Total, SessionOK, SessionsOK
  <2> QED BY <2>1, <2>2, <2>3
<1> QED BY <1>1, <1>2, <1>3, <1>4, <1>5, <1>6, <1>7, <1>8, SessionsMoved DEF SessionsOK

\* A reset remembers what it found.
LEMMA SetPasswordKeeps ==
  ASSUME RequestsOK, SessionsOK, job' = job, cut' = cut, disowned' = disowned, NEW c \in Calls, SetPassword(c)
  PROVE  SessionsOK'
<1>0. Total /\ EnderOK(c) /\ SessionOK(c) /\ pc[c] = "password" /\ Op(c) = "reset"
  BY DEF RequestsOK, SessionsOK, SetPassword, EnderOK
<1>1. /\ \A d \in Calls \ {c} : pc'[d] = pc[d] /\ mem'[d] = mem[d] /\ owed'[d] = owed[d]
      /\ pc'[c] = "list" /\ owed'[c] = Recorded /\ owed' = [d \in Calls |-> owed'[d]]
      /\ UNCHANGED <<sessions, agents, stranded>>
  BY <1>0 DEF SetPassword, Goto, Total, SessionsOK, Recorded
<1>2. EnderOK(c)' /\ SessionOK(c)'
  BY <1>0, <1>1, NoAccountAssumption DEF EnderOK, SessionOK, At, Op, SignInOps, SessionStates, AgentStates
<1>3. ResetOK(c)'
  BY <1>1 DEF ResetOK, Recorded
<1>4. Recorded' = Recorded /\ \A s \in Calls : SessionsEnd(s) /\ ~Ending(c, s)
  BY <1>0, <1>1 DEF Recorded, SessionsEnd, Ending, At
<1>5. sessions[c] # "active"
  BY <1>0, NoAccountAssumption DEF SessionOK, SignInOps, SessionStates
<1> QED BY <1>1, <1>2, <1>3, <1>4, <1>5, SessionsMoved DEF SessionsOK

\* The two statements that end a session.
LEMMA RevokeSessionKeeps ==
  ASSUME RequestsOK, SessionsOK, job' = job, cut' = cut, disowned' = disowned, NEW c \in Calls,
         RevokeSession(c)
  PROVE  SessionsOK'
<1>0. /\ Total /\ EnderOK(c) /\ ResetOK(c) /\ SessionOK(c) /\ pc[c] = "revoke"
      /\ NONE \notin {"active", "live", "revoked"}
  BY NoAccountAssumption DEF RequestsOK, SessionsOK, SessionStates, AgentStates, RevokeSession
<1>1. PICK now \in mem[c] :
         /\ sessions' = [sessions EXCEPT ![now] = IF @ = "active" THEN "revoked" ELSE @]
         /\ Keep(c, [now |-> now, left |-> mem[c] \ {now}], "disarm")
  BY DEF RevokeSession
<1>2. Op(c) \in EndOps /\ mem[c] \subseteq Recorded /\ now \in Recorded /\ Op(c)' = Op(c)
  BY <1>0, <1>1 DEF EnderOK, Op
<1>3. /\ \A d \in Calls \ {c} : pc'[d] = pc[d] /\ mem'[d] = mem[d]
      /\ pc'[c] = "disarm" /\ mem'[c] = [now |-> now, left |-> mem[c] \ {now}]
      /\ UNCHANGED <<agents, owed, stranded>>
  BY <1>0, <1>1 DEF RevokeSession, Keep, Total
<1>4. /\ \A s \in Calls \ {now} : sessions'[s] = sessions[s]
      /\ sessions'[now] = IF sessions[now] = "active" THEN "revoked" ELSE sessions[now]
      /\ sessions' = [s \in Calls |-> sessions'[s]]
  BY <1>1, <1>2 DEF SessionsOK, Recorded
<1>5. Recorded' = Recorded /\ (\A s \in Calls : SessionsEnd(s))
  BY <1>0, <1>2, <1>3, <1>4 DEF Recorded, SessionsEnd
<1>6. \A s \in Calls : sessions'[s] # sessions[s] => Ending(c, s)'
  BY <1>2, <1>3, <1>4 DEF Ending, At, Recorded
<1>7. EnderOK(c)'
  BY <1>0, <1>2, <1>3, <1>4, <1>5 DEF EnderOK, At, EndOps, SignInOps
<1>8. ResetOK(c)'
  <2>1. \A s \in Recorded : sessions'[s] = "active" => sessions[s] = "active" /\ s # now
    BY <1>0, <1>4 DEF Recorded
  <2>2. mem'[c].left = mem[c] \ {now}
    BY <1>3
  <2> QED BY <1>0, <1>2, <1>3, <1>5, <2>1, <2>2 DEF ResetOK
<1>9. SessionOK(c)'
  <2>1. agents[c] = NONE /\ sessions[c] = NONE
    BY <1>0, <1>2 DEF SessionOK, EndOps, SignInOps
  <2>2. sessions'[c] = NONE
    BY <1>2, <1>4, <2>1 DEF Recorded
  <2> QED BY <1>0, <1>3, <2>1, <2>2 DEF SessionOK
<1>10. \A s \in Calls : ~Ending(c, s)
  BY <1>0 DEF Ending, At
<1>11. sessions'[c] = "active" => sessions[c] = "active"
  BY <1>0, <1>4
<1> QED BY <1>3, <1>4, <1>5, <1>6, <1>7, <1>8, <1>9, <1>10, <1>11, SessionsMoved DEF SessionsOK

LEMMA RevokeAgentKeeps ==
  ASSUME RequestsOK, SessionsOK, job' = job, cut' = cut, disowned' = disowned, NEW c \in Calls, RevokeAgent(c)
  PROVE  SessionsOK'
<1>0. /\ Total /\ EnderOK(c) /\ ResetOK(c) /\ SessionOK(c) /\ At(c, EndOps, "disarm")
      /\ NONE \notin {"active", "live", "revoked"}
  BY NoAccountAssumption DEF RequestsOK, SessionsOK, SessionStates, AgentStates, RevokeAgent, EndOps
<1> DEFINE now == mem[c].now
           left == mem[c].left
<1>1. /\ Op(c) \in EndOps /\ pc[c] = "disarm" /\ now \in Recorded /\ sessions[now] # "active"
      /\ left \subseteq Recorded
      /\ Op(c)' = Op(c)
  BY <1>0 DEF EnderOK, At, Op
<1>2. /\ \A d \in Calls \ {c} : pc'[d] = pc[d] /\ mem'[d] = mem[d]
      /\ IF left = {} THEN pc'[c] = "done" ELSE pc'[c] = "revoke" /\ mem'[c] = left
      /\ UNCHANGED <<sessions, owed, stranded>>
  BY <1>0 DEF RevokeAgent, NextSession, Keep, Done, Total
<1>3. agents' = [agents EXCEPT ![now] = "revoked"]
  BY DEF RevokeAgent
<1>4. now \in Calls /\ pc[now] = "done"
  BY <1>1 DEF Recorded, SessionsOK, SessionOK
<1> HIDE DEF now, left
<1>5. /\ agents' = [s \in Calls |-> agents'[s]] /\ agents'[now] = "revoked"
      /\ \A s \in Calls \ {now} : agents'[s] = agents[s]
  BY <1>3, <1>4 DEF SessionsOK
<1>6. now # c
  BY <1>1, <1>4
<1>7. Recorded' = Recorded
  BY <1>2 DEF Recorded
<1>8. \A s \in Calls : SessionsEnd(s)
  <2>1. agents[now] # NONE /\ pc[now] # "session"
    BY <1>1, <1>4 DEF Recorded, SessionsOK, SessionOK
  <2> QED BY <1>1, <1>2, <1>5, <2>1 DEF SessionsEnd
<1>9. EnderOK(c)'
  BY <1>1, <1>2, <1>7 DEF EnderOK, At, EndOps
<1>10. ResetOK(c)'
  BY <1>0, <1>1, <1>2, <1>7 DEF ResetOK, left
<1>11. SessionOK(c)'
  BY <1>0, <1>1, <1>2, <1>5, <1>6 DEF SessionOK, EndOps, SignInOps
<1>12. \A s \in Calls : Ending(c, s) => agents'[s] # "live"
  BY <1>5 DEF Ending, now
<1>13. \A s \in Calls : sessions'[s] = sessions[s]
  BY <1>2
<1>14. sessions[c] # "active"
  BY <1>0, <1>1 DEF SessionOK
<1> QED BY <1>2, <1>5, <1>7, <1>8, <1>9, <1>10, <1>11, <1>12, <1>13, <1>14, SessionsMoved DEF SessionsOK

\* The hourly purge and the clock end what nobody asked to end.
LEMMA PurgeKeeps ==
  ASSUME RequestsOK, SessionsOK, job' = job, cut' = cut, disowned' = disowned, NEW c \in Calls,
         PurgeExpired(c)
  PROVE  SessionsOK'
<1>0. /\ Total /\ EnderOK(c) /\ SessionOK(c) /\ At(c, {"purge"}, "idle")
      /\ NONE \notin {"active", "live", "revoked", "expired"}
  BY NoAccountAssumption DEF RequestsOK, SessionsOK, SessionStates, AgentStates, PurgeExpired
<1>1. PICK gone \in SUBSET {s \in Calls : sessions[s] \in {"revoked", "expired"}} :
         sessions' = [s \in Calls |-> IF s \in gone THEN "purged" ELSE sessions[s]]
  BY DEF PurgeExpired
<1>2. /\ \A d \in Calls \ {c} : pc'[d] = pc[d] /\ mem'[d] = mem[d]
      /\ pc'[c] = "done" /\ Op(c)' = "purge" /\ pc[c] = "idle"
      /\ UNCHANGED <<agents, owed, stranded>>
  BY <1>0 DEF PurgeExpired, Done, Keep, Total, At, Op
<1>3. "purged" # NONE
  BY NoAccountAssumption DEF SessionStates
<1>4. \A s \in Calls : SessionsEnd(s)
  BY <1>0, <1>1, <1>2, <1>3 DEF SessionsEnd, Recorded
<1>5. Recorded' = Recorded
  BY <1>0, <1>1, <1>3 DEF Recorded
<1>6. EnderOK(c)' /\ ResetOK(c)'
  BY <1>2 DEF EnderOK, ResetOK, At
<1>7. sessions[c] = NONE /\ agents[c] = NONE
  BY <1>0 DEF SessionOK, At
<1>8. sessions'[c] = NONE /\ agents'[c] = NONE
  BY <1>2, <1>5, <1>7 DEF Recorded
<1>9. SessionOK(c)'
  BY <1>0, <1>2, <1>8 DEF SessionOK
<1>10. \A s \in Calls : sessions[s] = "active" => sessions'[s] = "active"
  BY <1>1
<1>11. \A s \in Calls : ~Ending(c, s)
  BY <1>2 DEF Ending, At
<1>12. sessions' = [s \in Calls |-> sessions'[s]]
  BY <1>1
<1> QED BY <1>0, <1>2, <1>4, <1>5, <1>6, <1>8, <1>9, <1>10, <1>11, <1>12, SessionsMoved DEF SessionsOK

LEMMA ClockKeeps ==
  ASSUME SessionsOK, disowned' = disowned, NEW c \in Calls, TimePasses(c) PROVE SessionsOK'
<1>0. NONE \notin {"active", "live", "revoked", "expired"}
  BY NoAccountAssumption DEF SessionStates, AgentStates
<1>1. UNCHANGED <<job, cut, pc, mem, agents, owed>> /\ stranded \subseteq stranded'
  BY DEF TimePasses, requests
<1>2. /\ sessions' = [s \in Calls |-> sessions'[s]]
      /\ \A s \in Calls :
           \/ sessions'[s] = sessions[s]
           \/ sessions[s] = "active" /\ sessions'[s] = "expired" /\ s \in stranded'
  BY DEF TimePasses, SessionsOK
<1>3. Recorded' = Recorded
  BY <1>0, <1>2 DEF Recorded
<1>4. ASSUME NEW d \in Calls PROVE SessionOK(d)'
  <2>1. SessionOK(d)
    BY DEF SessionsOK
  <2>2. \A e \in Calls : Ending(e, d) <=> Ending(e, d)'
    BY <1>1 DEF Ending, At, Op
  <2> QED BY <1>0, <1>1, <1>2, <2>1, <2>2 DEF SessionOK, Op
<1>5. ASSUME NEW d \in Calls PROVE EnderOK(d)'
  BY <1>1, <1>2, <1>3 DEF SessionsOK, EnderOK, At, Op, Recorded
<1>6. ASSUME NEW d \in Calls PROVE ResetOK(d)'
  BY <1>1, <1>2, <1>3 DEF SessionsOK, ResetOK, Op, Recorded
<1> QED BY <1>1, <1>2, <1>4, <1>5, <1>6 DEF SessionsOK

\* An error is dropped where a session is ending: its agent is stranded, or it stays active
\* and is owed no longer.
LEMMA DroppedErrorKeeps ==
  ASSUME RequestsOK, SessionsOK, disowned' = disowned, NEW c \in Calls, ErrorDropped(c) PROVE SessionsOK'
<1>0. Total /\ EnderOK(c) /\ ResetOK(c)
  BY DEF RequestsOK, SessionsOK
<1>1. /\ UNCHANGED <<job, sessions, agents>> /\ Op(c)' = Op(c)
      /\ \A d \in Calls \ {c} : pc'[d] = pc[d] /\ mem'[d] = mem[d]
  BY <1>0 DEF ErrorDropped, Drops, Keep, Total, accountRows, Op
<1>2. \/ pc[c] = "verify" /\ pc'[c] = "profile" /\ UNCHANGED <<owed, stranded>>
      \/ pc[c] = "profile" /\ pc'[c] = "agent" /\ UNCHANGED <<owed, stranded>>
      \/ /\ At(c, EndOps, "disarm") /\ stranded' = stranded \cup Due(c) /\ owed' = owed
         /\ pc'[c] = IF mem[c].left = {} THEN "done" ELSE "revoke"
         /\ mem'[c] = mem[c].left
      \/ \E s \in mem[c] :
           /\ At(c, {"reset"}, "revoke") /\ stranded' = stranded
           /\ pc'[c] = IF mem[c] = {s} THEN "done" ELSE "revoke"
           /\ mem'[c] = mem[c] \ {s}
           /\ owed' = [owed EXCEPT ![c] = @ \ {s}]
  BY <1>0 DEF ErrorDropped, Drops, Keep, Total, At, EndOps
<1>3. Recorded' = Recorded /\ owed = [d \in Calls |-> owed[d]]
  BY <1>1 DEF Recorded, SessionsOK
<1>4. /\ owed' = [d \in Calls |-> owed'[d]] /\ stranded \subseteq stranded'
      /\ \A d \in Calls \ {c} : owed'[d] = owed[d]
  BY <1>2, <1>3
<1>5. EnderOK(c)'
  BY <1>0, <1>1, <1>2, <1>3 DEF EnderOK, At, EndOps, SignInOps
<1>6. ResetOK(c)'
  <2>1. CASE owed' = owed
    BY <1>0, <1>1, <1>2, <1>3, <2>1 DEF ResetOK, At, EnderOK
  <2>2. ASSUME NEW s \in mem[c], owed' = [owed EXCEPT ![c] = @ \ {s}],
               pc[c] = "revoke", mem'[c] = mem[c] \ {s},
               pc'[c] = IF mem[c] = {s} THEN "done" ELSE "revoke"
        PROVE  ResetOK(c)'
    <3>1. owed'[c] = owed[c] \ {s}
      BY <1>3, <2>2
    <3> QED BY <1>0, <1>1, <1>3, <2>2, <3>1 DEF ResetOK
  <2> QED BY <1>2, <2>1, <2>2 DEF At
<1>7. pc[c] # "done" /\ pc'[c] # "session" /\ ~At(c, SignInOps, "session") /\ ~At(c, SignInOps, "disarm")
  BY <1>2 DEF At, EndOps, SignInOps
<1>8. \A s \in Calls : Ending(c, s) => s \in stranded'
  BY <1>2 DEF Ending, At, Due
<1> QED BY <1>1, <1>4, <1>5, <1>6, <1>7, <1>8, QuietKeeps

LEMMA AccountsKeepSessions ==
  ASSUME RequestsOK, SessionsOK, AccountsNext, disowned' = disowned PROVE SessionsOK'
<1> QED BY CutShortKeeps, AskingKeeps, SigningInKeeps, SetPasswordKeeps, RevokeSessionKeeps, RevokeAgentKeeps,
    PurgeKeeps,
     ClockKeeps, DroppedErrorKeeps DEF AccountsNext, AccountsStep

\* A step of the account's own requests.
PersonNext == AccountsNext /\ disowned' = disowned

\* Once it has left the provider, a provider's sign-in is the account's to move.
LEMMA OauthStays ==
  ASSUME RequestsOK, [Next]_vars, NEW c \in Calls, Op(c) = "oauth", pc[c] \in AccountLabels \cup {"done"}
  PROVE  PersonNext \/ (pc'[c] = pc[c] /\ mem'[c] = mem[c])
<1> Total
  BY DEF RequestsOK
<1> /\ Op(c) \notin BillingOps /\ Op(c) \notin ProfileOps /\ Op(c) \notin TenantOps /\ Op(c) \notin Scopes
    /\ Op(c) \notin InstamartOps /\ Op(c) \notin LimiterOps /\ Op(c) \notin SearchOps /\ Op(c) \notin HookOps
  BY SearchOpsAssumption DEF BillingOps, ProfileOps, TenantOps, Scopes, InstamartOps, LimiterOps,
       SearchOps, HookOps, AccountOps
<1>1. CASE CodeGrantsNext
  <2>0. pc[c] \notin {"idle", "away", "exchange", "register", "listen", "wait", "trade", "granted"}
    BY DEF AccountLabels
  <2>1. ASSUME NEW d \in Calls, Redirected(d) PROVE pc'[c] = pc[c] /\ mem'[c] = mem[c]
    <3>1. PICK e \in Listeners : pc[e] = "wait" /\ Keep(e, [mem[e] EXCEPT !.redirect = d], "wait")
      BY <2>1 DEF Redirected
    <3> QED BY <2>0, <3>1 DEF Keep, Total
  <2>2. ASSUME NEW d \in Calls,
               \/ UserAnswers(d) \/ OauthStart(d) \/ OauthCallback(d) \/ ExchangeProfile(d)
               \/ DiscoverServer(d) \/ RegisterClient(d) \/ ShowURL(d)
               \/ TakeRedirect(d) \/ TimesOut(d) \/ ExchangeCode(d)
        PROVE  pc'[c] = pc[c] /\ mem'[c] = mem[c]
    BY <2>0, <2>2 DEF UserAnswers, OauthStart, OauthCallback, ExchangeProfile, DiscoverServer,
         RegisterClient, ShowURL,
       TakeRedirect, TimesOut, ExchangeCode, At, Keep, Goto, Done, Total, requests
  <2> QED BY <1>1, <2>1, <2>2 DEF CodeGrantsNext
<1>2. CASE BillingNext
  BY <1>2, BillingMoves DEF Moves
<1>3. CASE ProfilesOwn
  BY <1>3, ProfilesMove DEF Moves
<1>4. CASE TenantsNext \/ PolicySetsNext
  BY <1>4, TenantsMove, PoliciesMove DEF Moves
<1>5. CASE InstamartNext \/ RateLimitNext
  BY <1>5, InstamartMoves, LimiterMoves DEF Moves
<1>6. CASE SearchNext \/ WebhooksNext
  BY <1>6, SearchMoves, HooksMove DEF Moves
<1>7. CASE UNCHANGED vars
  BY <1>7 DEF vars, requests
<1> QED BY <1>1, <1>2, <1>3, <1>4, <1>5, <1>6, <1>7
      DEF Next, ProfilesNext, ProfilesOwn, PersonNext, tenantVars

\* A step of another service leaves the person's requests where they are; Disown ends an
\* agent that is on record.
LEMMA OthersKeepSessions ==
  ASSUME RequestsOK, SessionsOK, [Next]_vars, ~PersonNext, job' = job,
         UNCHANGED <<sessions, owed, stranded>>, disowned \subseteq disowned', agents' = [s \in Calls |-> agents'[s]],
         \A s \in Calls : agents'[s] = agents[s]
         \/ (agents[s] # NONE /\ agents'[s] = "revoked" /\ s \in disowned'),
         Stays(AccountOps \ GrantOps, AccountLabels)
  PROVE  SessionsOK'
<1>0. Total /\ NONE \notin {"active", "live", "revoked"}
  BY NoAccountAssumption DEF RequestsOK, SessionStates, AgentStates
<1>1. ASSUME NEW d \in Calls, pc[d] \in AccountLabels
      PROVE  pc'[d] = pc[d] /\ mem'[d] = mem[d]
  <2>1. Op(d) \in AccountOps
    BY <1>1 DEF RequestsOK, Placed, PlacedAt
  <2>2. CASE Op(d) \in GrantOps
    <3>1. Op(d) = "oauth"
      BY <2>1, <2>2 DEF GrantOps, AccountOps
    <3> QED BY <1>1, <3>1, OauthStays
  <2> QED BY <2>1, <2>2 DEF Stays
<1>2. ASSUME NEW d \in Calls, pc'[d] \in AccountLabels PROVE pc'[d] = pc[d] /\ mem'[d] = mem[d]
  BY <1>2 DEF Stays
<1>3. ASSUME NEW d \in Calls, Op(d) \in SignInOps \cup EndOps, pc[d] = "done"
      PROVE  pc'[d] = pc[d] /\ mem'[d] = mem[d]
  <2>1. CASE Op(d) = "oauth"
    BY <1>3, <2>1, OauthStays
  <2>2. CASE Op(d) # "oauth"
    BY <1>3, <2>2 DEF Stays, SignInOps, EndOps, AccountOps, GrantOps
  <2> QED BY <2>1, <2>2
<1>4. ASSUME NEW d \in Calls PROVE EnderOK(d)'
  <2>1. EnderOK(d)
    BY DEF SessionsOK
  <2>2. CASE pc'[d] \in AccountLabels
    <3>1. pc'[d] = pc[d] /\ mem'[d] = mem[d] /\ Op(d)' = Op(d) /\ Recorded' = Recorded
      BY <1>2, <2>2 DEF Op, Recorded
    <3> QED BY <2>1, <3>1 DEF EnderOK, At, Recorded
  <2>3. CASE pc'[d] \notin AccountLabels
    BY <2>3 DEF EnderOK, At, AccountLabels
  <2> QED BY <2>2, <2>3
<1>5. ASSUME NEW d \in Calls PROVE ResetOK(d)'
  <2>1. SUFFICES ASSUME Op(d) = "reset" PROVE ResetOK(d)'
    BY DEF ResetOK, Op
  <2>2. pc'[d] = pc[d] /\ mem'[d] = mem[d]
    BY <2>1 DEF Stays, AccountOps, GrantOps
  <2>3. ResetOK(d)
    BY DEF SessionsOK
  <2> QED BY <2>1, <2>2, <2>3 DEF ResetOK, Op, Recorded
<1>6. ASSUME NEW e \in Calls, NEW d \in Calls, Ending(e, d) PROVE Ending(e, d)'
  <2>1. Op(e) \in EndOps /\ pc'[e] = pc[e] /\ mem'[e] = mem[e]
    BY <1>6 DEF Ending, At, Stays, EndOps, AccountOps, GrantOps
  <2> QED BY <1>6, <2>1 DEF Ending, At, Op
<1>7. ASSUME NEW s \in Calls PROVE SessionOK(s)'
  <2>1. SessionOK(s)
    BY DEF SessionsOK
  <2>2. ASSUME sessions'[s] # NONE PROVE agents'[s] # NONE /\ pc'[s] = "done"
    <3>1. agents[s] # NONE /\ pc[s] = "done" /\ Op(s) \in SignInOps
      BY <2>1, <2>2 DEF SessionOK
    <3> QED BY <1>0, <1>3, <3>1
  <2>3. ASSUME agents'[s] # NONE PROVE Op(s)' \in SignInOps /\ pc'[s] \in {"session", "disarm", "done"}
               /\ pc'[s] = pc[s]
    <3>1. agents[s] # NONE /\ Op(s) \in SignInOps /\ pc[s] \in {"session", "disarm", "done"}
      BY <2>1, <2>3 DEF SessionOK
    <3>2. pc'[s] = pc[s]
      BY <1>1, <1>3, <3>1 DEF AccountLabels
    <3> QED BY <3>1, <3>2 DEF Op
  <2>4. ASSUME pc'[s] = "session" PROVE agents'[s] # NONE /\ pc[s] = "session"
    <3>1. pc[s] = "session"
      BY <1>2, <2>4 DEF AccountLabels
    <3> QED BY <1>0, <2>1, <3>1 DEF SessionOK
  <2>5. ASSUME pc'[s] = "session" \/ sessions'[s] = "active" PROVE agents'[s] = "live" \/ s \in disowned'
    BY <2>1, <2>4, <2>5 DEF SessionOK
  <2>6. ASSUME agents'[s] = "live", sessions'[s] # "active",
               pc'[s] \notin {"session", "disarm"}, s \notin stranded'
        PROVE  \E d \in Calls : Ending(d, s)'
    <3>1. agents[s] = "live" /\ pc'[s] = pc[s]
      BY <1>0, <2>3, <2>6
    <3>2. PICK d \in Calls : Ending(d, s)
      BY <2>1, <2>6, <3>1 DEF SessionOK
    <3> QED BY <1>6, <3>2
  <2> QED BY <2>2, <2>3, <2>4, <2>5, <2>6 DEF SessionOK
<1> QED BY <1>4, <1>5, <1>7 DEF SessionsOK

-------------------------------------------------------------------------------
(* Tokens.  Keys and users stay on record with their owners, and what a request has read  *)
(* as good was not revoked when it came in, whatever is revoked while it goes on.         *)

OnRecord(a) == a \in Calls /\ (keys[a] # NONE \/ agents[a] # NONE)

TokenOK(k) ==
  /\ keys[k] # NONE => keys[k] \in Key /\ Op(k) \in {"tenant", "integrator", "mint"} /\ pc[k] = "done"
  /\ people[k] # NONE => people[k] \in Calls /\ Op(k) = "enrol" /\ pc[k] = "done"

BearerOK(c) ==
  /\ barred[c] \subseteq Calls
  /\ pc[c] \in {"enrol", "whose"} => mem[c] = [by |-> mem[c].by, for |-> NONE]
        /\ mem[c].by \in Calls \ barred[c]
  /\ pc[c] = "mint" =>
       /\ mem[c].by \notin barred[c]
       /\ mem[c].for = Self \/ (mem[c].for \in Calls /\ mem[c].by \in Calls /\ people[mem[c].for] = mem[c].by)
  /\ pc[c] \in {"permit", "judge"} => mem[c] \in Calls \ barred[c] /\ OnRecord(mem[c])
  /\ pc[c] = "disown" => OnRecord(mem[c])

ActOK(c) ==
  acts[c] # NONE =>
    /\ Op(c) \in TenantOps /\ pc[c] = "done"
    /\ acts[c].key \notin barred[c]
    /\ Op(c) \in {"enrol", "mint"} /\ acts[c].for # Self =>
         acts[c].for \in Calls /\ acts[c].key \in Calls /\ people[acts[c].for] = acts[c].key
    /\ Op(c) = "act" => OnRecord(acts[c].key) /\ OwnerOf(acts[c].key) = acts[c].for

TokensOK ==
  /\ keys = [k \in Calls |-> keys[k]] /\ people = [c \in Calls |-> people[c]]
  /\ acts = [c \in Calls |-> acts[c]] /\ barred = [c \in Calls |-> barred[c]]
  /\ \A c \in Calls : TokenOK(c) /\ BearerOK(c) /\ ActOK(c)

\* Rows stay, and owners with them.
RowsStay ==
  \A a \in Calls :
    /\ keys[a] # NONE => keys'[a] \in Key /\ keys'[a].of = keys[a].of
    /\ agents[a] # NONE => agents'[a] # NONE /\ keys'[a] = keys[a]
    /\ people[a] # NONE => people'[a] = people[a]

LEMMA OwnersStay ==
  ASSUME SessionsOK, TokensOK, RowsStay
  PROVE  \A a \in Calls : keys[a] # NONE \/ agents[a] # NONE =>
           /\ keys'[a] # NONE \/ agents'[a] # NONE
           /\ (IF keys'[a] # NONE THEN keys'[a].of ELSE Self) = (IF keys[a] # NONE THEN keys[a].of ELSE Self)
<1> TAKE a \in Calls
<1>1. CASE keys[a] # NONE
  <2>1. keys'[a] \in Key /\ keys'[a].of = keys[a].of
    BY <1>1 DEF RowsStay
  <2>2. keys'[a] # NONE
    BY <2>1, NoKeyAssumption
  <2> QED BY <1>1, <2>1, <2>2
<1>2. CASE keys[a] = NONE
  BY <1>2 DEF RowsStay
<1> QED BY <1>1, <1>2

LEMMA TokensMoved ==
  ASSUME SessionsOK, TokensOK, RowsStay, job' = job, NEW c \in Calls,
         \A d \in Calls \ {c} : /\ pc'[d] = pc[d] /\ mem'[d] = mem[d]
                                /\ acts'[d] = acts[d] /\ barred'[d] = barred[d]
                                /\ keys[d] = NONE => keys'[d] = NONE
                                /\ people[d] = NONE => people'[d] = NONE,
         keys' = [k \in Calls |-> keys'[k]], people' = [d \in Calls |-> people'[d]],
         acts' = [d \in Calls |-> acts'[d]], barred' = [d \in Calls |-> barred'[d]],
         TokenOK(c)', BearerOK(c)', ActOK(c)'
  PROVE  TokensOK'
<1>1. ASSUME NEW d \in Calls, d # c PROVE TokenOK(d)'
  BY <1>1 DEF TokensOK, TokenOK, RowsStay, Op
<1>0. \A u \in Calls : people[u] \in Calls => people'[u] = people[u]
  BY NobodyAssumption DEF RowsStay
<1>2. ASSUME NEW d \in Calls, d # c PROVE BearerOK(d)'
  <2>1. BearerOK(d) /\ pc'[d] = pc[d] /\ mem'[d] = mem[d] /\ barred'[d] = barred[d]
    BY <1>2 DEF TokensOK
  <2> QED BY <1>0, <2>1, OwnersStay DEF BearerOK, OnRecord
<1>3. ASSUME NEW d \in Calls, d # c PROVE ActOK(d)'
  <2>1. ActOK(d) /\ pc'[d] = pc[d] /\ acts'[d] = acts[d] /\ barred'[d] = barred[d]
    BY <1>3 DEF TokensOK
  <2> QED BY <1>0, <2>1, OwnersStay DEF ActOK, OnRecord, OwnerOf, Op
<1> QED BY <1>1, <1>2, <1>3 DEF TokensOK

\* What a request may read as good.
LEMMA GoodIsNotRevoked ==
  ASSUME SessionsOK, TokensOK
  PROVE  /\ \A kind : \A k \in Good(kind) : k \in Calls /\ OnRecord(k) /\ k \notin Revoked
         /\ \A s \in Calls : agents[s] = "live" => OnRecord(s) /\ s \notin Revoked
<1>0. "live" # NONE /\ "revoked" # NONE
  BY NoAccountAssumption DEF AgentStates
<1>1. \A k \in Calls : keys[k] # NONE => agents[k] = NONE
  BY DEF SessionsOK, TokensOK, SessionOK, TokenOK, SignInOps
<1>2. ASSUME NEW kind, NEW k \in Good(kind) PROVE k \in Calls /\ OnRecord(k) /\ k \notin Revoked
  BY <1>0, <1>1 DEF Good, Issued, IsRevoked, OnRecord, Revoked
<1>3. ASSUME NEW s \in Calls, agents[s] = "live" PROVE OnRecord(s) /\ s \notin Revoked
  BY <1>0, <1>1, <1>3 DEF OnRecord, Revoked
<1> QED BY <1>2, <1>3

\* A request comes in with a token.
LEMMA ComingKeeps ==
  ASSUME RequestsOK, SessionsOK, TokensOK, job' = job, agents' = agents, NEW c \in Calls,
         ResolveTenant(c) \/ MintOwn(c) \/ LoadAgent(c) \/ ResolveAgent(c) \/ ResolveIntegrator(c)
  PROVE  TokensOK'
<1>0. Total /\ TokenOK(c) /\ ActOK(c) /\ pc[c] = "idle" /\ Comes(c) /\ UNCHANGED <<keys, people, acts>>
  BY DEF RequestsOK, TokensOK, ResolveTenant, MintOwn, LoadAgent, ResolveAgent, ResolveIntegrator, At,
       OnlyKeys
<1>1. /\ \A d \in Calls \ {c} : pc'[d] = pc[d] /\ mem'[d] = mem[d] /\ barred'[d] = barred[d]
      /\ barred'[c] = Revoked /\ barred' = [d \in Calls |-> barred'[d]]
  BY <1>0 DEF ResolveTenant, MintOwn, LoadAgent, ResolveAgent, ResolveIntegrator, Keep, Done, Total,
       Comes, TokensOK
<1>2. RowsStay
  BY <1>0 DEF RowsStay, TokensOK, TokenOK
<1>3. keys[c] = NONE /\ people[c] = NONE /\ acts[c] = NONE
  BY <1>0 DEF TokenOK, ActOK
<1>4. TokenOK(c)' /\ ActOK(c)'
  BY <1>0, <1>3 DEF TokenOK, ActOK
<1>5. Revoked \subseteq Calls /\ Self \notin Calls
  BY NoKeyAssumption DEF Revoked
<1>6. BearerOK(c)'
  <2>1. CASE ResolveTenant(c)
    <3>1. PICK t \in Good("tenant") : Keep(c, [by |-> t, for |-> NONE], IF Op(c) = "enrol" THEN "enrol" ELSE "whose")
      BY <2>1 DEF ResolveTenant
    <3>2. mem'[c] = [by |-> t, for |-> NONE] /\ pc'[c] \in {"enrol", "whose"}
      BY <1>0, <3>1 DEF Keep, Total
    <3>3. t \in Calls \ Revoked
      BY GoodIsNotRevoked
    <3> QED BY <1>1, <1>5, <3>2, <3>3 DEF BearerOK
  <2>2. CASE MintOwn(c)
    <3>1. mem'[c] = [by |-> Self, for |-> Self] /\ pc'[c] = "mint"
      BY <1>0, <2>2 DEF MintOwn, Keep, Total
    <3> QED BY <1>1, <1>5, <3>1 DEF BearerOK
  <2>3. CASE LoadAgent(c)
    <3>1. PICK a \in Issued("agent") \cup {s \in Calls : agents[s] # NONE} :
             IF OwnerOf(a) = Self THEN Keep(c, a, "disown") ELSE Done(c)
      BY <2>3 DEF LoadAgent
    <3>2. a \in Calls /\ (keys[a] # NONE \/ agents[a] # NONE)
      BY DEF Issued
    <3>3. pc'[c] = "done" \/ (pc'[c] = "disown" /\ mem'[c] = a)
      BY <1>0, <3>1 DEF Keep, Done, Total
    <3> QED BY <1>0, <1>1, <1>5, <3>2, <3>3 DEF BearerOK, OnRecord
  <2>4. CASE ResolveAgent(c)
    <3>1. PICK a \in Good("agent") \cup {s \in ListActiveSessions : agents[s] = "live"} : Keep(c, a, "permit")
      BY <2>4 DEF ResolveAgent
    <3>2. a \in Calls \ Revoked /\ (keys[a] # NONE \/ agents[a] # NONE)
      BY GoodIsNotRevoked DEF ListActiveSessions, OnRecord
    <3>3. pc'[c] = "permit" /\ mem'[c] = a
      BY <1>0, <3>1 DEF Keep, Total
    <3> QED BY <1>0, <1>1, <1>5, <3>2, <3>3 DEF BearerOK, OnRecord
  <2>5. CASE ResolveIntegrator(c)
    <3>1. PICK k \in Good("integrator") : Keep(c, k, "judge")
      BY <2>5 DEF ResolveIntegrator
    <3>2. k \in Calls \ Revoked /\ (keys[k] # NONE \/ agents[k] # NONE)
      BY GoodIsNotRevoked DEF OnRecord
    <3>3. pc'[c] = "judge" /\ mem'[c] = k
      BY <1>0, <3>1 DEF Keep, Total
    <3> QED BY <1>0, <1>1, <1>5, <3>2, <3>3 DEF BearerOK, OnRecord
  <2> QED BY <2>1, <2>2, <2>3, <2>4, <2>5
<1> QED BY <1>0, <1>1, <1>2, <1>4, <1>6, TokensMoved DEF TokensOK

\* Keys are issued and closed.
LEMMA KeysKeep ==
  ASSUME RequestsOK, SessionsOK, TokensOK, job' = job, agents' = agents, NEW c \in Calls, Register(c)
         \/ Close(c)
  PROVE  TokensOK'
<1>0. Total /\ TokenOK(c) /\ ActOK(c) /\ pc[c] = "idle" /\ Comes(c) /\ UNCHANGED <<people, acts>>
  BY DEF RequestsOK, TokensOK, Register, Close, At, OnlyKeys
<1>1. /\ \A d \in Calls \ {c} : pc'[d] = pc[d] /\ mem'[d] = mem[d] /\ barred'[d] = barred[d]
      /\ barred'[c] = Revoked /\ barred' = [d \in Calls |-> barred'[d]] /\ pc'[c] = "done"
  BY <1>0 DEF Register, Close, Done, Keep, Total, Comes, TokensOK
<1>2. keys[c] = NONE /\ people[c] = NONE /\ acts[c] = NONE
  BY <1>0 DEF TokenOK, ActOK
<1>3. BearerOK(c)' /\ ActOK(c)'
  BY <1>0, <1>1, <1>2 DEF BearerOK, ActOK, Revoked
<1>4. ASSUME Register(c)
      PROVE  /\ keys'[c] \in Key /\ Op(c) \in {"tenant", "integrator"}
             /\ \A k \in Calls \ {c} : keys'[k] = keys[k]
             /\ keys' = [k \in Calls |-> keys'[k]]
  <2>1. /\ keys' = [keys EXCEPT ![c] = [kind |-> Op(c), of |-> NONE, may |-> TRUE, live |-> TRUE]]
        /\ Op(c) \in {"tenant", "integrator"}
    BY <1>4 DEF Register, At
  <2>2. [kind |-> Op(c), of |-> NONE, may |-> TRUE, live |-> TRUE] \in Key
    BY <2>1 DEF Key, Kinds
  <2> QED BY <2>1, <2>2 DEF TokensOK
<1>5. ASSUME Close(c)
      PROVE  /\ \A k \in Calls : keys[k] = NONE => keys'[k] = NONE
             /\ \A k \in Calls : keys[k] # NONE => keys'[k] \in Key /\ keys'[k].of = keys[k].of
             /\ keys' = [k \in Calls |-> keys'[k]]
  <2>1. PICK k \in Issued("tenant") \cup Issued("integrator") : keys' = [keys EXCEPT ![k].live = FALSE]
    BY <1>5 DEF Close
  <2>2. k \in Calls /\ keys[k] # NONE /\ keys[k] \in Key
    BY DEF Issued, TokensOK, TokenOK
  <2>3. /\ keys'[k] = [keys[k] EXCEPT !.live = FALSE] /\ \A d \in Calls \ {k} : keys'[d] = keys[d]
        /\ keys' = [d \in Calls |-> keys'[d]]
    BY <2>1, <2>2 DEF TokensOK
  <2>4. keys'[k] \in Key /\ keys'[k].of = keys[k].of
    BY <2>2, <2>3 DEF Key
  <2> QED BY <2>2, <2>3, <2>4 DEF TokensOK, TokenOK
<1>6. \A a \in Calls : agents[a] # NONE => keys[a] = NONE /\ Op(a) \in SignInOps
  BY DEF SessionsOK, TokensOK, SessionOK, TokenOK, SignInOps
<1>7. TokenOK(c)'
  BY <1>0, <1>1, <1>2, <1>4, <1>5 DEF TokenOK, Op
<1>8. RowsStay
  <2>1. CASE Register(c)
    BY <1>0, <1>2, <1>4, <1>6, <2>1 DEF RowsStay, TokensOK, TokenOK, SignInOps
  <2>2. CASE Close(c)
    BY <1>0, <1>5, <1>6, <2>2 DEF RowsStay
  <2> QED BY <2>1, <2>2
<1> QED BY <1>0, <1>1, <1>3, <1>4, <1>5, <1>7, <1>8, TokensMoved DEF TokensOK

\* The acts themselves.
LEMMA ActingKeeps ==
  ASSUME RequestsOK, SessionsOK, TokensOK, job' = job, agents' = agents, NEW c \in Calls,
         Enrol(c) \/ CheckOwnUser(c) \/ Mint(c) \/ RequireOwnedIntent(c) \/ EvaluateTransaction(c)
  PROVE  TokensOK'
<1>0. /\ Total /\ TokenOK(c) /\ BearerOK(c) /\ ActOK(c) /\ Op(c)' = Op(c) /\ Op(c) \in TenantOps
      /\ pc[c] \in {"enrol", "whose", "mint", "permit", "judge"} /\ barred' = barred
  BY DEF RequestsOK, TokensOK, Enrol, CheckOwnUser, Mint, RequireOwnedIntent, EvaluateTransaction, At, Op,
     TenantOps, tenantVars
<1>1. \A d \in Calls \ {c} : pc'[d] = pc[d] /\ mem'[d] = mem[d]
  BY <1>0 DEF Enrol, CheckOwnUser, Mint, RequireOwnedIntent, EvaluateTransaction, Keep, Done, Total
<1>2. keys[c] = NONE /\ people[c] = NONE /\ acts[c] = NONE
  BY <1>0 DEF TokenOK, ActOK
<1>3. \A a \in Calls : agents[a] # NONE => keys[a] = NONE /\ Op(a) \in SignInOps
  BY DEF SessionsOK, TokensOK, SessionOK, TokenOK, SignInOps
<1>4. Self \notin Calls /\ NONE \notin Calls /\ NONE \notin Key
  BY NoKeyAssumption, NobodyAssumption
<1>5. CASE CheckOwnUser(c)
  <2>1. PICK u \in {u \in Calls : people[u] # NONE} :
          IF people[u] = mem[c].by THEN Keep(c, [mem[c] EXCEPT !.for = u], "mint") ELSE Done(c)
    BY <1>5 DEF CheckOwnUser
  <2>2. /\ UNCHANGED <<keys, people, acts>> /\ pc[c] = "whose"
        /\ pc'[c] = "done"
              \/ (pc'[c] = "mint" /\ people[u] = mem[c].by /\ mem'[c] = [mem[c] EXCEPT !.for = u])
    BY <1>0, <1>5, <2>1 DEF CheckOwnUser, tenantVars, tenantRows, Keep, Done, Total, At
  <2>3. mem[c] = [by |-> mem[c].by, for |-> NONE] /\ mem[c].by \in Calls \ barred[c]
    BY <1>0, <2>2 DEF BearerOK
  <2>4. mem'[c] = [mem[c] EXCEPT !.for = u] => mem'[c].by = mem[c].by /\ mem'[c].for = u
    BY <2>3
  <2>5. BearerOK(c)'
    BY <1>0, <2>2, <2>3, <2>4 DEF BearerOK
  <2>6. TokenOK(c)' /\ ActOK(c)'
    BY <1>2, <2>2 DEF TokenOK, ActOK
  <2>7. RowsStay
    BY <2>2 DEF RowsStay, TokensOK, TokenOK
  <2> QED BY <1>0, <1>1, <2>2, <2>5, <2>6, <2>7, TokensMoved DEF TokensOK
<1>6. CASE Enrol(c)
  <2>1. /\ people' = [people EXCEPT ![c] = mem[c].by]
        /\ acts' = [acts EXCEPT ![c] = [key |-> mem[c].by, for |-> c]]
        /\ keys' = keys /\ pc'[c] = "done" /\ pc[c] = "enrol" /\ Op(c) = "enrol"
    BY <1>0, <1>6 DEF Enrol, Acts, Done, Keep, Total, At
  <2>2. mem[c].by \in Calls \ barred[c]
    BY <1>0, <2>1 DEF BearerOK
  <2>3. /\ people'[c] = mem[c].by /\ people' = [d \in Calls |-> people'[d]]
        /\ \A d \in Calls \ {c} : people'[d] = people[d] /\ acts'[d] = acts[d]
        /\ acts'[c] = [key |-> mem[c].by, for |-> c] /\ acts' = [d \in Calls |-> acts'[d]]
    BY <2>1 DEF TokensOK
  <2>4. TokenOK(c)' /\ BearerOK(c)' /\ ActOK(c)'
    BY <1>0, <1>2, <2>1, <2>2, <2>3 DEF TokenOK, BearerOK, ActOK
  <2>5. RowsStay
    BY <1>2, <2>1, <2>3 DEF RowsStay, TokensOK, TokenOK
  <2> QED BY <1>0, <1>1, <2>1, <2>3, <2>4, <2>5, TokensMoved DEF TokensOK
<1>7. CASE Mint(c)
  <2>1. PICK may \in BOOLEAN :
          keys' = [keys EXCEPT ![c] = [kind |-> "agent", of |-> mem[c].for, may |-> may, live |-> TRUE]]
    BY <1>7 DEF Mint
  <2>2. /\ acts' = [acts EXCEPT ![c] = [key |-> mem[c].by, for |-> mem[c].for]]
        /\ people' = people /\ pc'[c] = "done" /\ pc[c] = "mint" /\ Op(c) = "mint"
    BY <1>0, <1>7 DEF Mint, Acts, Done, Keep, Total, At
  <2>3. /\ mem[c].by \notin barred[c]
        /\ mem[c].for = Self
              \/ (mem[c].for \in Calls /\ mem[c].by \in Calls /\ people[mem[c].for] = mem[c].by)
    BY <1>0, <2>2 DEF BearerOK
  <2>4. [kind |-> "agent", of |-> mem[c].for, may |-> may, live |-> TRUE] \in Key
    BY <2>3 DEF Key, Kinds
  <2>5. /\ keys'[c] \in Key /\ keys' = [d \in Calls |-> keys'[d]]
        /\ \A d \in Calls \ {c} : keys'[d] = keys[d] /\ acts'[d] = acts[d]
        /\ acts'[c] = [key |-> mem[c].by, for |-> mem[c].for] /\ acts' = [d \in Calls |-> acts'[d]]
    BY <2>1, <2>2, <2>4 DEF TokensOK
  <2>6. TokenOK(c)' /\ BearerOK(c)' /\ ActOK(c)'
    BY <1>0, <1>2, <2>2, <2>3, <2>5 DEF TokenOK, BearerOK, ActOK
  <2>7. RowsStay
    BY <1>2, <1>3, <2>2, <2>5 DEF RowsStay, TokensOK, TokenOK, SignInOps
  <2> QED BY <1>0, <1>1, <2>2, <2>5, <2>6, <2>7, TokensMoved DEF TokensOK
<1>8. CASE RequireOwnedIntent(c)
  <2>1. PICK u \in {Self} \cup {p \in Calls : people[p] # NONE} :
          IF HasPermission(mem[c]) /\ OwnerOf(mem[c]) = u THEN Acts(c, mem[c], u) ELSE UNCHANGED acts
    BY <1>8 DEF RequireOwnedIntent
  <2>2. UNCHANGED <<keys, people>> /\ pc'[c] = "done" /\ pc[c] = "permit" /\ Op(c) = "act"
    BY <1>0, <1>8 DEF RequireOwnedIntent, Done, Keep, Total, At
  <2>3. mem[c] \in Calls \ barred[c] /\ OnRecord(mem[c])
    BY <1>0, <2>2 DEF BearerOK
  <2>4. /\ \A d \in Calls \ {c} : acts'[d] = acts[d]
        /\ acts' = [d \in Calls |-> acts'[d]]
        /\ acts'[c] = NONE \/ (acts'[c] = [key |-> mem[c], for |-> u] /\ OwnerOf(mem[c]) = u)
    BY <1>2, <2>1 DEF TokensOK, Acts
  <2>5. TokenOK(c)' /\ BearerOK(c)'
    BY <1>0, <1>2, <2>2 DEF TokenOK, BearerOK
  <2>6. ActOK(c)'
    BY <1>0, <2>2, <2>3, <2>4 DEF ActOK, OnRecord, OwnerOf
  <2>7. RowsStay
    BY <2>2 DEF RowsStay, TokensOK, TokenOK
  <2> QED BY <1>0, <1>1, <2>2, <2>4, <2>5, <2>6, <2>7, TokensMoved DEF TokensOK
<1>9. CASE EvaluateTransaction(c)
  <2>1. PICK rules \in Conditions, t \in Transactions :
          IF IsRevoked(mem[c]) THEN UNCHANGED acts
          ELSE Acts(c, mem[c], EvaluatePurchaseIntent(rules, t.in, t.amount, t.spend))
    BY <1>9 DEF EvaluateTransaction
  <2> DEFINE verdict == EvaluatePurchaseIntent(rules, t.in, t.amount, t.spend)
  <2> HIDE DEF verdict
  <2>2. UNCHANGED <<keys, people>> /\ pc'[c] = "done" /\ pc[c] = "judge" /\ Op(c) = "judge"
    BY <1>0, <1>9 DEF EvaluateTransaction, Done, Keep, Total, At
  <2>3. mem[c] \in Calls \ barred[c]
    BY <1>0, <2>2 DEF BearerOK
  <2>4. acts' = acts \/ acts' = [acts EXCEPT ![c] = [key |-> mem[c], for |-> verdict]]
    BY <2>1 DEF Acts, verdict
  <2>5. /\ \A d \in Calls \ {c} : acts'[d] = acts[d]
        /\ acts' = [d \in Calls |-> acts'[d]]
        /\ acts'[c] = NONE \/ acts'[c].key = mem[c]
    BY <1>2, <2>4 DEF TokensOK
  <2>6. TokenOK(c)' /\ BearerOK(c)' /\ ActOK(c)'
    BY <1>0, <1>2, <2>2, <2>3, <2>5 DEF TokenOK, BearerOK, ActOK
  <2>7. RowsStay
    BY <2>2 DEF RowsStay, TokensOK, TokenOK
  <2> QED BY <1>0, <1>1, <2>2, <2>5, <2>6, <2>7, TokensMoved DEF TokensOK
<1> QED BY <1>5, <1>6, <1>7, <1>8, <1>9

\* The person revokes an agent by its id.
LEMMA DisownTokens ==
  ASSUME RequestsOK, SessionsOK, TokensOK, job' = job, NEW c \in Calls, Disown(c)
  PROVE  TokensOK'
<1>0. Total /\ TokenOK(c) /\ BearerOK(c) /\ ActOK(c) /\ pc[c] = "disown" /\ UNCHANGED <<people, acts, barred>>
  BY DEF RequestsOK, TokensOK, Disown, At
<1>1. pc'[c] = "done" /\ \A d \in Calls \ {c} : pc'[d] = pc[d] /\ mem'[d] = mem[d]
  BY <1>0 DEF Disown, Done, Keep, Total
<1>2. keys[c] = NONE /\ people[c] = NONE /\ acts[c] = NONE
  BY <1>0 DEF TokenOK, ActOK
<1>3. "revoked" # NONE /\ mem[c] \in Calls /\ (keys[mem[c]] # NONE => keys[mem[c]] \in Key)
  BY <1>0, NoAccountAssumption DEF AgentStates, BearerOK, OnRecord, TokensOK, TokenOK
<1>4. \/ agents' = agents /\ keys[mem[c]] # NONE /\ keys' = [keys EXCEPT ![mem[c]].live = FALSE]
      \/ keys' = keys /\ agents' = [agents EXCEPT ![mem[c]] = "revoked"]
  BY DEF Disown
<1>5. /\ \A k \in Calls : keys[k] = NONE => keys'[k] = NONE
      /\ \A k \in Calls : keys[k] # NONE => keys'[k] \in Key /\ keys'[k].of = keys[k].of
      /\ keys' = [k \in Calls |-> keys'[k]]
  <2>1. CASE keys' = keys
    BY <2>1 DEF TokensOK, TokenOK
  <2>2. CASE keys[mem[c]] # NONE /\ keys' = [keys EXCEPT ![mem[c]].live = FALSE]
    <3>1. /\ keys'[mem[c]] = [keys[mem[c]] EXCEPT !.live = FALSE]
          /\ \A d \in Calls \ {mem[c]} : keys'[d] = keys[d]
          /\ keys' = [d \in Calls |-> keys'[d]]
      BY <1>3, <2>2 DEF TokensOK
    <3>2. keys'[mem[c]] \in Key /\ keys'[mem[c]].of = keys[mem[c]].of
      BY <1>3, <2>2, <3>1 DEF Key
    <3> QED BY <2>2, <3>1, <3>2 DEF TokensOK, TokenOK
  <2> QED BY <1>4, <2>1, <2>2
<1>6. \A a \in Calls : agents[a] # NONE => agents'[a] # NONE /\ keys[a] = NONE
  BY <1>3, <1>4 DEF SessionsOK, TokensOK, SessionOK, TokenOK, SignInOps
<1>7. RowsStay
  BY <1>0, <1>5, <1>6 DEF RowsStay
<1>8. TokenOK(c)' /\ BearerOK(c)' /\ ActOK(c)'
  BY <1>0, <1>1, <1>2, <1>5 DEF TokenOK, BearerOK, ActOK
<1> QED BY <1>0, <1>1, <1>5, <1>7, <1>8, TokensMoved DEF TokensOK

LEMMA TenantsKeepTokens == ASSUME RequestsOK, SessionsOK, TokensOK, job' = job, TenantsNext PROVE TokensOK'
<1>1. ASSUME NEW c \in Calls, Fails(c), UNCHANGED <<tenantVars, accountVars>> PROVE TokensOK'
  <2>0. Total /\ TokenOK(c) /\ BearerOK(c) /\ ActOK(c)
    BY DEF RequestsOK, TokensOK
  <2>1. UNCHANGED <<keys, people, acts, barred, agents>>
    BY <1>1 DEF tenantVars, tenantRows, accountVars, accountRows
  <2>2. pc'[c] = "done" /\ \A d \in Calls \ {c} : pc'[d] = pc[d] /\ mem'[d] = mem[d]
    BY <1>1, <2>0 DEF Fails, Done, Keep, Total
  <2>3. pc[c] # "done"
    BY <1>1 DEF Fails, Idle
  <2>4. TokenOK(c)' /\ BearerOK(c)' /\ ActOK(c)'
    BY <2>0, <2>1, <2>2, <2>3 DEF TokenOK, BearerOK, ActOK
  <2>5. RowsStay
    BY <2>1 DEF RowsStay, TokensOK, TokenOK
  <2> QED BY <2>1, <2>2, <2>4, <2>5, TokensMoved DEF TokensOK
<1>2. ASSUME NEW c \in Calls, LoadAgent(c) PROVE agents' = agents
  BY <1>2 DEF LoadAgent, accountVars, accountRows
<1> QED BY <1>1, <1>2, ComingKeeps, KeysKeep, ActingKeeps, DisownTokens
      DEF TenantsNext, accountVars, accountRows

\* Every other step leaves the tokens alone, and no agent's row is ever deleted.
LEMMA OthersKeepTokens ==
  ASSUME RequestsOK, SessionsOK, TokensOK, [Next]_vars, job' = job, UNCHANGED tenantVars,
         Stays(TenantOps, TenantLabels)
  PROVE  TokensOK'
<1>0. "live" # NONE /\ "revoked" # NONE
  BY NoAccountAssumption DEF AgentStates
<1>1. UNCHANGED <<keys, people, acts, barred>>
  BY DEF tenantVars, tenantRows
<1>2. ASSUME NEW s \in Calls, agents[s] # NONE PROVE agents'[s] # NONE
  <2>1. ASSUME NEW c \in Calls, AccountsStep(c) \/ Breaks(c) \/ ErrorDropped(c) \/ TimePasses(c)
        PROVE  \/ UNCHANGED agents
               \/ agents' = [agents EXCEPT ![c] = "live"]
               \/ agents' = [agents EXCEPT ![c] = "revoked"]
               \/ agents' = [agents EXCEPT ![mem[c].now] = "revoked"]
    BY <2>1 DEF AccountsStep, SignUp, SignIn, SignInWithOAuth, CreateUser, LinkOAuthIdentity,
         MarkEmailVerified,
       FillProfile, CreateAgent, CreateSession, SignOut, RevokeSession, RevokeAgent, UndoAgent, UpdateName,
       UpdateUserProfile, RequestPasswordReset, SendMail, ResetPassword, SetPassword, ListSessions,
       PurgeExpired, Breaks, ErrorDropped, TimePasses, accountVars, accountRows
  <2>2. ASSUME NEW x, agents' = [agents EXCEPT ![x] = "live"] \/ agents' = [agents EXCEPT ![x] = "revoked"]
        PROVE  agents'[s] # NONE
    BY <1>0, <1>2, <2>2 DEF SessionsOK
  <2>3. CASE AccountsNext
    BY <1>2, <2>1, <2>2, <2>3 DEF AccountsNext
  <2>4. ASSUME NEW c \in Calls, Disown(c) PROVE agents'[s] # NONE
    BY <1>2, <2>2, <2>4 DEF Disown
  <2>5. ASSUME NEW c \in Calls, WriteName(c) PROVE agents' = agents
    BY <2>5 DEF WriteName
  <2> QED BY <1>2, <2>3, <2>4, <2>5, AccountRowsStay
<1>3. RowsStay
  BY <1>1, <1>2 DEF RowsStay, TokensOK, TokenOK
<1>4. ASSUME NEW c \in Calls PROVE TokenOK(c)'
  BY <1>1 DEF TokensOK, TokenOK, Stays, TenantOps, Op
<1>5. ASSUME NEW c \in Calls PROVE BearerOK(c)'
  <2>1. BearerOK(c)
    BY DEF TokensOK
  <2>2. CASE pc'[c] \in TenantLabels
    <3>1. pc'[c] = pc[c] /\ mem'[c] = mem[c]
      BY <2>2 DEF Stays
    <3> QED BY <1>1, <1>2, <2>1, <3>1 DEF BearerOK, OnRecord
  <2>3. CASE pc'[c] \notin TenantLabels
    BY <1>1, <2>1, <2>3 DEF BearerOK, TenantLabels
  <2> QED BY <2>2, <2>3
<1>6. ASSUME NEW c \in Calls PROVE ActOK(c)'
  <2>1. SUFFICES ASSUME acts[c] # NONE PROVE ActOK(c)'
    BY <1>1 DEF ActOK
  <2>2. ActOK(c) /\ pc'[c] = pc[c]
    BY <2>1 DEF TokensOK, ActOK, Stays
  <2> QED BY <1>1, <1>2, <2>1, <2>2 DEF ActOK, OnRecord, OwnerOf, Op
<1> QED BY <1>1, <1>4, <1>5, <1>6 DEF TokensOK

LEMMA SessionsHold == Spec => [](SessionsOK /\ TokensOK)
<1>1. ASSUME Init PROVE SessionsOK /\ TokensOK
  <2>1. /\ \A c \in Calls : pc[c] \in {"idle", "done"} /\ (Op(c) # "none" => pc[c] = "idle")
        /\ sessions = [c \in Calls |-> NONE] /\ agents = [c \in Calls |-> NONE]
        /\ owed = [c \in Calls |-> {}]
    BY <1>1 DEF Init, RequestsInit, AccountsInit
  <2>2. /\ keys = [c \in Calls |-> NONE] /\ people = [c \in Calls |-> NONE]
        /\ acts = [c \in Calls |-> NONE] /\ barred = [c \in Calls |-> {}]
    BY <1>1 DEF Init, TenantsInit
  <2>3. NONE \notin {"active", "live"}
    BY NoAccountAssumption DEF SessionStates, AgentStates
  <2>4. SessionsOK
    BY <2>1, <2>3 DEF SessionsOK, SessionOK, EnderOK, ResetOK, Recorded, At
  <2>5. TokensOK
    BY <2>1, <2>2 DEF TokensOK, TokenOK, BearerOK, ActOK
  <2> QED BY <2>4, <2>5
<1>2. ASSUME RequestsOK, SessionsOK, TokensOK, [Next]_vars PROVE TokensOK'
  BY <1>2, OthersStay, TenantsKeepTokens, OthersKeepTokens
<1>3. ASSUME RequestsOK, SessionsOK, TokensOK, [Next]_vars PROVE SessionsOK'
  <2>1. job' = job
    BY <1>3, OthersStay
  <2>2. CASE PersonNext
    BY <1>3, <2>2, AccountsKeepSessions DEF PersonNext
  <2>3. CASE \E c \in Calls : Disown(c)
    <3>1. PICK c \in Calls : Disown(c)
      BY <2>3
    <3>2. mem[c] \in Calls /\ (keys[mem[c]] # NONE \/ agents[mem[c]] # NONE)
      BY <1>3, <3>1 DEF Disown, At, TokensOK, BearerOK, OnRecord
    <3>3. UNCHANGED <<sessions, owed, stranded>> /\ disowned \subseteq disowned'
      BY <3>1 DEF Disown
    <3>4. \/ agents' = agents
          \/ agents[mem[c]] # NONE /\ agents' = [agents EXCEPT ![mem[c]] = "revoked"] /\ mem[c] \in disowned'
      BY <3>1, <3>2 DEF Disown
    <3>5. /\ agents' = [s \in Calls |-> agents'[s]]
          /\ \A s \in Calls : agents'[s] = agents[s]
                \/ (agents[s] # NONE /\ agents'[s] = "revoked" /\ s \in disowned')
      BY <1>3, <3>2, <3>4 DEF SessionsOK
    <3>6. pc'[c] # pc[c] /\ Op(c) = "disown"
      BY <1>3, <3>1 DEF Disown, At, Done, Keep, RequestsOK, Total
    <3>7. Stays(AccountOps \ GrantOps, AccountLabels) \/ PersonNext
      <4>1. CASE AccountsNext
        BY <1>3, <3>6, <4>1, AccountsMove DEF Moves, AccountOps
      <4>2. CASE ~AccountsNext
        BY <1>3, <4>2, OthersStay
      <4> QED BY <4>1, <4>2
    <3> QED BY <1>3, <2>1, <2>2, <3>3, <3>5, <3>7, OthersKeepSessions
  <2>4. CASE ~(\E c \in Calls : Disown(c)) /\ ~PersonNext
    <3>1. disowned' = disowned
      <4>1. CASE TenantsNext
        BY <2>4, <4>1 DEF TenantsNext, LoadAgent, Register, Close, ResolveTenant, Enrol, CheckOwnUser,
             MintOwn, Mint,
           ResolveAgent, RequireOwnedIntent, ResolveIntegrator, EvaluateTransaction, OnlyKeys, tenantVars
      <4> QED BY <1>3, <4>1, OthersStay DEF tenantVars
    <3>2. ~AccountsNext
      BY <2>4, <3>1 DEF PersonNext
    <3>3. Stays(AccountOps \ GrantOps, AccountLabels)
      BY <1>3, <3>2, OthersStay
    <3>4. UNCHANGED <<sessions, owed, stranded, agents>>
      <4>1. ASSUME NEW c \in Calls, WriteName(c) PROVE UNCHANGED <<sessions, owed, stranded, agents>>
        BY <4>1 DEF WriteName
      <4> QED BY <1>3, <2>4, <3>2, <4>1, AccountRowsStay
    <3>5. agents' = [s \in Calls |-> agents'[s]]
      BY <1>3, <3>4 DEF SessionsOK
    <3> QED BY <1>3, <2>1, <2>4, <3>1, <3>3, <3>4, <3>5, OthersKeepSessions
  <2> QED BY <2>2, <2>3, <2>4
<1> QED BY <1>1, <1>2, <1>3, RequestsAreSorted, PTL DEF Spec

\* A reset that answers success has ended the sessions that were on record when it set the
\* password, whatever sign-ins, sign-outs and resets run beside it, however many of them:
\* all but those whose own sign-out failed in this reset, the error the code drops.
THEOREM ResetsEndSessions == Spec => []ResetEndsSessions
<1>1. ASSUME SessionsOK PROVE ResetEndsSessions
  BY <1>1 DEF SessionsOK, ResetOK, ResetEndsSessions, ByOp
<1> QED BY <1>1, SessionsHold, PTL

\* An active session has its console agent at every moment, unless the person revokes it;
\* at rest an agent that lives has its active session, whatever failed, but for those
\* stranded; and nothing is done with a token that was revoked when the request came in, nor
\* for a user it is not of.
THEOREM AgentsDoFollowOwners == Spec => []AgentsFollowOwners
<1>1. ASSUME SessionsOK, TokensOK PROVE AgentsFollowOwners
  <2>1. ASSUME NEW s \in Calls, sessions[s] = "active" PROVE agents[s] = "live" \/ s \in disowned
    BY <1>1, <2>1 DEF SessionsOK, SessionOK
  <2>2. ASSUME \A c \in Calls : Idle(c), NEW s \in Calls \ stranded, agents[s] = "live"
        PROVE  sessions[s] = "active"
    <3>1. \A d \in Calls : pc[d] \in {"idle", "done"}
      BY <2>2 DEF Idle
    <3>2. ~\E d \in Calls : Ending(d, s)
      BY <3>1 DEF Ending, At
    <3> QED BY <1>1, <2>2, <3>1, <3>2 DEF SessionsOK, SessionOK
  <2>3. ASSUME NEW c \in Calls, acts[c] # NONE
        PROVE  /\ acts[c].key \notin barred[c]
               /\ Op(c) \in {"enrol", "mint"} /\ acts[c].for # Self => people[acts[c].for] = acts[c].key
               /\ Op(c) = "act" => OwnerOf(acts[c].key) = acts[c].for
    BY <1>1, <2>3 DEF TokensOK, ActOK
  <2> QED BY <2>1, <2>2, <2>3 DEF AgentsFollowOwners
<1> QED BY <1>1, SessionsHold, PTL

-------------------------------------------------------------------------------
(* Types.  What a request has read is of the type of the table it was read from. *)

\* Who is cut short is a request.
LEMMA CutsAreCalls == ASSUME cut \subseteq Calls, [Next]_vars PROVE cut' \subseteq Calls
<1>1. ASSUME NEW c \in Calls, Fails(c) \/ Cuts(c) PROVE cut' \subseteq Calls
  BY <1>1 DEF Fails, Cuts
<1>2. CASE BillingNext \/ CodeGrantsNext
  BY <1>1, <1>2 DEF BillingNext, CodeGrantsNext
<1>3. CASE ProfilesNext
  <2>1. ASSUME NEW c \in Calls, ErrorDropped(c) PROVE Cuts(c)
    BY <2>1 DEF ErrorDropped, Drops
  <2> QED BY <1>1, <1>3, <2>1 DEF ProfilesNext, AccountsNext, Breaks, TimePasses, VaultForgets
<1>4. CASE TenantsNext \/ PolicySetsNext \/ SearchNext
  BY <1>1, <1>4 DEF TenantsNext, PolicySetsNext, SearchNext
<1>5. CASE InstamartNext
  <2>1. ASSUME NEW c \in Calls, AnswerLost(c) PROVE cut' \subseteq Calls
    BY <1>1, <2>1 DEF AnswerLost, Drops
  <2> QED BY <1>1, <1>5, <2>1 DEF InstamartNext
<1>6. CASE RateLimitNext
  <2>1. ASSUME NEW c \in Calls, FailOpen(c) PROVE Cuts(c)
    BY <2>1 DEF FailOpen, Drops
  <2> QED BY <1>1, <1>6, <2>1 DEF RateLimitNext, DiesInLimiter, WindowPasses
<1>7. CASE WebhooksNext
  BY <1>1, <1>7 DEF WebhooksNext, DispatchFails, HookFails
<1> QED BY <1>2, <1>3, <1>4, <1>5, <1>6, <1>7 DEF Next, vars

\* Attempts.
LEMMA GrantTypes ==
  ASSUME RequestsOK, GrantsOK, CodeGrantsTypeOK, CodeGrantsNext PROVE CodeGrantsTypeOK'
<1>1. ASSUME NEW c \in Calls,
             \/ UserAnswers(c) \/ OauthStart(c) \/ OauthCallback(c) \/ DiscoverServer(c) \/ RegisterClient(c)
             \/ ShowURL(c) \/ Redirected(c) \/ TakeRedirect(c) \/ TimesOut(c)
      PROVE  CodeGrantsTypeOK'
  BY <1>1 DEF UserAnswers, OauthStart, OauthCallback, DiscoverServer, RegisterClient, ShowURL, Redirected,
     TakeRedirect, TimesOut, grantVars, CodeGrantsTypeOK
<1>2. ASSUME NEW c \in Calls, ExchangeProfile(c) \/ ExchangeCode(c) PROVE CodeGrantsTypeOK'
  BY <1>2 DEF ExchangeProfile, ExchangeCode, At, GrantsOK, CodeGrantsTypeOK
<1> QED BY <1>1, <1>2 DEF CodeGrantsNext

\* The person's rows; of their user NamesOK has it.
AccountRowsOK ==
  /\ linked \in BOOLEAN
  /\ sessions \in [Calls -> SessionStates \cup {NONE}]
  /\ agents \in [Calls -> AgentStates \cup {NONE}]
  /\ tokens \in [Calls -> TokenStates \cup {NONE}]

LEMMA AccountTypes == ASSUME AccountRowsOK, [Next]_vars PROVE AccountRowsOK'
<1>1. ASSUME NEW c \in Calls,
             \/ SignUp(c) \/ SignIn(c) \/ SignInWithOAuth(c) \/ CreateUser(c) \/ LinkOAuthIdentity(c)
             \/ MarkEmailVerified(c) \/ FillProfile(c) \/ CreateAgent(c)
             \/ SignOut(c) \/ UpdateName(c) \/ UpdateUserProfile(c) \/ SetPassword(c) \/ ListSessions(c)
      PROVE  AccountRowsOK'
  BY <1>1 DEF SignUp, SignIn, SignInWithOAuth, CreateUser, LinkOAuthIdentity, MarkEmailVerified, FillProfile,
     CreateAgent, SignOut, UpdateName, UpdateUserProfile, SetPassword, ListSessions, accountVars,
     accountRows, AccountRowsOK, AgentStates
<1>2. ASSUME NEW c \in Calls, CreateSession(c) \/ RevokeSession(c) PROVE AccountRowsOK'
  BY <1>2 DEF CreateSession, RevokeSession, AccountRowsOK, SessionStates
<1>3. ASSUME NEW c \in Calls, RevokeAgent(c) \/ UndoAgent(c) \/ Disown(c) PROVE AccountRowsOK'
  BY <1>3 DEF RevokeAgent, UndoAgent, Disown, AccountRowsOK, AgentStates
<1>4. ASSUME NEW c \in Calls, RequestPasswordReset(c) \/ SendMail(c) \/ ResetPassword(c) PROVE AccountRowsOK'
  BY <1>4 DEF RequestPasswordReset, SendMail, ResetPassword, AccountRowsOK, TokenStates
<1>5. ASSUME NEW c \in Calls, PurgeExpired(c) PROVE AccountRowsOK'
  BY <1>5 DEF PurgeExpired, AccountRowsOK, SessionStates, TokenStates
<1>6. ASSUME NEW c \in Calls, TimePasses(c) PROVE AccountRowsOK'
  BY <1>6 DEF TimePasses, AccountRowsOK, SessionStates, TokenStates
<1>7. ASSUME UNCHANGED <<linked, sessions, agents, tokens>> PROVE AccountRowsOK'
  BY <1>7 DEF AccountRowsOK
<1>8. CASE AccountsNext
  BY <1>1, <1>2, <1>3, <1>4, <1>5, <1>6, <1>7, <1>8
     DEF AccountsNext, AccountsStep, Breaks, ErrorDropped, accountRows
<1>9. ASSUME NEW c \in Calls, WriteName(c) PROVE UNCHANGED <<linked, sessions, agents, tokens>>
  BY <1>9 DEF WriteName
<1> QED BY <1>3, <1>7, <1>8, <1>9, AccountRowsStay

\* The profile.  What is written is one of what the onboarding or an agent has in hand.
ProfileRowsOK ==
  /\ guardrails \in Calls \cup {NONE}
  /\ address # NONE => address \in StoredProfile
  /\ onboarded \in BOOLEAN
  /\ cards \in [Calls -> CardStates]
  /\ vault \in [Calls -> CardStates]
  /\ said \subseteq Attributes /\ raced \subseteq said

LEMMA ProfileTypes == ASSUME RequestsOK, ProfileOK, ProfileRowsOK, ProfilesOwn PROVE ProfileRowsOK'
<1> USE DEF profileVars, profileRows, cardRows
<1>1. ASSUME NEW c \in Calls, SetGuardrails(c) \/ Complete(c) \/ ReadName(c) \/ WriteName(c)
             \/ UpdateProfile(c) \/ ReadProfile(c) \/ MarkOnboarded(c)
      PROVE  ProfileRowsOK'
  BY <1>1 DEF SetGuardrails, Complete, ReadName, WriteName, UpdateProfile, ReadProfile, MarkOnboarded,
     ProfileRowsOK
<1>2. ASSUME NEW c \in Calls, StoreShipping(c) PROVE ProfileRowsOK'
  <2>1. address' = address \/ address' = [id |-> c, sealedFor |-> c]
    BY <1>2 DEF StoreShipping, Put
  <2>2. UNCHANGED <<guardrails, onboarded, cards, vault, said, raced>>
    BY <1>2 DEF StoreShipping
  <2> QED BY <2>1, <2>2 DEF ProfileRowsOK, StoredProfile
<1>3. ASSUME NEW c \in Calls, WriteProfile(c) PROVE ProfileRowsOK'
  <2> DEFINE patch == Head(mem[c].todo)
             new == IF patch \in {"alias", "unalias"} THEN {} ELSE {[by |-> c, key |-> patch]}
  <2>1. /\ said' = said \cup new
        /\ raced' = raced \cup IF \E d \in Calls \ {c} : pc[d] = "profile!" THEN new ELSE {}
        /\ UNCHANGED <<guardrails, address, onboarded, cards, vault>>
    BY <1>3 DEF WriteProfile
  <2>2. mem[c].todo \in Seq(Patches) /\ mem[c].todo # <<>>
    BY <1>3 DEF WriteProfile, At, ProfileOK, WriterOK, Writing
  <2>3. patch \in Patches
    BY <2>2
  <2> HIDE DEF patch
  <2>4. new \subseteq Attributes
    BY <2>3 DEF Attributes, Patches
  <2> HIDE DEF new
  <2> QED BY <2>1, <2>4 DEF ProfileRowsOK
<1>4. ASSUME NEW c \in Calls, AddCard(c) \/ CreateSource(c) \/ RevokeSource(c) \/ RevokeRow(c)
      PROVE  ProfileRowsOK'
  BY <1>4 DEF AddCard, CreateSource, RevokeSource, RevokeRow, ProfileRowsOK, CardStates
<1>5. CASE VaultForgets
  BY <1>5 DEF VaultForgets, ProfileRowsOK, CardStates
<1>6. CASE UNCHANGED profileVars
  BY <1>6 DEF ProfileRowsOK
<1> QED BY <1>1, <1>2, <1>3, <1>4, <1>5, <1>6 DEF ProfilesOwn, ProfilesStep

\* A webhook's endpoint and its event are calls, and what is on record was delivered.
LEMMA HookTypes == ASSUME RequestsOK, HooksOK, WebhooksTypeOK, WebhooksNext PROVE WebhooksTypeOK'
<1>1. ASSUME NEW c \in Calls, CreateEndpoint(c) PROVE WebhooksTypeOK'
  BY <1>1 DEF CreateEndpoint, WebhooksTypeOK, WebhookEndpoint
<1>2. ASSUME NEW c \in Calls, Dispatch(c) PROVE WebhooksTypeOK'
  <2>1. PICK tenant \in Tenants, type \in EventTypes :
          sending' = sending \cup {[event |-> c, to |-> ep.id, attempt |-> 1] :
                                     ep \in {ep \in ListActiveByTenant(tenant) : Wants(ep, type)}}
    BY <1>2 DEF Dispatch
  <2>2. UNCHANGED <<endpoints, inbox>>
    BY <1>2 DEF Dispatch
  <2>3. ASSUME NEW d \in sending', d \notin sending PROVE DeliveryOf(d) \in Delivery /\ d.attempt \in 1 .. 3
    <3>1. PICK ep \in endpoints : d = [event |-> c, to |-> ep.id, attempt |-> 1]
      BY <2>1, <2>3 DEF ListActiveByTenant
    <3>2. ep.id \in Calls
      BY <3>1 DEF WebhooksTypeOK, WebhookEndpoint
    <3> QED BY <3>1, <3>2 DEF DeliveryOf, Delivery
  <2> QED BY <2>2, <2>3 DEF WebhooksTypeOK
<1>3. ASSUME NEW d \in sending, Delivered(d) PROVE WebhooksTypeOK'
  BY <1>3 DEF Delivered, Ends, WebhooksTypeOK
<1>4. ASSUME NEW d \in sending, NotDelivered(d) PROVE WebhooksTypeOK'
  <2>1. UNCHANGED <<endpoints, inbox>>
    BY <1>4 DEF NotDelivered, Ends
  <2>2. \/ sending' \subseteq sending
        \/ sending' = (sending \ {d}) \cup {[d EXCEPT !.attempt = @ + 1]} /\ d.attempt # 3
    BY <1>4 DEF NotDelivered, Ends, LastAttempt
  <2>3. d = [event |-> d.event, to |-> d.to, attempt |-> d.attempt] /\ d.attempt \in 1 .. 3
        /\ DeliveryOf(d) \in Delivery
    BY DEF HooksOK, OutboundOK, WebhooksTypeOK
  <2>4. ASSUME d.attempt # 3
        PROVE  /\ DeliveryOf([d EXCEPT !.attempt = @ + 1]) \in Delivery
               /\ [d EXCEPT !.attempt = @ + 1].attempt \in 1 .. 3
    <3>1. [d EXCEPT !.attempt = @ + 1] = [event |-> d.event, to |-> d.to, attempt |-> d.attempt + 1]
      BY <2>3
    <3> QED BY <2>3, <2>4, <3>1 DEF DeliveryOf
  <2> QED BY <2>1, <2>2, <2>4 DEF WebhooksTypeOK
<1>5. CASE ForgetDeliveries
  BY <1>5 DEF ForgetDeliveries, WebhooksTypeOK
<1>6. ASSUME NEW c \in Calls, Receive(c) PROVE WebhooksTypeOK'
  BY <1>6 DEF Receive, WebhooksTypeOK
<1>7. ASSUME NEW c \in Calls, AnswerInbound(c) PROVE WebhooksTypeOK'
  BY <1>7 DEF AnswerInbound, WebhooksTypeOK
<1>8. CASE UNCHANGED hookVars
  BY <1>8 DEF hookVars, WebhooksTypeOK
<1> QED BY <1>1, <1>2, <1>3, <1>4, <1>5, <1>6, <1>7, <1>8 DEF WebhooksNext, DispatchFails, HookFails

\* What is searched for is what SearchOK has on record.
LEMMA SearchTypes == ASSUME SearchOK PROVE SearchTypeOK
BY DEF SearchOK, SearchTablesOK, Ranked, FromListings, SearchTypeOK

\* Keys and acts.  A tenant mints its agents with its own key, a person as themselves.
MinterOK(c) == pc[c] = "mint" => mem[c].by \in Calls \cup {Self} /\ mem[c].for \in Calls \cup {Self}
TenantRowsOK ==
  /\ \A c \in Calls : acts[c] # NONE =>
       acts[c] \in [key : Calls \cup {Self}, for : Calls \cup Verdicts \cup {Self}]
  /\ disowned \subseteq Calls
  /\ \A c \in Calls : MinterOK(c)

LEMMA VerdictTypes == ASSUME NEW rules, NEW in, NEW amount, NEW spend
  PROVE EvaluatePurchaseIntent(rules, in, amount, spend) \in Verdicts
BY DEF EvaluatePurchaseIntent, Worst, Verdicts

LEMMA TenantMoved ==
  ASSUME RequestsOK, TokensOK, TenantRowsOK, NEW c \in Calls,
         pc' = [pc EXCEPT ![c] = pc'[c]], mem' = [mem EXCEPT ![c] = mem'[c]],
         disowned' \subseteq Calls,
         \/ UNCHANGED acts
         \/ \E key \in Calls \cup {Self}, u \in Calls \cup Verdicts \cup {Self} : Acts(c, key, u),
         MinterOK(c)'
  PROVE  TenantRowsOK'
<1>1. \A d \in Calls \ {c} : pc'[d] = pc[d] /\ mem'[d] = mem[d]
  BY DEF RequestsOK, Total
<1>2. \A d \in Calls : MinterOK(d)'
  BY <1>1 DEF TenantRowsOK, MinterOK
<1>3. \A d \in Calls : acts'[d] # NONE =>
        acts'[d] \in [key : Calls \cup {Self}, for : Calls \cup Verdicts \cup {Self}]
  <2>1. CASE UNCHANGED acts
    BY <2>1 DEF TenantRowsOK
  <2>2. ASSUME NEW key \in Calls \cup {Self}, NEW u \in Calls \cup Verdicts \cup {Self}, Acts(c, key, u),
               NEW d \in Calls, acts'[d] # NONE
        PROVE  acts'[d] \in [key : Calls \cup {Self}, for : Calls \cup Verdicts \cup {Self}]
    <3>1. acts'[c] = [key |-> key, for |-> u] /\ \A e \in Calls \ {c} : acts'[e] = acts[e]
      BY <2>2 DEF Acts, TokensOK
    <3> QED BY <2>2, <3>1 DEF TenantRowsOK
  <2> QED BY <2>1, <2>2
<1> QED BY <1>2, <1>3 DEF TenantRowsOK

LEMMA TenantTypes == ASSUME RequestsOK, TokensOK, TenantRowsOK, TenantsNext PROVE TenantRowsOK'
<1> Total
  BY DEF RequestsOK
<1>1. ASSUME NEW c \in Calls,
             \/ Register(c) \/ Close(c) \/ ResolveTenant(c) \/ LoadAgent(c) \/ ResolveAgent(c)
             \/ ResolveIntegrator(c) \/ (Fails(c) /\ UNCHANGED tenantVars)
      PROVE  TenantRowsOK'
  <2>1. UNCHANGED <<acts, disowned>>
    BY <1>1 DEF Register, Close, ResolveTenant, LoadAgent, ResolveAgent, ResolveIntegrator, OnlyKeys, tenantVars,
       tenantRows
  <2>2. /\ pc' = [pc EXCEPT ![c] = pc'[c]] /\ mem' = [mem EXCEPT ![c] = mem'[c]]
        /\ pc'[c] # "mint"
    BY <1>1 DEF Register, Close, ResolveTenant, LoadAgent, ResolveAgent, ResolveIntegrator, Fails, Keep, Done,
       Total
  <2> QED BY <2>1, <2>2, TenantMoved DEF TenantRowsOK, MinterOK
<1>2. ASSUME NEW c \in Calls, Enrol(c) PROVE TenantRowsOK'
  <2>1. mem[c].by \in Calls
    BY <1>2 DEF Enrol, At, TokensOK, BearerOK
  <2>2. UNCHANGED disowned /\ Acts(c, mem[c].by, c)
    BY <1>2 DEF Enrol
  <2>3. pc' = [pc EXCEPT ![c] = pc'[c]] /\ mem' = [mem EXCEPT ![c] = mem'[c]] /\ pc'[c] # "mint"
    BY <1>2 DEF Enrol, Keep, Done, Total
  <2> QED BY <2>1, <2>2, <2>3, TenantMoved DEF TenantRowsOK, MinterOK
<1>3. ASSUME NEW c \in Calls, CheckOwnUser(c) PROVE TenantRowsOK'
  <2>1. /\ mem[c] = [by |-> mem[c].by, for |-> NONE] /\ mem[c].by \in Calls
    BY <1>3 DEF CheckOwnUser, At, TokensOK, BearerOK
  <2>2. UNCHANGED <<acts, disowned>>
    BY <1>3 DEF CheckOwnUser, tenantVars
  <2>3. PICK u \in Calls : Keep(c, [mem[c] EXCEPT !.for = u], "mint") \/ Done(c)
    BY <1>3 DEF CheckOwnUser
  <2>4. [mem[c] EXCEPT !.for = u] = [by |-> mem[c].by, for |-> u]
    BY <2>1
  <2>5. MinterOK(c)'
    BY <2>1, <2>3, <2>4 DEF MinterOK, Keep, Done, Total
  <2>6. pc' = [pc EXCEPT ![c] = pc'[c]] /\ mem' = [mem EXCEPT ![c] = mem'[c]]
    BY <2>3 DEF Keep, Done, Total
  <2> QED BY <2>2, <2>5, <2>6, TenantMoved DEF TenantRowsOK
<1>4. ASSUME NEW c \in Calls, MintOwn(c) PROVE TenantRowsOK'
  <2>1. UNCHANGED <<acts, disowned>> /\ Keep(c, [by |-> Self, for |-> Self], "mint")
    BY <1>4 DEF MintOwn, OnlyKeys
  <2> QED BY <2>1, TenantMoved DEF TenantRowsOK, MinterOK, Keep, Total
<1>5. ASSUME NEW c \in Calls, Mint(c) PROVE TenantRowsOK'
  <2>1. MinterOK(c) /\ pc[c] = "mint"
    BY <1>5 DEF Mint, At, TenantRowsOK
  <2>2. UNCHANGED disowned /\ Acts(c, mem[c].by, mem[c].for)
    BY <1>5 DEF Mint
  <2>3. pc' = [pc EXCEPT ![c] = pc'[c]] /\ mem' = [mem EXCEPT ![c] = mem'[c]] /\ pc'[c] # "mint"
    BY <1>5 DEF Mint, Keep, Done, Total
  <2> QED BY <2>1, <2>2, <2>3, TenantMoved DEF TenantRowsOK, MinterOK
<1>6. ASSUME NEW c \in Calls, Disown(c) PROVE TenantRowsOK'
  <2>1. mem[c] \in Calls
    BY <1>6 DEF Disown, At, TokensOK, BearerOK, OnRecord
  <2>2. UNCHANGED acts /\ disowned' \subseteq Calls
    BY <1>6, <2>1 DEF Disown, TenantRowsOK
  <2>3. pc' = [pc EXCEPT ![c] = pc'[c]] /\ mem' = [mem EXCEPT ![c] = mem'[c]] /\ pc'[c] # "mint"
    BY <1>6 DEF Disown, Keep, Done, Total
  <2> QED BY <2>2, <2>3, TenantMoved DEF MinterOK
<1>7. ASSUME NEW c \in Calls, RequireOwnedIntent(c) PROVE TenantRowsOK'
  <2>1. mem[c] \in Calls
    BY <1>7 DEF RequireOwnedIntent, At, TokensOK, BearerOK
  <2>2. /\ UNCHANGED disowned
        /\ UNCHANGED acts \/ \E u \in Calls \cup Verdicts \cup {Self} : Acts(c, mem[c], u)
    BY <1>7 DEF RequireOwnedIntent
  <2>3. pc' = [pc EXCEPT ![c] = pc'[c]] /\ mem' = [mem EXCEPT ![c] = mem'[c]] /\ pc'[c] # "mint"
    BY <1>7 DEF RequireOwnedIntent, Keep, Done, Total
  <2> QED BY <2>1, <2>2, <2>3, TenantMoved DEF TenantRowsOK, MinterOK
<1>8. ASSUME NEW c \in Calls, EvaluateTransaction(c) PROVE TenantRowsOK'
  <2>1. mem[c] \in Calls
    BY <1>8 DEF EvaluateTransaction, At, TokensOK, BearerOK
  <2>2. /\ UNCHANGED disowned
        /\ UNCHANGED acts \/ \E u \in Verdicts : Acts(c, mem[c], u)
    BY <1>8, VerdictTypes DEF EvaluateTransaction
  <2>3. pc' = [pc EXCEPT ![c] = pc'[c]] /\ mem' = [mem EXCEPT ![c] = mem'[c]] /\ pc'[c] # "mint"
    BY <1>8 DEF EvaluateTransaction, Keep, Done, Total
  <2> QED BY <2>1, <2>2, <2>3, TenantMoved DEF TenantRowsOK, MinterOK
<1> QED BY <1>1, <1>2, <1>3, <1>4, <1>5, <1>6, <1>7, <1>8 DEF TenantsNext

\* Carts.  A discovery's cart stays in the connector while the discovery is under way, and
\* a checkout holds a copy of one whose discovery is over.
Shopping == {"fill", "deliver", "price"}

CartCallOK(c) ==
  /\ pc[c] \in Shopping => carts[c] \in LocalCart
  /\ pc[c] = "fill" => mem[c] \subseteq Items
  /\ pc[c] \in Checking =>
       /\ mem[c].was \in LocalCart
       /\ mem[c].cart \in Calls /\ Op(mem[c].cart) = "shop" /\ pc[mem[c].cart] = "done"
  /\ result[c] # NONE => Op(c) \in {"shop", "order", "search"} /\ pc[c] = "done"

CartsOK ==
  /\ carts = [c \in Calls |-> carts[c]]
  /\ \A c \in Calls : carts[c] # NONE => carts[c] \in LocalCart
  /\ remote \in CartData
  /\ orders \subseteq [by : Calls, items : SUBSET Items, lines : SUBSET Items]
  /\ \A c \in Calls : CartCallOK(c)

ClientOK ==
  /\ holder \in Calls \cup {NONE}
  /\ link \in Links \cup {NONE} /\ session \in Links \cup {NONE}
  /\ dead \subseteq Calls \cup {First}
  /\ authFailed \in BOOLEAN /\ ready \in BOOLEAN
  /\ result \in [Calls -> Outcomes \cup {NONE}]
  /\ edited \subseteq Calls

LEMMA ClientTypes == ASSUME ClientOK, InstamartNext PROVE ClientOK'
<1> USE DEF connection
<1>1. ASSUME NEW c \in Calls, NEW r \in Outcomes, Answers(c, r)
      PROVE  result' \in [Calls -> Outcomes \cup {NONE}]
  BY <1>1 DEF Answers, ClientOK
<1>2. Opened \in Links \cup {NONE} /\ \A c \in Calls : Unlock(c) => holder' \in Calls \cup {NONE}
  BY DEF Opened, Unlock, ClientOK
<1>3. ASSUME Open PROVE session' \in Links \cup {NONE} /\ authFailed' \in BOOLEAN
  BY <1>2, <1>3 DEF Open, ClientOK
<1>4. ASSUME NEW c \in Calls, Expired(c) PROVE ClientOK'
  BY <1>1, <1>2, <1>4 DEF Expired, Expire, Outcomes, ClientOK
<1>5. ASSUME NEW c \in Calls, SearchProducts(c) \/ SearchAnswered(c) \/ SearchFails(c) PROVE ClientOK'
  BY <1>3, <1>5 DEF SearchProducts, SearchAnswered, SearchFails, Expire, ClientOK
<1>6. ASSUME NEW c \in Calls, CreateCart(c) \/ GetDeliveryOptions(c) \/ GetCheckoutQuote(c) \/ AddToCart(c)
      PROVE  ClientOK'
  <2>1. UNCHANGED <<holder, link, ready, dead, edited>>
    BY <1>6 DEF CreateCart, GetDeliveryOptions, GetCheckoutQuote, AddToCart
  <2>2. UNCHANGED <<session, authFailed>> \/ Open
    BY <1>6 DEF CreateCart, GetDeliveryOptions, GetCheckoutQuote, AddToCart, Connect
  <2>3. result' = result \/ \E r \in Outcomes : Answers(c, r)
    BY <1>6 DEF CreateCart, GetDeliveryOptions, GetCheckoutQuote, AddToCart, Outcomes
  <2> QED BY <1>1, <1>3, <2>1, <2>2, <2>3 DEF ClientOK
<1>7. ASSUME NEW c \in Calls, ExecuteCheckout(c) PROVE ClientOK'
  <2>1. UNCHANGED <<link, connection, dead, edited>> /\ holder' \in {holder, c}
    BY <1>7 DEF ExecuteCheckout
  <2>2. PICK k \in Calls : \/ \E r \in {"error", "user"} : result' = [result EXCEPT ![k] = "taken", ![c] = r]
                           \/ result' = [result EXCEPT ![k] = "taken"]
    BY <1>7 DEF ExecuteCheckout, ByOp
  <2>3. result' \in [Calls -> Outcomes \cup {NONE}]
    BY <2>2 DEF ClientOK, Outcomes
  <2> QED BY <2>1, <2>3 DEF ClientOK
<1>8. ASSUME NEW c \in Calls, LookAtCart(c) \/ CheckTerms(c) PROVE ClientOK'
  <2>1. UNCHANGED <<link, ready, dead, edited>> /\ Open /\ (holder' = holder \/ Unlock(c))
    BY <1>8 DEF LookAtCart, CheckTerms, Connect
  <2>2. result' = result \/ \E r \in Outcomes : Answers(c, r)
    BY <1>8 DEF LookAtCart, CheckTerms, Outcomes
  <2> QED BY <1>1, <1>2, <1>3, <2>1, <2>2 DEF ClientOK
<1>9. ASSUME NEW c \in Calls, Checkout(c) PROVE ClientOK'
  <2>1. UNCHANGED <<holder, link, ready, dead, result, edited>>
    BY <1>9 DEF Checkout
  <2>2. Open \/ (authFailed' = TRUE /\ session' = session)
    BY <1>9 DEF Checkout, Connect
  <2> QED BY <1>3, <2>1, <2>2 DEF ClientOK
<1>10. ASSUME NEW c \in Calls, CheckoutUnlinked(c) \/ CheckoutDeclined(c) \/ InterpretCheckout(c)
       PROVE  ClientOK'
  <2>1. UNCHANGED <<link, session, authFailed, dead, edited>> /\ ready' \in BOOLEAN /\ Unlock(c)
    BY <1>10 DEF CheckoutUnlinked, CheckoutDeclined, InterpretCheckout, ClientOK
  <2>2. \E r \in Outcomes : Answers(c, r)
    BY <1>10 DEF CheckoutUnlinked, CheckoutDeclined, InterpretCheckout, Outcomes
  <2> QED BY <1>1, <1>2, <2>1, <2>2 DEF ClientOK
<1>11. ASSUME NEW c \in Calls, ClassifyFailure(c) PROVE ClientOK'
  <2>1. UNCHANGED <<link, authFailed, dead, edited>> /\ Unlock(c)
        /\ (Expire \/ UNCHANGED <<session, ready>>)
    BY <1>11 DEF ClassifyFailure
  <2>2. \E r \in Outcomes : Answers(c, r)
    BY <1>11 DEF ClassifyFailure, Outcomes, OutcomeUnknown
  <2> QED BY <1>1, <1>2, <2>1, <2>2 DEF Expire, ClientOK
<1>12. ASSUME NEW c \in Calls, Unlink(c) \/ SaveLogin(c) PROVE ClientOK'
  <2>1. UNCHANGED <<holder, connection, dead, result, edited>>
    BY <1>12 DEF Unlink, SaveLogin
  <2>2. link' = NONE \/ link' = [grant |-> c, address |-> NONE]
    BY <1>12 DEF Unlink, SaveLogin, Save
  <2> QED BY <2>1, <2>2 DEF ClientOK, Links
<1>13. ASSUME NEW c \in Calls, ChooseAddress(c) PROVE ClientOK'
  <2>1. UNCHANGED <<holder, connection, dead, result, edited>>
    BY <1>13 DEF ChooseAddress
  <2>2. link \in Links
    BY <1>13 DEF ChooseAddress, Linked, ClientOK
  <2>3. PICK a \in Addresses : link' = [link EXCEPT !.address = a]
    BY <1>13 DEF ChooseAddress, Save
  <2>4. link' \in Links
    BY <2>2, <2>3 DEF Links
  <2> QED BY <2>1, <2>4 DEF ClientOK
<1>14. ASSUME UNCHANGED <<link, connection, dead, result, edited>>, holder' \in {holder, NONE} PROVE ClientOK'
  BY <1>14 DEF ClientOK
<1>15. CASE AppEdits
  BY <1>15 DEF AppEdits, ByOp, ClientOK
<1>16. CASE SessionEnds
  BY <1>16 DEF SessionEnds, Linked, Links, ClientOK
<1>17. CASE Warm
  <2>1. UNCHANGED <<holder, link, dead, result, edited>>
    BY <1>17 DEF Warm
  <2>2. (Open /\ ready' = TRUE) \/ (session' = NONE /\ authFailed' = TRUE /\ ready' = ready)
    BY <1>17 DEF Warm, Connect
  <2> QED BY <1>3, <2>1, <2>2 DEF ClientOK
<1>18. CASE Refresh
  BY <1>18 DEF Refresh, Save, ClientOK
<1>19. ASSUME NEW c \in Calls, AnswerLost(c) PROVE ClientOK'
  BY <1>14, <1>19 DEF AnswerLost, instamartVars
<1>20. ASSUME NEW c \in Calls, Unlock(c), UNCHANGED <<link, connection, dead, result, edited>> PROVE ClientOK'
  BY <1>14, <1>20 DEF Unlock
<1> QED BY <1>4, <1>5, <1>6, <1>7, <1>8, <1>9, <1>10, <1>11, <1>12, <1>13, <1>15, <1>16, <1>17, <1>18, <1>19,
      <1>20 DEF InstamartNext, InstamartStep

LEMMA CartMoved ==
  ASSUME RequestsOK, CartsOK, job' = job, NEW c \in Calls, pc[c] # "done",
         \A d \in Calls \ {c} : /\ pc'[d] = pc[d] /\ mem'[d] = mem[d]
                                /\ carts'[d] = carts[d] \/ (carts'[d] = NONE /\ Idle(d))
                                /\ result'[d] = result[d] \/ result[d] # NONE,
         carts' = [d \in Calls |-> carts'[d]], carts'[c] # NONE => carts'[c] \in LocalCart,
         remote' \in CartData,
         orders' \subseteq [by : Calls, items : SUBSET Items, lines : SUBSET Items],
         CartCallOK(c)'
  PROVE  CartsOK'
<1>1. ASSUME NEW d \in Calls \ {c} PROVE CartCallOK(d)'
  <2>1. CartCallOK(d)
    BY DEF CartsOK
  <2>2. pc[d] \in Shopping => ~Idle(d)
    BY DEF Shopping, Idle
  <2>3. \A k \in Calls : pc[k] = "done" => pc'[k] = "done"
    OBVIOUS
  <2> QED BY <2>1, <2>2, <2>3 DEF CartCallOK, Op
<1>2. \A d \in Calls : carts'[d] # NONE => carts'[d] \in LocalCart
  BY DEF CartsOK
<1> QED BY <1>1, <1>2 DEF CartsOK

\* A step that writes no cart.
LEMMA CartsStay ==
  ASSUME RequestsOK, CartsOK, job' = job, NEW c \in Calls, pc[c] # "done",
         pc' = [pc EXCEPT ![c] = pc'[c]], mem' = [mem EXCEPT ![c] = mem'[c]],
         UNCHANGED <<carts, remote, orders>>,
         \A d \in Calls \ {c} : result'[d] = result[d] \/ result[d] # NONE,
         CartCallOK(c)'
  PROVE  CartsOK'
<1>1. \A d \in Calls \ {c} : pc'[d] = pc[d] /\ mem'[d] = mem[d]
  BY DEF RequestsOK, Total
<1> QED BY <1>1, CartMoved DEF CartsOK

LEMMA AnswersKeepCarts ==
  ASSUME RequestsOK, CartsOK, ClientOK, NEW c \in Calls, Op(c) \in {"shop", "order", "search"}, job' = job, NEW r,
         pc[c] # "done", Answers(c, r)
  PROVE  /\ pc' = [pc EXCEPT ![c] = pc'[c]] /\ mem' = [mem EXCEPT ![c] = mem'[c]]
         /\ \A d \in Calls \ {c} : result'[d] = result[d] \/ result[d] # NONE
         /\ CartCallOK(c)'
<1>1. pc'[c] = "done" /\ Op(c)' = Op(c)
  BY DEF Answers, Done, Keep, RequestsOK, Total, Op
<1>2. pc' = [pc EXCEPT ![c] = pc'[c]] /\ mem' = [mem EXCEPT ![c] = mem'[c]]
  BY DEF Answers, Done, Keep, RequestsOK, Total
<1>3. \A d \in Calls \ {c} : result'[d] = result[d]
  BY DEF Answers, ClientOK
<1>4. CartCallOK(c)'
  BY <1>1 DEF CartCallOK, Shopping, Checking
<1> QED BY <1>2, <1>3, <1>4

\* Who goes on shopping or checking with what it had.
LEMMA GoingOnKeepsCarts ==
  ASSUME RequestsOK, CartsOK, NEW c \in Calls, job' = job, NEW l, Goto(c, l), l # "fill", result' = result,
         l # "done", pc[c] # "done", l \in Shopping => pc[c] \in Shopping /\ carts'[c] \in LocalCart,
         l \in Checking => pc[c] \in Checking
  PROVE  /\ pc' = [pc EXCEPT ![c] = pc'[c]] /\ mem' = [mem EXCEPT ![c] = mem'[c]]
         /\ \A d \in Calls \ {c} : result'[d] = result[d] \/ result[d] # NONE
         /\ CartCallOK(c)'
<1>1. pc'[c] = l /\ mem' = mem /\ \A d \in Calls \ {c} : pc'[d] = pc[d]
  BY DEF Goto, RequestsOK, Total
<1>2. CartCallOK(c)
  BY DEF CartsOK
<1>3. CartCallOK(c)'
  BY <1>1, <1>2 DEF CartCallOK, Op
<1> QED BY <1>1, <1>3 DEF Goto, RequestsOK, Total

LEMMA OutsideKeepsCarts ==
  ASSUME RequestsOK, CartsOK, ClientOK, NEW c \in Calls, job' = job,
         \/ SearchProducts(c) \/ SearchAnswered(c) \/ SearchFails(c) \/ Expired(c)
         \/ Unlink(c) \/ SaveLogin(c) \/ ChooseAddress(c)
  PROVE  CartsOK'
<1>1. pc[c] # "done" /\ UNCHANGED <<carts, remote, orders>>
  BY DEF SearchProducts, SearchAnswered, SearchFails, Expired, Unlink, SaveLogin, ChooseAddress, At
<1>2. CASE Expired(c)
  <2>1. Op(c) \in {"shop", "order", "search"} /\ Answers(c, "error")
    BY <1>2 DEF Expired, At
  <2> QED BY <1>1, <2>1, AnswersKeepCarts, CartsStay
<1>3. CASE SearchProducts(c) \/ SearchAnswered(c) \/ SearchFails(c) \/ Unlink(c) \/ SaveLogin(c) \/ ChooseAddress(c)
  <2>1. result' = result
    BY <1>3 DEF SearchProducts, SearchAnswered, SearchFails, Unlink, SaveLogin, ChooseAddress
  <2>2. pc' = [pc EXCEPT ![c] = pc'[c]] /\ mem' = [mem EXCEPT ![c] = mem'[c]]
        /\ pc'[c] \notin Shopping \cup Checking
    BY <1>3 DEF SearchProducts, SearchAnswered, SearchFails, Unlink, SaveLogin, ChooseAddress, Keep, Goto, Done,
       Shopping, Checking, RequestsOK, Total
  <2>3. result[c] = NONE
    BY <1>1 DEF CartsOK, CartCallOK
  <2>4. CartCallOK(c)'
    BY <2>1, <2>2, <2>3 DEF CartCallOK, Shopping
  <2> QED BY <1>1, <2>1, <2>2, <2>4, CartsStay
<1> QED BY <1>2, <1>3

LEMMA DiscoveryKeepsCarts ==
  ASSUME RequestsOK, CartsOK, ClientOK, NEW c \in Calls, job' = job,
         CreateCart(c) \/ AddToCart(c) \/ GetDeliveryOptions(c) \/ GetCheckoutQuote(c)
  PROVE  CartsOK'
<1> Total
  BY DEF RequestsOK
<1>1. Op(c) = "shop" /\ pc[c] # "done" /\ orders' = orders
  BY DEF CreateCart, AddToCart, GetDeliveryOptions, GetCheckoutQuote, At
<1>2. result[c] = NONE /\ CartCallOK(c)
  BY <1>1 DEF CartsOK, CartCallOK
<1>3. CASE CreateCart(c)
  <2>1. PICK old \in {{}} \cup {{k \in Calls : Idle(k)}} :
          carts' = [k \in Calls |-> IF k = c THEN [address |-> link.address, verified |-> FALSE, lines |-> {}]
                                    ELSE IF k \in old THEN NONE ELSE carts[k]]
    BY <1>3 DEF CreateCart
  <2>2. PICK want \in SUBSET Items : Keep(c, want, "fill")
    BY <1>3 DEF CreateCart
  <2>3. link.address \in Addresses
    BY <1>3 DEF CreateCart, HasSettings, Linked, ClientOK, Links
  <2>4. carts'[c] \in LocalCart
    BY <2>1, <2>3 DEF LocalCart
  <2>5. pc'[c] = "fill" /\ mem'[c] = want /\ \A d \in Calls \ {c} : pc'[d] = pc[d] /\ mem'[d] = mem[d]
    BY <2>2 DEF Keep, Total
  <2>6. UNCHANGED <<result, remote>>
    BY <1>3 DEF CreateCart
  <2>7. CartCallOK(c)'
    BY <1>2, <2>4, <2>5, <2>6 DEF CartCallOK, Checking
  <2> QED BY <1>1, <2>1, <2>4, <2>5, <2>6, <2>7, CartMoved DEF CartsOK
<1>4. CASE AddToCart(c)
  <2>1. carts[c] \in LocalCart /\ mem[c] \subseteq Items
    BY <1>2, <1>4 DEF AddToCart, At, CartCallOK, Shopping
  <2>2. PICK item \in mem[c] : \E taken \in SUBSET (carts[c].lines \cup {item}) :
          /\ remote' = [address |-> carts[c].address, items |-> taken]
          /\ carts' = [carts EXCEPT ![c].lines = taken]
          /\ \/ /\ Keep(c, mem[c] \ {item}, IF mem[c] = {item} THEN "deliver" ELSE "fill") /\ UNCHANGED result
             \/ Answers(c, "error")
    BY <1>4 DEF AddToCart
  <2>7. PICK taken \in SUBSET (carts[c].lines \cup {item}) :
          /\ remote' = [address |-> carts[c].address, items |-> taken]
          /\ carts' = [carts EXCEPT ![c].lines = taken]
          /\ \/ /\ Keep(c, mem[c] \ {item}, IF mem[c] = {item} THEN "deliver" ELSE "fill") /\ UNCHANGED result
             \/ Answers(c, "error")
    BY <2>2
  <2>3. taken \subseteq Items /\ remote' \in CartData
    BY <2>1, <2>7 DEF LocalCart, CartData
  <2>4. /\ carts'[c] \in LocalCart /\ carts' = [d \in Calls |-> carts'[d]]
        /\ \A d \in Calls \ {c} : carts'[d] = carts[d]
    BY <2>1, <2>3, <2>7 DEF CartsOK, LocalCart
  <2>5. CASE Answers(c, "error")
    <3>1. \A d \in Calls \ {c} : pc'[d] = pc[d] /\ mem'[d] = mem[d]
      BY <2>5 DEF Answers, Done, Keep, Total
    <3> QED BY <1>1, <2>3, <2>4, <2>5, <3>1, AnswersKeepCarts, CartMoved DEF CartsOK
  <2>6. CASE Keep(c, mem[c] \ {item}, IF mem[c] = {item} THEN "deliver" ELSE "fill") /\ UNCHANGED result
    <3>1. /\ pc'[c] \in {"deliver", "fill"} /\ mem'[c] = mem[c] \ {item}
          /\ \A d \in Calls \ {c} : pc'[d] = pc[d] /\ mem'[d] = mem[d]
      BY <2>6 DEF Keep, Total
    <3>2. CartCallOK(c)'
      BY <1>2, <2>1, <2>4, <2>6, <3>1 DEF CartCallOK, Checking
    <3> QED BY <1>1, <2>3, <2>4, <2>6, <3>1, <3>2, CartMoved DEF CartsOK
  <2> QED BY <2>5, <2>6, <2>7
<1>5. CASE GetDeliveryOptions(c)
  <2>1. carts[c] \in LocalCart
    BY <1>2, <1>5 DEF GetDeliveryOptions, At, CartCallOK, Shopping
  <2>2. remote' = remote /\ pc[c] = "deliver"
    BY <1>5 DEF GetDeliveryOptions, At
  <2>3. CASE carts' = [carts EXCEPT ![c].verified = TRUE] /\ Goto(c, "price") /\ UNCHANGED result
    <3>1. /\ carts'[c] \in LocalCart /\ carts' = [d \in Calls |-> carts'[d]]
          /\ \A d \in Calls \ {c} : carts'[d] = carts[d]
      BY <2>1, <2>3 DEF CartsOK, LocalCart
    <3>2. \A d \in Calls \ {c} : pc'[d] = pc[d] /\ mem'[d] = mem[d]
      BY <2>3 DEF Goto, Total
    <3>3. CartCallOK(c)'
      BY <1>1, <2>2, <2>3, <3>1, GoingOnKeepsCarts DEF Shopping, Checking
    <3> QED BY <1>1, <2>2, <2>3, <3>1, <3>2, <3>3, CartMoved DEF CartsOK
  <2>4. CASE Answers(c, "error") /\ UNCHANGED carts
    BY <1>1, <2>2, <2>4, AnswersKeepCarts, CartsStay
  <2> QED BY <1>5, <2>3, <2>4 DEF GetDeliveryOptions
<1>6. CASE GetCheckoutQuote(c)
  <2>1. UNCHANGED <<carts, remote>> /\ \E r : Answers(c, r)
    BY <1>6 DEF GetCheckoutQuote
  <2> QED BY <1>1, <2>1, AnswersKeepCarts, CartsStay
<1> QED BY <1>3, <1>4, <1>5, <1>6

LEMMA ExecutionKeepsCarts ==
  ASSUME RequestsOK, CartsOK, ClientOK, NEW c \in Calls, job' = job, ExecuteCheckout(c) PROVE CartsOK'
<1> Total
  BY DEF RequestsOK
<1>1. Op(c) = "order" /\ pc[c] = "idle" /\ UNCHANGED <<carts, remote, orders>> /\ result[c] = NONE
  BY DEF ExecuteCheckout, At, CartsOK, CartCallOK
<1>2. PICK k \in Calls :
        /\ Op(k) = "shop" /\ result[k] = "quoted"
        /\ \/ /\ \E r \in Outcomes : result' = [result EXCEPT ![k] = "taken", ![c] = r]
              /\ Done(c)
           \/ /\ result' = [result EXCEPT ![k] = "taken"] /\ carts[k] # NONE
              /\ Keep(c, [cart |-> k, was |-> carts[k], grant |-> NONE], "look")
  <2>1. PICK k \in ByOp({"shop"}) :
          /\ result[k] = "quoted"
          /\ IF ~ready \/ carts[k] = NONE
               THEN /\ result' = [result EXCEPT ![k] = "taken", ![c] = IF ready THEN "error" ELSE "user"]
                    /\ Done(c) /\ UNCHANGED holder
               ELSE /\ holder = NONE /\ holder' = c
                    /\ result' = [result EXCEPT ![k] = "taken"]
                    /\ Keep(c, [cart |-> k, was |-> carts[k], grant |-> NONE], "look")
    BY DEF ExecuteCheckout
  <2>2. "error" \in Outcomes /\ "user" \in Outcomes /\ k \in Calls /\ Op(k) = "shop"
    BY DEF Outcomes, ByOp
  <2> QED BY <2>1, <2>2
<1>3. k # c /\ result[k] # NONE /\ pc[k] = "done"
  BY <1>1, <1>2, NobodyAssumption DEF Outcomes, CartsOK, CartCallOK
<1>4. \A d \in Calls \ {c} : result'[d] = result[d] \/ result[d] # NONE
  BY <1>2, <1>3 DEF ClientOK
<1>5. CASE Done(c)
  <2>1. pc' = [pc EXCEPT ![c] = pc'[c]] /\ mem' = [mem EXCEPT ![c] = mem'[c]] /\ pc'[c] = "done"
    BY <1>5 DEF Done, Keep, Total
  <2>2. CartCallOK(c)'
    BY <1>1, <2>1 DEF CartCallOK, Shopping, Checking, Op
  <2> QED BY <1>1, <1>4, <2>1, <2>2, CartsStay
<1>6. CASE /\ result' = [result EXCEPT ![k] = "taken"] /\ carts[k] # NONE
           /\ Keep(c, [cart |-> k, was |-> carts[k], grant |-> NONE], "look")
  <2>1. /\ pc' = [pc EXCEPT ![c] = pc'[c]] /\ mem' = [mem EXCEPT ![c] = mem'[c]] /\ pc'[c] = "look"
        /\ mem'[c] = [cart |-> k, was |-> carts[k], grant |-> NONE] /\ pc'[k] = "done"
    BY <1>3, <1>6 DEF Keep, Total
  <2>2. result'[c] = NONE /\ carts[k] \in LocalCart /\ Op(k)' = "shop"
    BY <1>1, <1>2, <1>3, <1>6 DEF ClientOK, CartsOK, Op
  <2>4. mem'[c].cart = k /\ mem'[c].was = carts[k]
    BY <2>1
  <2>3. CartCallOK(c)'
    BY <2>1, <2>2, <2>4 DEF CartCallOK, Shopping
  <2> QED BY <1>1, <1>4, <2>1, <2>3, CartsStay
<1> QED BY <1>2, <1>5, <1>6

LEMMA OrderKeepsCarts ==
  ASSUME RequestsOK, InstamartOK, CartsOK, ClientOK, NEW c \in Calls, job' = job,
         \/ LookAtCart(c) \/ CheckTerms(c) \/ Checkout(c) \/ CheckoutUnlinked(c)
         \/ CheckoutDeclined(c) \/ InterpretCheckout(c) \/ ClassifyFailure(c)
  PROVE  CartsOK'
<1> Total
  BY DEF RequestsOK
<1>1. Op(c) = "order" /\ pc[c] # "done" /\ pc[c] \in Checking
  BY DEF LookAtCart, CheckTerms, Checkout, CheckoutUnlinked, CheckoutDeclined, InterpretCheckout,
     ClassifyFailure, At, Checking
<1>2. /\ mem[c].was \in LocalCart /\ mem[c].cart \in Calls /\ pc[mem[c].cart] = "done" /\ result[c] = NONE
      /\ Op(mem[c].cart) = "shop"
  BY <1>1 DEF CartsOK, CartCallOK
<1>3. CASE LookAtCart(c) \/ CheckTerms(c)
  <2>1. UNCHANGED <<carts, remote, orders>>
    BY <1>3 DEF LookAtCart, CheckTerms
  <2>2. Answers(c, "user") \/ (result' = result /\ \E l \in {"terms", "pay"} : Goto(c, l))
    BY <1>3 DEF LookAtCart, CheckTerms
  <2>3. \A l \in {"terms", "pay"} : l \notin Shopping /\ l # "fill" /\ l # "done"
    BY DEF Shopping
  <2> QED BY <1>1, <2>1, <2>2, <2>3, AnswersKeepCarts, GoingOnKeepsCarts, CartsStay
<1>4. CASE Checkout(c)
  <2>1. UNCHANGED <<carts, result>>
    BY <1>4 DEF Checkout
  <2>2. /\ remote' = remote \/ remote' = [remote EXCEPT !.items = {}]
        /\ \/ orders' = orders
           \/ orders' = orders \cup {[by |-> c, items |-> remote.items, lines |-> mem[c].was.lines]}
    BY <1>4 DEF Checkout
  <2>3. remote' \in CartData
    BY <2>2 DEF CartsOK, CartData
  <2>4. orders' \subseteq [by : Calls, items : SUBSET Items, lines : SUBSET Items]
    BY <1>2, <2>2 DEF CartsOK, CartData, LocalCart
  <2>5. mem[c] = [cart |-> mem[c].cart, was |-> mem[c].was, grant |-> mem[c].grant]
    BY <1>1 DEF InstamartOK, OrderCallOK
  <2>6. \E l \in {"accepted", "declined", "unknown"} : Keep(c, [mem[c] EXCEPT !.grant = Grant], l) \/ Goto(c, l)
    BY <1>4 DEF Checkout
  <2>7. /\ pc'[c] \in {"accepted", "declined", "unknown"}
        /\ mem'[c] = mem[c] \/ mem'[c] = [mem[c] EXCEPT !.grant = Grant]
        /\ \A d \in Calls \ {c} : pc'[d] = pc[d] /\ mem'[d] = mem[d]
    BY <2>6 DEF Keep, Goto, Total
  <2>8. mem'[c].was = mem[c].was /\ mem'[c].cart = mem[c].cart
    BY <2>5, <2>7
  <2>9. pc'[mem[c].cart] = "done"
    BY <1>1, <1>2, <2>7
  <2>10. CartCallOK(c)'
    <3>1. /\ mem'[c].was \in LocalCart /\ mem'[c].cart \in Calls /\ job'.op[mem'[c].cart] = "shop"
          /\ pc'[mem'[c].cart] = "done"
      <4>1. mem'[c].cart = mem[c].cart /\ job'.op[mem[c].cart] = "shop" /\ pc'[mem[c].cart] = "done"
        BY <1>2, <2>8, <2>9, job' = job DEF Op, CartsOK, CartCallOK
      <4> QED BY <1>2, <2>8, <4>1
    <3>2. pc'[c] \notin Shopping /\ pc'[c] # "fill" /\ result'[c] = NONE
      BY <1>2, <2>1, <2>7 DEF Shopping
    <3> QED BY <3>1, <3>2 DEF CartCallOK, Op
  <2> QED BY <1>1, <2>1, <2>3, <2>4, <2>7, <2>10, CartMoved DEF CartsOK
<1>5. CASE CheckoutUnlinked(c) \/ CheckoutDeclined(c) \/ ClassifyFailure(c)
  <2>1. UNCHANGED <<carts, remote, orders>> /\ \E r : Answers(c, r)
    BY <1>5 DEF CheckoutUnlinked, CheckoutDeclined, ClassifyFailure
  <2> QED BY <1>1, <2>1, AnswersKeepCarts, CartsStay
<1>6. CASE InterpretCheckout(c)
  <2>1. UNCHANGED <<remote, orders>> /\ (carts' = carts \/ carts' = [carts EXCEPT ![mem[c].cart] = NONE])
        /\ \E r : Answers(c, r)
    BY <1>6 DEF InterpretCheckout
  <2>2. mem[c].cart # c
    BY <1>1, <1>2
  <2>3. /\ carts' = [d \in Calls |-> carts'[d]] /\ carts'[c] = carts[c]
        /\ \A d \in Calls : carts'[d] = carts[d] \/ (carts'[d] = NONE /\ Idle(d))
    BY <1>2, <2>1, <2>2 DEF CartsOK, Idle
  <2>4. \A d \in Calls \ {c} : pc'[d] = pc[d] /\ mem'[d] = mem[d]
    BY <2>1 DEF Answers, Done, Keep, Total
  <2> QED BY <1>1, <2>1, <2>3, <2>4, AnswersKeepCarts, CartMoved DEF CartsOK
<1> QED BY <1>3, <1>4, <1>5, <1>6

LEMMA CutShortKeepsCarts ==
  ASSUME RequestsOK, InstamartOK, CartsOK, NEW c \in Calls, job' = job, Op(c) \in InstamartOps,
         UNCHANGED <<carts, remote, orders, result>>, AnswerLost(c) \/ Fails(c)
  PROVE  CartsOK'
<1> Total
  BY DEF RequestsOK
<1>1. pc[c] # "done" /\ result[c] = NONE /\ CartCallOK(c)
  BY DEF AnswerLost, Fails, At, Idle, CartsOK, CartCallOK
<1>2. CASE Fails(c)
  <2>1. pc' = [pc EXCEPT ![c] = pc'[c]] /\ mem' = [mem EXCEPT ![c] = mem'[c]] /\ pc'[c] = "done"
    BY <1>2 DEF Fails, Done, Keep, Total
  <2> QED BY <1>1, <2>1, CartsStay DEF CartCallOK, Shopping, Checking
<1>3. CASE AnswerLost(c)
  <2>1. pc[c] \in Checking
    BY <1>3 DEF AnswerLost, At, Checking
  <2>2. /\ pc' = [pc EXCEPT ![c] = pc'[c]] /\ mem' = [mem EXCEPT ![c] = mem'[c]] /\ pc'[c] = "unknown"
        /\ mem'[c] = mem[c]
    BY <1>3 DEF AnswerLost, Drops, Keep, Goto, Total
  <2>3. /\ mem'[c].was \in LocalCart /\ mem'[c].cart \in Calls /\ Op(mem[c].cart) = "shop"
        /\ pc'[mem'[c].cart] = "done"
    <3>1. /\ mem[c].was \in LocalCart /\ mem[c].cart \in Calls /\ Op(mem[c].cart) = "shop"
          /\ pc[mem[c].cart] = "done"
      BY <1>1, <2>1 DEF CartCallOK
    <3>2. \A d \in Calls \ {c} : pc'[d] = pc[d]
      BY <1>3 DEF AnswerLost, Drops, Keep, Goto, Total
    <3> QED BY <1>1, <2>2, <3>1, <3>2
  <2>4. CartCallOK(c)'
    BY <1>1, <2>2, <2>3 DEF CartCallOK, Shopping, Op
  <2> QED BY <1>1, <2>2, <2>4, CartsStay
<1> QED BY <1>2, <1>3

LEMMA CartsType == ASSUME RequestsOK, InstamartOK, CartsOK, ClientOK, job' = job, InstamartNext PROVE CartsOK'
<1>1. CASE \E c \in Calls : InstamartStep(c)
  BY <1>1, OutsideKeepsCarts, DiscoveryKeepsCarts, ExecutionKeepsCarts, OrderKeepsCarts DEF InstamartStep
<1>2. ASSUME NEW c \in Calls, AnswerLost(c) PROVE CartsOK'
  BY <1>2, CutShortKeepsCarts DEF AnswerLost, instamartVars, InstamartOps, At
<1>3. ASSUME NEW c \in Calls, Op(c) \in InstamartOps, Fails(c), UNCHANGED <<carts, remote, orders, result>>
      PROVE  CartsOK'
  BY <1>3, CutShortKeepsCarts
<1>4. ASSUME AppEdits \/ SessionEnds \/ Warm \/ Refresh, UNCHANGED requests PROVE CartsOK'
  <2>1. UNCHANGED <<carts, orders, result, pc, mem>>
    BY <1>4 DEF AppEdits, SessionEnds, Warm, Refresh, requests
  <2>2. remote' = remote \/ \E items \in SUBSET Items : remote' = [remote EXCEPT !.items = items]
    BY <1>4 DEF AppEdits, SessionEnds, Warm, Refresh
  <2>3. remote' \in CartData
    BY <2>2 DEF CartsOK, CartData
  <2> QED BY <2>1, <2>3 DEF CartsOK, CartCallOK, Op
<1> QED BY <1>1, <1>2, <1>3, <1>4 DEF InstamartNext

\* Another service's step moves no request that shops or orders.
LEMMA OthersKeepCarts ==
  ASSUME RequestsOK, CartsOK, job' = job, Stays(InstamartOps \ GrantOps, InstamartLabels), UNCHANGED instamartVars
  PROVE  CartsOK'
<1>1. UNCHANGED <<carts, remote, orders, result>>
  BY DEF instamartVars
<1>2. ASSUME NEW c \in Calls PROVE CartCallOK(c)'
  <2>1. CartCallOK(c)
    BY DEF CartsOK
  <2>2. ASSUME pc'[c] \in InstamartLabels PROVE pc'[c] = pc[c] /\ mem'[c] = mem[c]
    BY <2>2 DEF Stays
  <2>3. ASSUME NEW k \in Calls, Op(k) = "shop" PROVE pc'[k] = pc[k]
    BY <2>3 DEF Stays, InstamartOps, GrantOps
  <2>4. ASSUME result[c] # NONE PROVE pc'[c] = pc[c]
    BY <2>1, <2>4 DEF CartCallOK, Stays, InstamartOps, GrantOps
  <2> QED BY <1>1, <2>1, <2>2, <2>3, <2>4 DEF CartCallOK, Shopping, Checking, InstamartLabels, Op
<1> QED BY <1>1, <1>2 DEF CartsOK

\* Policy sets.  A number is no higher than there are versions of its scope.
NumbersOK ==
  \A c \in Calls :
    /\ pc[c] \in PolicyLabels => mem[c] \in 1 .. Cardinality(Versions(Op(c))) + 1
    /\ sets[c] # NONE => sets[c].version \in 1 .. Cardinality(Versions(Op(c)))

LEMMA VersionsAreCalls ==
  ASSUME NEW scope
  PROVE  IsFiniteSet(Versions(scope)) /\ Cardinality(Versions(scope)) \in Nat
         /\ Cardinality(Versions(scope)) <= Cardinality(Calls)
<1>1. Versions(scope) \subseteq Calls
  BY DEF Versions
<1> QED BY <1>1, CallsAssumption, FS_Subset, FS_CardinalityType

\* Rows stay, so there are never fewer versions than a request has seen.
LEMMA NumbersKept ==
  ASSUME NumbersOK, job' = job,
         \A s \in Calls : sets[s] # NONE =>
           sets'[s] # NONE /\ sets'[s].scope = sets[s].scope /\ sets'[s].version = sets[s].version,
         \A s \in Calls : pc'[s] \in PolicyLabels => mem'[s] \in 1 .. Cardinality(Versions(Op(s))) + 1,
         \A s \in Calls : sets'[s] # NONE /\ sets[s] = NONE =>
           sets'[s].version \in 1 .. Cardinality(Versions(Op(s))')
  PROVE  NumbersOK'
<1>1. ASSUME NEW s \in Calls
      PROVE  /\ Cardinality(Versions(Op(s))) \in Nat /\ Cardinality(Versions(Op(s))') \in Nat
             /\ Cardinality(Versions(Op(s))) <= Cardinality(Versions(Op(s))')
  <2>1. Versions(Op(s)) \subseteq Versions(Op(s))' /\ Versions(Op(s))' \subseteq Calls
    BY DEF Versions, Op
  <2> QED BY <2>1, CallsAssumption, FS_Subset, FS_CardinalityType
<1>2. ASSUME NEW s \in Calls, pc'[s] \in PolicyLabels
      PROVE  mem'[s] \in 1 .. Cardinality(Versions(Op(s))') + 1
  <2>1. mem'[s] \in 1 .. Cardinality(Versions(Op(s))) + 1
    BY <1>2
  <2> QED BY <1>1, <2>1
<1>3. ASSUME NEW s \in Calls, sets'[s] # NONE PROVE sets'[s].version \in 1 .. Cardinality(Versions(Op(s))')
  <2>1. CASE sets[s] = NONE
    BY <1>3, <2>1
  <2>2. CASE sets[s] # NONE
    <3>1. sets'[s].version \in 1 .. Cardinality(Versions(Op(s)))
      BY <2>2 DEF NumbersOK
    <3> QED BY <1>1, <3>1
  <2> QED BY <2>1, <2>2
<1> QED BY <1>2, <1>3 DEF NumbersOK, Op, Versions

LEMMA NumbersStay == ASSUME RequestsOK, PoliciesOK, NumbersOK, [Next]_vars PROVE NumbersOK'
<1> Total /\ job' = job
  BY OthersStay DEF RequestsOK
<1>1. CASE \/ Stays(Scopes, PolicyLabels) /\ UNCHANGED policyVars
           \/ \E c \in Calls : Op(c) \in Scopes /\ Fails(c) /\ UNCHANGED policyVars
  <2>1. sets' = sets /\ \A s \in Calls : pc'[s] \in PolicyLabels => pc'[s] = pc[s] /\ mem'[s] = mem[s]
    BY <1>1 DEF Stays, Fails, Done, Keep, Total, policyVars, PolicyLabels
  <2> QED BY <2>1, NumbersKept DEF NumbersOK
<1>2. ASSUME NEW c \in Calls, SetPolicy(c) PROVE NumbersOK'
  <2> DEFINE active == GetActive(Op(c))
  <2>1. /\ sets' = sets /\ mem'[c] = NextVersion(active)
        /\ \A s \in Calls \ {c} : pc'[s] = pc[s] /\ mem'[s] = mem[s]
    BY <1>2 DEF SetPolicy, Keep, Total
  <2>2. ASSUME NEW s \in active PROVE sets[s].version \in 1 .. Cardinality(Versions(Op(c)))
    <3>1. s \in Calls /\ sets[s] # NONE /\ sets[s].scope = Op(c)
      BY DEF GetActive, Live, Versions
    <3>2. Op(s) = Op(c)
      BY <3>1 DEF PoliciesOK, PolicyCallOK
    <3> QED BY <3>1, <3>2 DEF NumbersOK
  <2>3. active # {} => (CHOOSE s \in active : TRUE) \in active
    OBVIOUS
  <2>4. Cardinality(Versions(Op(c))) \in Nat
    BY VersionsAreCalls
  <2> HIDE DEF active
  <2>5. NextVersion(active) \in 1 .. Cardinality(Versions(Op(c))) + 1
    BY <2>2, <2>3, <2>4 DEF NextVersion
  <2> QED BY <2>1, <2>5, NumbersKept DEF NumbersOK
<1>3. ASSUME NEW c \in Calls, SupersedeActive(c) PROVE NumbersOK'
  <2>1. /\ sets' = Superseded(Op(c)) /\ mem' = mem /\ pc[c] \in PolicyLabels
        /\ \A s \in Calls \ {c} : pc'[s] = pc[s]
    BY <1>3 DEF SupersedeActive, Goto, At, Total, PolicyLabels
  <2>2. ASSUME NEW s \in Calls
        PROVE  /\ sets[s] = NONE => sets'[s] = NONE
               /\ sets[s] # NONE => sets'[s] # NONE /\ sets'[s].scope = sets[s].scope
                                    /\ sets'[s].version = sets[s].version
    <3>1. sets'[s] = IF s \in Live(Op(c)) THEN [sets[s] EXCEPT !.live = FALSE] ELSE sets[s]
      BY <2>1 DEF Superseded
    <3>2. sets[s] # NONE => sets[s] \in PolicySet
      BY DEF PoliciesOK, PolicyCallOK
    <3>3. ASSUME sets[s] # NONE
          PROVE  /\ [sets[s] EXCEPT !.live = FALSE] \in PolicySet
                 /\ [sets[s] EXCEPT !.live = FALSE].scope = sets[s].scope
                 /\ [sets[s] EXCEPT !.live = FALSE].version = sets[s].version
      BY <3>2, <3>3 DEF PolicySet
    <3>4. sets[s] = NONE => s \notin Live(Op(c))
      BY DEF Live, Versions
    <3> QED BY <3>1, <3>3, <3>4, NoPolicySetAssumption
  <2> QED BY <2>1, <2>2, NumbersKept DEF NumbersOK
<1>4. ASSUME NEW c \in Calls, CreatePolicySet(c) PROVE NumbersOK'
  <2> DEFINE row == [scope |-> Op(c), version |-> mem[c], live |-> TRUE]
  <2>1. /\ sets' = [sets EXCEPT ![c] = row] /\ Op(c) \in Scopes
        /\ pc'[c] = "done" /\ pc[c] \in PolicyLabels
        /\ \A s \in Calls \ {c} : pc'[s] = pc[s] /\ mem'[s] = mem[s]
    BY <1>4 DEF CreatePolicySet, Done, Keep, At, Total, PolicyLabels
  <2>2. /\ mem[c] \in 1 .. Cardinality(Versions(Op(c))) + 1 /\ sets[c] = NONE
        /\ row.scope = Op(c) /\ row.version = mem[c] /\ sets = [s \in Calls |-> sets[s]]
    BY <2>1 DEF NumbersOK, PoliciesOK, PolicyCallOK, PolicyLabels
  <2>3. row # NONE
    <3>1. row \in PolicySet
      BY <2>1, <2>2, VersionsAreCalls DEF PolicySet
    <3> QED BY <3>1, NoPolicySetAssumption
  <2> HIDE DEF row
  <2>4. sets'[c] = row /\ \A s \in Calls \ {c} : sets'[s] = sets[s]
    BY <2>1, <2>2
  <2>5. Versions(Op(c))' = Versions(Op(c)) \cup {c} /\ c \notin Versions(Op(c))
    BY <2>2, <2>3, <2>4 DEF Versions, Op
  <2>6. Cardinality(Versions(Op(c))') = Cardinality(Versions(Op(c))) + 1
    BY <2>5, VersionsAreCalls, FS_AddElement
  <2>7. \A s \in Calls : pc'[s] \in PolicyLabels => mem'[s] \in 1 .. Cardinality(Versions(Op(s))) + 1
    BY <2>1 DEF NumbersOK, PolicyLabels
  <2>8. \A s \in Calls : sets'[s] # NONE /\ sets[s] = NONE =>
          sets'[s].version \in 1 .. Cardinality(Versions(Op(s))')
    BY <2>2, <2>4, <2>6
  <2> QED BY <2>2, <2>4, <2>7, <2>8, NumbersKept
<1> QED BY <1>1, <1>2, <1>3, <1>4, OthersStay DEF PolicySetsNext

\* The limiter.  A counter has counted no more than the requests that are past it.
Ahead(c, k) ==
  \/ pc[c] = "idle"
  \/ pc[c] = "count" /\ (mem[c] = k \/ (k = "caller" /\ mem[c] = "auth"))
  \/ pc[c] = "expire" /\ k = "caller" /\ mem[c] = "auth"
Past(k) == {c \in Calls : ~Ahead(c, k)}

CountsOK == \A k \in Keys : counters[k].count <= Cardinality(Past(k)) /\ admitted[k] \subseteq Calls
StuckOK == stuck \subseteq Keys

LEMMA CountsKept ==
  ASSUME CountsOK, LimiterOK, LimiterOK',
         \A k \in Keys : admitted'[k] \subseteq Calls,
         \A c \in Calls, k \in Keys : Ahead(c, k)' => Ahead(c, k),
         \A k \in Keys : \/ counters'[k].count = counters[k].count
                         \/ counters'[k].count = 0
                         \/ /\ counters'[k].count = counters[k].count + 1
                            /\ \E c \in Calls : Ahead(c, k) /\ ~Ahead(c, k)'
  PROVE  CountsOK'
<1> SUFFICES ASSUME NEW k \in Keys PROVE counters'[k].count <= Cardinality(Past(k)')
  BY DEF CountsOK
<1>1. /\ Past(k) \subseteq Past(k)'
      /\ IsFiniteSet(Past(k)) /\ IsFiniteSet(Past(k)')
      /\ Cardinality(Past(k)) \in Nat /\ Cardinality(Past(k)') \in Nat
  <2>1. Past(k) \subseteq Past(k)' /\ Past(k)' \subseteq Calls
    BY DEF Past
  <2> QED BY <2>1, CallsAssumption, FS_Subset, FS_CardinalityType
<1>2. Cardinality(Past(k)) <= Cardinality(Past(k)')
  BY <1>1, FS_Subset
<1>3. counters[k].count \in Nat /\ counters[k].count <= Cardinality(Past(k))
  BY DEF CountsOK, LimiterOK, WindowOK
<1>4. ASSUME NEW c \in Calls, Ahead(c, k), ~Ahead(c, k)' PROVE Cardinality(Past(k)) + 1 <= Cardinality(Past(k)')
  <2>1. Past(k) \cup {c} \subseteq Past(k)' /\ c \notin Past(k)
    BY <1>1, <1>4 DEF Past
  <2>2. Cardinality(Past(k) \cup {c}) = Cardinality(Past(k)) + 1
    BY <1>1, <2>1, FS_AddElement
  <2> QED BY <1>1, <2>1, <2>2, FS_Subset
<1> QED BY <1>1, <1>2, <1>3, <1>4

LEMMA CountsStay ==
  ASSUME RequestsOK, LimiterOK, LimiterOK', CountsOK, StuckOK, [Next]_vars PROVE CountsOK' /\ StuckOK'
<1> Total
  BY DEF RequestsOK
<1> Keys = {"auth", "caller"}
  BY DEF Keys
<1>2. ASSUME NEW c \in Calls, ArriveAtLimiter(c) PROVE CountsOK' /\ StuckOK'
  <2>1. \A d \in Calls, k \in Keys : Ahead(d, k)' => Ahead(d, k)
    BY <1>2 DEF ArriveAtLimiter, At, Keep, Total, Ahead
  <2>2. UNCHANGED <<counters, admitted, stuck>>
    BY <1>2 DEF ArriveAtLimiter, limiterVars
  <2> QED BY <2>1, <2>2, CountsKept DEF CountsOK, StuckOK
<1>3. ASSUME NEW c \in Calls, Allow(c) PROVE CountsOK' /\ StuckOK'
  <2>1. PICK key \in Keys : key = mem[c]
    BY <1>3 DEF LimiterOK, LimiterLabels, Allow
  <2> DEFINE count == counters[key].count + 1
  <2>2. /\ counters' = [counters EXCEPT ![key].count = count]
        /\ admitted' = IF Over(count, key) THEN admitted ELSE [admitted EXCEPT ![key] = @ \cup {c}]
        /\ Goto(c, "expire") \/ Done(c) \/ NextKey(c, key)
        /\ stuck' = stuck /\ pc[c] = "count"
    BY <1>3, <2>1 DEF Allow
  <2>3. WindowOK(key) /\ counters = [k \in Keys |-> counters[k]] /\ admitted = [k \in Keys |-> admitted[k]]
    BY DEF LimiterOK
  <2> HIDE DEF count
  <2>4. /\ counters'[key].count = count /\ \A k \in Keys \ {key} : counters'[k] = counters[k]
        /\ \A k \in Keys : admitted'[k] \subseteq admitted[k] \cup {c}
    BY <2>2, <2>3 DEF WindowOK
  <2>5. /\ \A d \in Calls \ {c} : pc'[d] = pc[d] /\ mem'[d] = mem[d]
        /\ \/ pc'[c] = "expire" /\ mem'[c] = key
           \/ pc'[c] = "done"
           \/ key = "auth" /\ pc'[c] = "count" /\ mem'[c] = "caller"
    BY <2>1, <2>2 DEF Goto, Done, NextKey, Keep, Total
  <2>6. Ahead(c, key) /\ ~Ahead(c, key)' /\ \A k \in Keys : Ahead(c, k)' => Ahead(c, k)
    BY <2>1, <2>2, <2>5 DEF Ahead
  <2>7. \A d \in Calls, k \in Keys : Ahead(d, k)' => Ahead(d, k)
    BY <2>5, <2>6 DEF Ahead
  <2>8. \A k \in Keys : admitted'[k] \subseteq Calls
    BY <2>4 DEF CountsOK
  <2>9. \A k \in Keys : \/ counters'[k].count = counters[k].count
                        \/ /\ counters'[k].count = counters[k].count + 1
                           /\ \E d \in Calls : Ahead(d, k) /\ ~Ahead(d, k)'
    BY <2>4, <2>6 DEF count
  <2> QED BY <2>2, <2>7, <2>8, <2>9, CountsKept DEF StuckOK
<1>4. ASSUME NEW c \in Calls, SetExpiry(c) PROVE CountsOK' /\ StuckOK'
  <2>1. PICK key \in Keys : key = mem[c]
    BY <1>4 DEF LimiterOK, LimiterLabels, SetExpiry
  <2>2. /\ counters' = [counters EXCEPT ![key].expires = TRUE] /\ NextKey(c, key)
        /\ UNCHANGED <<admitted, stuck>> /\ pc[c] = "expire"
    BY <1>4, <2>1 DEF SetExpiry
  <2>3. WindowOK(key) /\ counters = [k \in Keys |-> counters[k]]
    BY DEF LimiterOK
  <2>4. \A k \in Keys : counters'[k].count = counters[k].count
    BY <2>2, <2>3 DEF WindowOK
  <2>5. \A d \in Calls, k \in Keys : Ahead(d, k)' => Ahead(d, k)
    BY <2>1, <2>2 DEF NextKey, Done, Keep, Total, Ahead
  <2> QED BY <2>2, <2>4, <2>5, CountsKept DEF CountsOK, StuckOK
<1>5. ASSUME NEW c \in Calls, Unanswered(c),
             \A d \in Calls \ {c} : pc'[d] = pc[d] /\ mem'[d] = mem[d],
             pc'[c] = "done" \/ (mem[c] = "auth" /\ pc'[c] = "count" /\ mem'[c] = "caller")
      PROVE  CountsOK' /\ StuckOK'
  <2>1. PICK key \in Keys : key = mem[c]
    BY <1>5 DEF LimiterOK, LimiterLabels, Unanswered
  <2>2. /\ admitted' = admitted /\ stuck' \subseteq stuck \cup {key}
        /\ \/ counters' = counters
           \/ pc[c] = "count" /\ counters' = [counters EXCEPT ![key].count = @ + 1]
           \/ counters' = [counters EXCEPT ![key].expires = TRUE]
    BY <1>5, <2>1 DEF Unanswered
  <2>3. WindowOK(key) /\ counters = [k \in Keys |-> counters[k]]
    BY DEF LimiterOK
  <2>4. \A d \in Calls, k \in Keys : Ahead(d, k)' => Ahead(d, k)
    BY <1>5, <2>1 DEF Ahead, Unanswered
  <2>5. pc[c] = "count" => Ahead(c, key) /\ ~Ahead(c, key)'
    BY <1>5, <2>1 DEF Ahead
  <2>6. \A k \in Keys : \/ counters'[k].count = counters[k].count
                        \/ /\ counters'[k].count = counters[k].count + 1
                           /\ \E d \in Calls : Ahead(d, k) /\ ~Ahead(d, k)'
    BY <2>2, <2>3, <2>5 DEF WindowOK
  <2> QED BY <2>2, <2>4, <2>6, CountsKept DEF CountsOK, StuckOK
<1>6. ASSUME NEW c \in Calls, FailOpen(c) \/ DiesInLimiter(c) PROVE CountsOK' /\ StuckOK'
  BY <1>5, <1>6 DEF FailOpen, DiesInLimiter, Drops, Fails, Done, Keep, Total
<1>7. ASSUME NEW key \in Keys, WindowPasses(key) PROVE CountsOK' /\ StuckOK'
  <2>1. /\ counters' = [counters EXCEPT ![key] = [count |-> 0, expires |-> FALSE]]
        /\ admitted' = [admitted EXCEPT ![key] = {}] /\ UNCHANGED <<pc, mem, stuck>>
    BY <1>7 DEF WindowPasses, requests
  <2>2. /\ \A k \in Keys : counters'[k].count \in {0, counters[k].count}
        /\ \A k \in Keys : admitted'[k] \subseteq admitted[k]
    BY <2>1 DEF LimiterOK
  <2>3. \A c \in Calls, k \in Keys : Ahead(c, k)' => Ahead(c, k)
    BY <2>1 DEF Ahead
  <2> QED BY <2>1, <2>2, <2>3, CountsKept DEF CountsOK, StuckOK
<1>8. CASE Stays(LimiterOps, LimiterLabels) /\ UNCHANGED limiterVars
  <2>1. \A c \in Calls, k \in Keys : Ahead(c, k)' => Ahead(c, k)
    BY <1>8 DEF Stays, Ahead, LimiterLabels
  <2> QED BY <1>8, <2>1, CountsKept DEF CountsOK, StuckOK, limiterVars
<1> QED BY <1>2, <1>3, <1>4, <1>5, <1>6, <1>7, <1>8, OthersStay DEF RateLimitNext

-------------------------------------------------------------------------------
(* Every table of the process at once.                                         *)

TypesOK ==
  /\ cut \subseteq Calls
  /\ CodeGrantsTypeOK /\ AccountRowsOK /\ ProfileRowsOK /\ TenantRowsOK
  /\ NumbersOK /\ CartsOK /\ ClientOK /\ CountsOK /\ StuckOK /\ WebhooksTypeOK

LEMMA InitTypes == Init => TypesOK
<1> SUFFICES ASSUME Init PROVE TypesOK
  OBVIOUS
<1>1. /\ \A c \in Calls : pc[c] \in {"done", "idle"}
      /\ cut = {}
  BY DEF Init, RequestsInit
<1>2. CodeGrantsTypeOK /\ AccountRowsOK /\ ProfileRowsOK
  BY DEF Init, CodeGrantsInit, AccountsInit, ProfilesInit, CodeGrantsTypeOK, AccountRowsOK, ProfileRowsOK,
     CardStates
<1>3. TenantRowsOK /\ WebhooksTypeOK
  BY <1>1 DEF Init, TenantsInit, WebhooksInit, TenantRowsOK, MinterOK, WebhooksTypeOK
<1>4. NumbersOK
  BY <1>1 DEF Init, PolicySetsInit, NumbersOK, PolicyLabels
<1>5. CartsOK /\ ClientOK
  <2> DEFINE any == CHOOSE a \in Addresses : TRUE
  <2>1. any \in Addresses
    BY AddressAssumption
  <2>2. /\ carts = [c \in Calls |-> NONE] /\ result = [c \in Calls |-> NONE]
        /\ link = [grant |-> First, address |-> any] /\ remote = [address |-> link.address, items |-> {}]
        /\ holder = NONE /\ session = NONE /\ authFailed = FALSE /\ ready = TRUE
        /\ dead = {} /\ orders = {} /\ edited = {}
    BY DEF Init, InstamartInit
  <2> HIDE DEF any
  <2>3. remote \in CartData /\ link \in Links
    BY <2>1, <2>2 DEF CartData, Links
  <2>4. CartsOK
    BY <1>1, <2>2, <2>3 DEF CartsOK, CartCallOK, Shopping, Checking
  <2>5. ClientOK
    BY <2>2, <2>3 DEF ClientOK
  <2> QED BY <2>4, <2>5
<1>6. CountsOK /\ StuckOK
  <2>1. \A k \in Keys : counters[k].count = 0 /\ admitted[k] = {}
    BY DEF Init, RateLimitInit
  <2>2. \A k \in Keys : Past(k) \subseteq Calls
    BY DEF Past
  <2>3. \A k \in Keys : Cardinality(Past(k)) \in Nat
    BY <2>2, CallsAssumption, FS_Subset, FS_CardinalityType
  <2> QED BY <2>1, <2>3 DEF Init, RateLimitInit, CountsOK, StuckOK
<1> QED BY <1>1, <1>2, <1>3, <1>4, <1>5, <1>6 DEF TypesOK

LEMMA TypesStay ==
  ASSUME RequestsOK, TypesOK, GrantsOK, ProfileOK, TokensOK, PoliciesOK, InstamartOK, LimiterOK, LimiterOK',
         HooksOK, [Next]_vars
  PROVE  TypesOK'
<1>1. cut' \subseteq Calls /\ AccountRowsOK' /\ NumbersOK' /\ CountsOK' /\ StuckOK'
  BY CutsAreCalls, AccountTypes, NumbersStay, CountsStay DEF TypesOK
<1>2. CodeGrantsTypeOK'
  BY OthersStay, GrantTypes DEF TypesOK, CodeGrantsTypeOK, grantVars
<1>3. ProfileRowsOK'
  BY OthersStay, ProfileTypes DEF TypesOK, ProfileRowsOK, profileVars, profileRows, cardRows
<1>4. TenantRowsOK'
  <2>1. CASE TenantsNext
    BY <2>1, TenantTypes DEF TypesOK
  <2>2. CASE Stays(TenantOps, TenantLabels) /\ UNCHANGED tenantVars
    BY <2>2 DEF TypesOK, TenantRowsOK, MinterOK, Stays, TenantLabels, tenantVars, tenantRows
  <2> QED BY <2>1, <2>2, OthersStay
<1>5. CartsOK' /\ ClientOK'
  <2>1. CASE InstamartNext
    BY <2>1, CartsType, ClientTypes, OthersStay DEF TypesOK
  <2>2. CASE Stays(InstamartOps \ GrantOps, InstamartLabels) /\ UNCHANGED instamartVars
    <3>1. CartsOK'
      BY <2>2, OthersKeepCarts, OthersStay DEF TypesOK
    <3>2. ClientOK'
      BY <2>2 DEF TypesOK, ClientOK, instamartVars, connection
    <3> QED BY <3>1, <3>2
  <2> QED BY <2>1, <2>2, OthersStay
<1>6. WebhooksTypeOK'
  BY OthersStay, HookTypes DEF TypesOK, WebhooksTypeOK, hookVars
<1> QED BY <1>1, <1>2, <1>3, <1>4, <1>5, <1>6 DEF TypesOK

\* Every table of every service holds values the code gives it, and no version number or
\* counter is past the number of requests, however the services' requests interleave.
THEOREM ServiceTypesHold == Spec => []ServicesTypeOK
<1>1. ASSUME RequestsOK, TypesOK, BillingOK, NamesOK, ProfileOK, CardsOK, SessionsOK, TokensOK, PoliciesOK,
             InstamartOK, LimiterOK, SearchOK
      PROVE  ServicesTypeOK
  <2>1. BillingTypeOK /\ SearchTypeOK
    BY <1>1, SearchTypes DEF BillingOK
  <2>2. CodeGrantsTypeOK /\ WebhooksTypeOK /\ cut \subseteq Calls
    BY <1>1 DEF TypesOK
  <2>3. AccountsTypeOK
    BY <1>1 DEF TypesOK, AccountRowsOK, NamesOK, RowOK, AccountsTypeOK
  <2>4. ProfilesTypeOK
    BY <1>1 DEF TypesOK, ProfileRowsOK, ProfileOK, ProfilesTypeOK
  <2>5. TenantsTypeOK
    BY <1>1 DEF TypesOK, TenantRowsOK, TokensOK, TokenOK, BearerOK, TenantsTypeOK
  <2>6. PolicySetsTypeOK
    <3>1. ASSUME NEW s \in Calls, sets[s] # NONE
          PROVE  sets[s] \in PolicySet /\ sets[s].version \in 1 .. Cardinality(Calls)
      <4>1. sets[s].version \in 1 .. Cardinality(Versions(Op(s)))
        BY <1>1, <3>1 DEF TypesOK, NumbersOK
      <4>2. Cardinality(Calls) \in Nat
        BY CallsAssumption, FS_CardinalityType
      <4>3. sets[s] \in PolicySet
        BY <1>1, <3>1 DEF PoliciesOK, PolicyCallOK
      <4> QED BY <4>1, <4>2, <4>3, VersionsAreCalls
    <3>2. older \in [Calls -> SUBSET Calls]
      BY <1>1 DEF PoliciesOK, PolicyCallOK, Versions
    <3> QED BY <3>1, <3>2 DEF PolicySetsTypeOK
  <2>7. InstamartTypeOK
    BY <1>1 DEF TypesOK, CartsOK, ClientOK, InstamartTypeOK
  <2>8. RateLimitTypeOK
    <3>1. ASSUME NEW k \in Keys PROVE counters[k] \in [count : 0 .. Cardinality(Calls), expires : BOOLEAN]
      <4>1. Past(k) \subseteq Calls
        BY DEF Past
      <4>2. Cardinality(Past(k)) <= Cardinality(Calls) /\ Cardinality(Past(k)) \in Nat /\ Cardinality(Calls) \in Nat
        BY <4>1, CallsAssumption, FS_Subset, FS_CardinalityType
      <4>3. counters[k] \in [count : Nat, expires : BOOLEAN] /\ counters[k].count <= Cardinality(Past(k))
        BY <1>1 DEF TypesOK, CountsOK, LimiterOK, WindowOK
      <4>4. counters[k] = [count |-> counters[k].count, expires |-> counters[k].expires]
            /\ counters[k].count \in 0 .. Cardinality(Calls) /\ counters[k].expires \in BOOLEAN
        BY <4>2, <4>3
      <4> QED BY <4>4
    <3>2. admitted \in [Keys -> SUBSET Calls] /\ stuck \subseteq Keys
      BY <1>1 DEF TypesOK, CountsOK, StuckOK, LimiterOK
    <3>3. counters \in [Keys -> [count : 0 .. Cardinality(Calls), expires : BOOLEAN]]
      BY <1>1, <3>1 DEF LimiterOK
    <3> QED BY <3>2, <3>3 DEF RateLimitTypeOK
  <2> QED BY <2>1, <2>2, <2>3, <2>4, <2>5, <2>6, <2>7, <2>8 DEF ServicesTypeOK
<1>2. Spec => []TypesOK
  BY InitTypes, TypesStay, RequestsAreSorted, GrantsHold, RecordsHold, SessionsHold, PoliciesHold,
     InstamartHolds, LimiterHolds, HooksHold, PTL DEF Spec
<1> QED BY <1>1, <1>2, RequestsAreSorted, BillingHolds, NamesHold, RecordsHold, SessionsHold, PoliciesHold,
           InstamartHolds, LimiterHolds, SearchHolds, PTL
===============================================================================
