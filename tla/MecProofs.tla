---------------------------- MODULE MecProofs ----------------------------
(***************************************************************************)
(* Proofs about the life cycle of MEC applications (module Mec), for any   *)
(* number of device applications, hosts, descriptors and requests.         *)
(*                                                                         *)
(* The state falls into three parts, and so does the inductive invariant.  *)
(*   - A VIM's counters, resources and gates are those of the applications *)
(*     in its map (Counts, Gates): each call of the VIM preserves this,    *)
(*     whoever makes it.                                                   *)
(*   - A context stands for one application of one host (OneToOne): the    *)
(*     orchestrator changes both maps in one call or neither.              *)
(*   - A device application has one thing under way (Conversation), and    *)
(*     who has a context was not told that it is gone (Known).             *)
(***************************************************************************)
EXTENDS Mec, FiniteSetTheorems, SequenceTheorems, WellFoundedInduction, TLAPS

MecApps == [app : AppDIds, gate : Nat]
MecAppMaps == UNION {[ids -> MecApps] : ids \in SUBSET Nat}
Vims == [mecAppMap : MecAppMaps, currentMEApps : Nat, allocated : Int,
         freeGates : Seq(Nat)]
Contexts == [app : AppDIds, ueAppID : Nat, host : Hosts]

Requests == {Nothing} \union [kind : {"GET"}, app : AppDIds]
            \union [kind : {"POST"}, app : AppDIds, hasAppDId : BOOLEAN, ueAppID : Nat]
            \union [kind : {"DELETE"}, contextId : Nat]
Responses == {Nothing} \union [kind : {"200"}, listed : BOOLEAN]
             \union [kind : {"201"}, contextId : Nat]
             \union [kind : {"204", "500"}]
MeoMsgs == {Nothing}
           \union [kind : {"CREATE"}, success : BOOLEAN, contextId : Nat]
           \union [kind : {"DELETE"}, success : BOOLEAN]

DevicesOK == /\ appState \in [DeviceApps ->
                  {"IDLE", "START", "CREATING", "APPCREATED", "DELETING"}]
             /\ ueApp \in [DeviceApps -> {"selfStart", "selfStop", "stopped"}]
             /\ deviceAppIdCounter \in [DeviceApps -> Nat]
             /\ appContextUri \in [DeviceApps -> Nat]
             /\ request \in [DeviceApps -> Requests]
             /\ response \in [DeviceApps -> Responses]
             /\ meoMsg \in [DeviceApps -> MeoMsgs]

MeoOK == /\ onboarded \in SUBSET AppDIds
         /\ contextIdCounter \in Nat
         /\ DOMAIN meAppMap \in SUBSET Nat
         /\ meAppMap \in [DOMAIN meAppMap -> Contexts \union {NoEntry}]
         /\ vim \in [Hosts -> Vims]
         /\ failed \in BOOLEAN

TypeInv == DevicesOK /\ MeoOK

-----------------------------------------------------------------------------
(* The parts of the inductive invariant.                                   *)

(* A unit of the resources for each unit an application of m needs: the    *)
(* resources in use are a number of elements, and not a sum.               *)
Units(m, S) == {u \in S \X Nat : 1 <= u[2] /\ u[2] <= Cost[m[u[1]].app]}

Counts(v) == LET ids == DOMAIN v.mecAppMap
             IN /\ IsFiniteSet(ids)
                /\ v.currentMEApps = Cardinality(ids)
                /\ v.allocated = Cardinality(Units(v.mecAppMap, ids))

Real(m) == {id \in DOMAIN m : m[id].app \notin Emulated}
GateSet(q) == {q[i] : i \in DOMAIN q}
GatesOf(m) == {m[id].gate : id \in Real(m)}
Gates(v) == /\ Len(v.freeGates) + Cardinality(Real(v.mecAppMap)) = MaxMecApps
            /\ GateSet(v.freeGates) \union GatesOf(v.mecAppMap) = 1..MaxMecApps

AllCounts == \A h \in Hosts : Counts(vim[h])
AllGates == \A h \in Hosts : Gates(vim[h])

(* Contexts and applications, without Cardinality.                         *)
ContextHasApp ==
  \A c \in DOMAIN meAppMap :
    /\ c < contextIdCounter
    /\ meAppMap[c] \in Contexts
    /\ meAppMap[c].ueAppID \in DOMAIN vim[meAppMap[c].host].mecAppMap
    /\ vim[meAppMap[c].host].mecAppMap[meAppMap[c].ueAppID].app = meAppMap[c].app
AppHasContext ==
  \A h \in Hosts : \A id \in DOMAIN vim[h].mecAppMap :
    \E c \in DOMAIN meAppMap : meAppMap[c].host = h /\ meAppMap[c].ueAppID = id
OneContext ==
  \A c, e \in DOMAIN meAppMap :
    (meAppMap[c].host = meAppMap[e].host /\ meAppMap[c].ueAppID = meAppMap[e].ueAppID)
      => c = e
OneToOne == ContextHasApp /\ AppHasContext /\ OneContext

(* A device application has one request, delayed message or response under *)
(* way, the one its state waits for, and none when it waits for none; only *)
(* the answer to a POST may get lost.                                      *)
Talk(d, asked, scheduled, answered) ==
  request[d].kind = asked /\ meoMsg[d].kind = scheduled /\ response[d].kind = answered
Waits(d) ==
  /\ appState[d] \in {"IDLE", "APPCREATED"} => Talk(d, "none", "none", "none")
  /\ appState[d] = "START" => \/ Talk(d, "GET", "none", "none")
                              \/ Talk(d, "none", "none", "200")
  /\ appState[d] = "CREATING" => \/ Talk(d, "POST", "none", "none")
                                 \/ Talk(d, "none", "CREATE", "none")
                                 \/ Talk(d, "none", "none", "201")
                                 \/ Talk(d, "none", "none", "500")
                                 \/ Talk(d, "none", "none", "none")
  /\ appState[d] = "DELETING" => \/ Talk(d, "DELETE", "none", "none")
                                 \/ Talk(d, "none", "DELETE", "none")
                                 \/ Talk(d, "none", "none", "204")
                                 \/ Talk(d, "none", "none", "500")
  /\ request[d].kind = "DELETE" => request[d].contextId = appContextUri[d]
Conversation == ~failed => \A d \in DeviceApps : Waits(d)

(* Who has a context or is about to be told of it, and no success of its   *)
(* deletion is on the way.                                                 *)
Told(d) == response[d].kind = "204" \/ (meoMsg[d].kind = "DELETE" /\ meoMsg[d].success)
Holds(d, c) ==
  \/ appState[d] = "APPCREATED" /\ appContextUri[d] = c
  \/ appState[d] = "DELETING" /\ appContextUri[d] = c /\ ~Told(d)
  \/ /\ appState[d] = "CREATING"
     /\ \/ meoMsg[d].kind = "CREATE" /\ meoMsg[d].success /\ meoMsg[d].contextId = c
        \/ response[d].kind = "201" /\ response[d].contextId = c
Known == \A c \in DOMAIN meAppMap : \E d \in DeviceApps : Holds(d, c)

-----------------------------------------------------------------------------
(* Sums over finite sets.                                                  *)

LEMMA LeastNumber ==
  ASSUME NEW S \in SUBSET Nat, S # {}
  PROVE  \E n \in S : \A k \in S : n <= k
<1>1. PICK n \in S : \A k \in S : ~(<<k, n>> \in OpToRel(<, Nat))
  BY NatLessThanWellFounded, WFMin
<1>2. \A k \in S : ~(k < n)
  BY <1>1 DEF OpToRel
<1> QED BY <1>2

\* A family of subsets of a finite set has a member none of whose own
\* members can be taken away.
LEMMA LeastSubset ==
  ASSUME NEW D, IsFiniteSet(D), NEW Bad \in SUBSET SUBSET D, Bad # {}
  PROVE  \E S \in Bad : \A x \in S : S \ {x} \notin Bad
<1> DEFINE Sizes == {Cardinality(S) : S \in Bad}
<1>1. ASSUME NEW S \in Bad PROVE IsFiniteSet(S) /\ Cardinality(S) \in Nat
  BY FS_Subset, FS_CardinalityType
<1>2. Sizes \in SUBSET Nat /\ Sizes # {}
  BY <1>1
<1>3. PICK n \in Sizes : \A k \in Sizes : n <= k
  <2> HIDE DEF Sizes
  <2> QED BY <1>2, LeastNumber
<1>4. PICK S \in Bad : Cardinality(S) = n
  OBVIOUS
<1>5. ASSUME NEW x \in S, S \ {x} \in Bad PROVE FALSE
  <2>1. Cardinality(S \ {x}) = Cardinality(S) - 1
    BY <1>1, FS_RemoveElement
  <2>2. Cardinality(S \ {x}) \in Sizes
    BY <1>5
  <2>3. Cardinality(S) \in Nat /\ n <= Cardinality(S \ {x})
    BY <1>1, <1>3, <2>2
  <2> DEFINE k == Cardinality(S)
  <2>4. k \in Nat /\ n = k /\ n <= k - 1
    BY <1>4, <2>1, <2>3
  <2> HIDE DEF k
  <2> QED BY <2>4
<1> QED BY <1>5

LEMMA OneLess ==
  ASSUME NEW S, IsFiniteSet(S), NEW x \in S
  PROVE  /\ IsFiniteSet(S \ {x})
         /\ Cardinality(S) \in Nat /\ Cardinality(S \ {x}) \in Nat
         /\ Cardinality(S \ {x}) = Cardinality(S) - 1 /\ Cardinality(S) - 1 \in Nat
         /\ Cardinality(S) = Cardinality(S \ {x}) + 1
<1>1. IsFiniteSet(S \ {x}) /\ Cardinality(S \ {x}) = Cardinality(S) - 1
  BY FS_RemoveElement
<1>2. Cardinality(S) \in Nat /\ Cardinality(S \ {x}) \in Nat
  BY <1>1, FS_CardinalityType
<1> DEFINE n == Cardinality(S)
           k == Cardinality(S \ {x})
<1>3. n \in Nat /\ k \in Nat /\ k = n - 1
  BY <1>1, <1>2
<1> HIDE DEF n, k
<1>4. n = k + 1
  BY <1>3
<1> QED BY <1>1, <1>3, <1>4 DEF n, k

LEMMA OneMore ==
  ASSUME NEW S, IsFiniteSet(S), NEW x, x \notin S
  PROVE  /\ IsFiniteSet(S \union {x})
         /\ Cardinality(S) \in Nat /\ Cardinality(S \union {x}) = Cardinality(S) + 1
BY FS_AddElement, FS_CardinalityType

LEMMA UnitsOfOne ==
  ASSUME NEW m, NEW S, NEW x \in S, Cost[m[x].app] \in Nat, IsFiniteSet(Units(m, S \ {x}))
  PROVE  /\ IsFiniteSet(Units(m, S))
         /\ Cardinality(Units(m, S)) = Cardinality(Units(m, S \ {x})) + Cost[m[x].app]
<1> DEFINE n == Cost[m[x].app]
           U == Units(m, S \ {x})
           X == {x} \X (1 .. n)
<1>1. n \in Nat /\ IsFiniteSet(U)
  OBVIOUS
<1>2. IsFiniteSet(1 .. n) /\ Cardinality(1 .. n) = n
  <2> HIDE DEF n
  <2>1. n \in Int /\ 1 \in Int
    BY <1>1
  <2>2. IsFiniteSet(1 .. n) /\ Cardinality(1 .. n) = IF 1 > n THEN 0 ELSE n - 1 + 1
    BY <2>1, FS_Interval
  <2> QED BY <1>1, <2>2
<1>3. IsFiniteSet(X) /\ Cardinality(X) = n
  <2>1. IsFiniteSet({x}) /\ Cardinality({x}) = 1
    BY FS_Singleton
  <2>2. IsFiniteSet(X) /\ Cardinality(X) = 1 * Cardinality(1 .. n)
    BY <1>2, <2>1, FS_Product
  <2> HIDE DEF X, n
  <2> QED BY <1>1, <1>2, <2>2
<1>4. U \cap X = {}
  BY DEF Units
<1>5. Units(m, S) = U \cup X
  <2>1. ASSUME NEW u \in Units(m, S) PROVE u \in U \cup X
    <3>1. u \in S \X Nat /\ u[2] \in 1 .. Cost[m[u[1]].app]
      BY DEF Units
    <3>2. CASE u[1] = x
      BY <3>1, <3>2
    <3>3. CASE u[1] # x
      BY <3>1, <3>3 DEF Units
    <3> QED BY <3>2, <3>3
  <2>2. ASSUME NEW u \in X PROVE u \in Units(m, S)
    BY <1>1 DEF Units
  <2>3. ASSUME NEW u \in U PROVE u \in Units(m, S)
    BY DEF Units
  <2> QED BY <2>1, <2>2, <2>3
<1> HIDE DEF U, X, n
<1>6. Cardinality(U \cap X) = 0
  BY <1>4, FS_EmptySet
<1>7. /\ IsFiniteSet(U \cup X)
      /\ Cardinality(U \cup X) = Cardinality(U) + Cardinality(X) - Cardinality(U \cap X)
  BY <1>1, <1>3, FS_Union
<1>8. Cardinality(U) \in Nat
  BY <1>1, FS_CardinalityType
<1> QED BY <1>1, <1>3, <1>5, <1>6, <1>7, <1>8 DEF U, n

LEMMA UnitsFinite ==
  ASSUME NEW m, NEW D, IsFiniteSet(D), \A x \in D : Cost[m[x].app] \in Nat
  PROVE  \A S \in SUBSET D : IsFiniteSet(Units(m, S))
<1> DEFINE Bad == {S \in SUBSET D : ~IsFiniteSet(Units(m, S))}
<1>1. ASSUME Bad # {} PROVE FALSE
  <2>1. Bad \in SUBSET SUBSET D
    OBVIOUS
  <2>2. PICK S \in Bad : \A x \in S : S \ {x} \notin Bad
    <3> HIDE DEF Bad
    <3> QED BY <1>1, <2>1, LeastSubset
  <2>3. S # {}
    <3>1. Units(m, {}) = {}
      BY DEF Units
    <3> QED BY <3>1, FS_EmptySet
  <2>4. PICK x \in S : TRUE
    BY <2>3
  <2>5. IsFiniteSet(Units(m, S \ {x}))
    BY <2>2
  <2> QED BY <2>5, UnitsOfOne
<1> QED BY <1>1

LEMMA SumIsUnits ==
  ASSUME NEW m, NEW D, IsFiniteSet(D), \A x \in D : Cost[m[x].app] \in Nat
  PROVE  MapThenSumSet(LAMBDA id : Cost[m[id].app], D) = Cardinality(Units(m, D))
<1> DEFINE step(F) == [S \in SUBSET D |->
                         IF S = {} THEN 0
                         ELSE LET x == CHOOSE y \in S : TRUE IN Cost[m[x].app] + F[S \ {x}]]
           sum == CHOOSE F : F = step(F)
           H == [S \in SUBSET D |-> Cardinality(Units(m, S))]
<1>1. MapThenSumSet(LAMBDA id : Cost[m[id].app], D) = sum[D]
  BY DEF MapThenSumSet, MapThenFoldSet
<1>2. ASSUME NEW S \in SUBSET D, NEW x \in S
      PROVE  /\ S \ {x} \in SUBSET D
             /\ Cardinality(Units(m, S)) = Cost[m[x].app] + Cardinality(Units(m, S \ {x}))
  <2>1. S \ {x} \in SUBSET D
    OBVIOUS
  <2>2. IsFiniteSet(Units(m, S \ {x})) /\ Cost[m[x].app] \in Nat
    BY <2>1, UnitsFinite
  <2>3. Cardinality(Units(m, S \ {x})) \in Nat
    BY <2>2, FS_CardinalityType
  <2>4. Cardinality(Units(m, S)) = Cardinality(Units(m, S \ {x})) + Cost[m[x].app]
    BY <2>2, UnitsOfOne
  <2> QED BY <2>1, <2>2, <2>3, <2>4
<1>3. Cardinality(Units(m, {})) = 0
  BY FS_EmptySet DEF Units
<1>4. H = step(H)
  <2>1. ASSUME NEW S \in SUBSET D
        PROVE  H[S] = IF S = {} THEN 0
                      ELSE LET x == CHOOSE y \in S : TRUE IN Cost[m[x].app] + H[S \ {x}]
    <3>1. CASE S = {}
      BY <1>3, <3>1
    <3>2. CASE S # {}
      <4> DEFINE x == CHOOSE y \in S : TRUE
      <4>1. x \in S
        BY <3>2
      <4> HIDE DEF x
      <4>2. H[S] = Cost[m[x].app] + H[S \ {x}]
        BY <1>2, <4>1
      <4> QED BY <3>2, <4>2 DEF x
    <3> QED BY <3>1, <3>2
  <2> QED BY <2>1
<1> HIDE DEF step, H
<1>5. sum = step(sum)
  BY <1>4
<1> HIDE DEF sum
<1> DEFINE Bad == {S \in SUBSET D : sum[S] # H[S]}
<1>6. ASSUME Bad # {} PROVE FALSE
  <2>1. Bad \in SUBSET SUBSET D
    OBVIOUS
  <2>2. PICK S \in Bad : \A x \in S : S \ {x} \notin Bad
    <3> HIDE DEF Bad
    <3> QED BY <1>6, <2>1, LeastSubset
  <2>3. S # {}
    BY <1>4, <1>5 DEF step
  <2> DEFINE x == CHOOSE y \in S : TRUE
  <2>4. x \in S
    BY <2>3
  <2>5. sum[S] = Cost[m[x].app] + sum[S \ {x}] /\ H[S] = Cost[m[x].app] + H[S \ {x}]
    BY <1>4, <1>5, <2>3 DEF step
  <2> HIDE DEF x
  <2>6. sum[S \ {x}] = H[S \ {x}]
    BY <2>2, <2>4
  <2> QED BY <2>5, <2>6
<1> QED BY <1>1, <1>6 DEF H

-----------------------------------------------------------------------------
(* The VIM: what its calls do to the map of its applications.              *)

LEMMA MapFacts ==
  ASSUME NEW m \in MecAppMaps
  PROVE  /\ DOMAIN m \in SUBSET Nat
         /\ \A id \in DOMAIN m : /\ m[id] \in MecApps
                                 /\ m[id].app \in AppDIds /\ m[id].gate \in Nat
<1>1. PICK ids \in SUBSET Nat : m \in [ids -> MecApps]
  BY DEF MecAppMaps
<1> QED BY <1>1 DEF MecApps

LEMMA AddApp ==
  ASSUME NEW m \in MecAppMaps, NEW id \in Nat, NEW e \in MecApps
  PROVE  LET n == With(m, id, e)
         IN /\ n \in MecAppMaps /\ DOMAIN n = DOMAIN m \union {id} /\ n[id] = e
            /\ \A x \in DOMAIN m : x # id => n[x] = m[x]
<1> DEFINE n == With(m, id, e)
<1>1. DOMAIN n = DOMAIN m \union {id}
  BY DEF With
<1>2. n[id] = e
  BY DEF With
<1>3. \A x \in DOMAIN m : x # id => n[x] = m[x]
  BY DEF With
<1>4. n = [x \in DOMAIN n |-> n[x]]
  BY DEF With
<1> HIDE DEF n
<1>5. DOMAIN n \in SUBSET Nat /\ \A x \in DOMAIN n : n[x] \in MecApps
  BY <1>1, <1>2, <1>3, MapFacts
<1>6. n \in [DOMAIN n -> MecApps]
  BY <1>4, <1>5
<1>7. n \in MecAppMaps
  BY <1>5, <1>6 DEF MecAppMaps
<1> QED BY <1>1, <1>2, <1>3, <1>7 DEF n

LEMMA RemoveApp ==
  ASSUME NEW m \in MecAppMaps, NEW id
  PROVE  LET n == Without(m, id)
         IN /\ n \in MecAppMaps /\ DOMAIN n = DOMAIN m \ {id}
            /\ \A x \in DOMAIN n : n[x] = m[x]
<1> DEFINE n == Without(m, id)
<1>1. DOMAIN n = DOMAIN m \ {id} /\ \A x \in DOMAIN n : n[x] = m[x]
  BY DEF Without
<1>2. n \in [DOMAIN n -> MecApps] /\ DOMAIN n \in SUBSET Nat
  BY MapFacts DEF Without
<1> HIDE DEF n
<1>3. n \in MecAppMaps
  BY <1>2 DEF MecAppMaps
<1> QED BY <1>1, <1>3 DEF n

\* Slots and resources when an application comes or goes.
LEMMA OneAppMore ==
  ASSUME MecAssumption, NEW m \in MecAppMaps, NEW n \in MecAppMaps,
         NEW id \in DOMAIN n, DOMAIN n \ {id} = DOMAIN m, IsFiniteSet(DOMAIN m),
         \A x \in DOMAIN m : n[x] = m[x]
  PROVE  /\ IsFiniteSet(DOMAIN n)
         /\ Cardinality(DOMAIN n) = Cardinality(DOMAIN m) + 1
         /\ Cardinality(Units(n, DOMAIN n)) =
              Cardinality(Units(m, DOMAIN m)) + Cost[n[id].app]
<1>1. DOMAIN n = DOMAIN m \union {id} /\ id \notin DOMAIN m
  OBVIOUS
<1>2. IsFiniteSet(DOMAIN n) /\ Cardinality(DOMAIN n) = Cardinality(DOMAIN m) + 1
  <2>1. /\ IsFiniteSet(DOMAIN m \union {id})
        /\ Cardinality(DOMAIN m \union {id}) = Cardinality(DOMAIN m) + 1
    BY <1>1, FS_AddElement
  <2> QED BY <1>1, <2>1
<1>3. Units(n, DOMAIN n \ {id}) = Units(m, DOMAIN m)
  <2>1. Units(n, DOMAIN n \ {id}) = Units(n, DOMAIN m)
    OBVIOUS
  <2>2. ASSUME NEW u \in (DOMAIN m) \X Nat PROVE n[u[1]] = m[u[1]]
    <3>1. u[1] \in DOMAIN m
      OBVIOUS
    <3> QED BY <3>1
  <2>3. Units(n, DOMAIN m) = Units(m, DOMAIN m)
    BY <2>2 DEF Units
  <2> QED BY <2>1, <2>3
<1>4. \A x \in DOMAIN m : Cost[m[x].app] \in Nat
  BY MapFacts DEF MecAssumption
<1>5. IsFiniteSet(Units(n, DOMAIN n \ {id}))
  BY <1>3, <1>4, UnitsFinite
<1>6. Cost[n[id].app] \in Nat
  BY MapFacts DEF MecAssumption
<1>7. Cardinality(Units(n, DOMAIN n)) =
        Cardinality(Units(n, DOMAIN n \ {id})) + Cost[n[id].app]
  BY <1>5, <1>6, UnitsOfOne
<1> QED BY <1>2, <1>3, <1>7

LEMMA RealFacts ==
  ASSUME NEW m, IsFiniteSet(DOMAIN m)
  PROVE  /\ IsFiniteSet(Real(m)) /\ Cardinality(Real(m)) \in Nat
         /\ Cardinality(Real(m)) <= Cardinality(DOMAIN m)
<1>1. Real(m) \in SUBSET DOMAIN m
  BY DEF Real
<1> QED BY <1>1, FS_Subset, FS_CardinalityType

\* Only an application that is simulated takes a gate.
LEMMA OneGateMore ==
  ASSUME NEW m, NEW n, NEW id \in DOMAIN n, DOMAIN n \ {id} = DOMAIN m,
         \A x \in DOMAIN m : n[x] = m[x], IsFiniteSet(DOMAIN m)
  PROVE  /\ n[id].app \in Emulated => Real(n) = Real(m) /\ GatesOf(n) = GatesOf(m)
         /\ n[id].app \notin Emulated =>
              /\ Cardinality(Real(n)) = Cardinality(Real(m)) + 1
              /\ GatesOf(n) = GatesOf(m) \union {n[id].gate}
<1>1. DOMAIN n = DOMAIN m \union {id} /\ id \notin DOMAIN m
  OBVIOUS
<1>2. CASE n[id].app \in Emulated
  <2>1. Real(n) = Real(m)
    BY <1>1, <1>2 DEF Real
  <2>2. GatesOf(n) = GatesOf(m)
    BY <2>1 DEF GatesOf, Real
  <2> QED BY <1>2, <2>1, <2>2
<1>3. CASE n[id].app \notin Emulated
  <2>1. Real(n) = Real(m) \union {id} /\ id \notin Real(m)
    BY <1>1, <1>3 DEF Real
  <2>2. Cardinality(Real(n)) = Cardinality(Real(m)) + 1
    BY <2>1, RealFacts, OneMore
  <2>3. \A x \in Real(m) : n[x] = m[x]
    BY DEF Real
  <2>4. GatesOf(n) = GatesOf(m) \union {n[id].gate}
    BY <2>1, <2>3 DEF GatesOf
  <2> QED BY <1>3, <2>2, <2>4
<1> QED BY <1>2, <1>3

-----------------------------------------------------------------------------
(* The calls of the VIM.                                                   *)

LEMMA StartVim ==
  ASSUME MecAssumption, NEW v \in Vims, NEW id \in Nat, NEW a \in AppDIds
  PROVE  LET r == InstantiateMEApp(v, id, a)
             gate == IF a \in Emulated THEN 0 ELSE FirstGate(v)
             w == IF a \in Emulated \/ v.freeGates = << >> THEN v
                  ELSE [v EXCEPT !.freeGates = Tail(@)]
         IN /\ r.status \in BOOLEAN /\ r.vim \in Vims
            /\ gate \in Nat /\ [app |-> a, gate |-> gate] \in MecApps
            /\ r.status =>
                 /\ v.currentMEApps < MaxMecApps /\ id \notin DOMAIN v.mecAppMap
                 /\ r.vim.mecAppMap = With(v.mecAppMap, id, [app |-> a, gate |-> gate])
                 /\ r.vim.currentMEApps = v.currentMEApps + 1
                 /\ r.vim.allocated = v.allocated + Cost[a]
                 /\ r.vim.freeGates = w.freeGates
            /\ ~r.status =>
                 /\ r.vim.mecAppMap = v.mecAppMap
                 /\ r.vim.currentMEApps = v.currentMEApps
                 /\ r.vim.allocated = v.allocated
            /\ (~r.status /\ IsAllocable(v, a)) => r.vim = v
<1> DEFINE gate == IF a \in Emulated THEN 0 ELSE FirstGate(v)
           w == IF a \in Emulated \/ v.freeGates = << >> THEN v
                ELSE [v EXCEPT !.freeGates = Tail(@)]
           e == [app |-> a, gate |-> gate]
           new == [w EXCEPT !.mecAppMap = With(@, id, e), !.currentMEApps = @ + 1,
                            !.allocated = @ + Cost[a]]
           r == InstantiateMEApp(v, id, a)
<1>1. /\ v.mecAppMap \in MecAppMaps /\ v.currentMEApps \in Nat
      /\ v.allocated \in Int /\ v.freeGates \in Seq(Nat) /\ Cost[a] \in Nat
  BY DEF Vims, MecAssumption
<1>2. gate \in Nat
  BY <1>1 DEF FirstGate
<1>3. w \in Vims
  <2>1. v.freeGates # << >> => Tail(v.freeGates) \in Seq(Nat)
    BY <1>1
  <2> QED BY <2>1 DEF Vims
<1>4. e \in MecApps
  BY <1>2 DEF MecApps
<1>5. /\ w.mecAppMap = v.mecAppMap /\ w.currentMEApps = v.currentMEApps
      /\ w.allocated = v.allocated
  BY DEF Vims
<1> HIDE DEF w, gate
<1>6. With(w.mecAppMap, id, e) \in MecAppMaps
  BY <1>1, <1>4, <1>5, AddApp
<1>7. new \in Vims
  <2>1. w.currentMEApps + 1 \in Nat /\ w.allocated + Cost[a] \in Int
    BY <1>1, <1>5
  <2> HIDE DEF e
  <2> QED BY <1>3, <1>6, <2>1 DEF Vims
<1>8. /\ new.mecAppMap = With(v.mecAppMap, id, e)
      /\ new.currentMEApps = v.currentMEApps + 1
      /\ new.allocated = v.allocated + Cost[a]
      /\ new.freeGates = w.freeGates
  <2> HIDE DEF e
  <2> QED BY <1>3, <1>5 DEF Vims
<1>9. r = IF v.currentMEApps >= MaxMecApps \/ id \in DOMAIN v.mecAppMap
          THEN [vim |-> v, status |-> FALSE]
          ELSE IF ~IsAllocable(v, a) THEN [vim |-> w, status |-> FALSE]
          ELSE [vim |-> new, status |-> TRUE]
  BY DEF InstantiateMEApp, w, gate
<1> HIDE DEF r, new, e
<1>10. MaxMecApps \in Nat
  BY DEF MecAssumption
<1>11. CASE v.currentMEApps >= MaxMecApps \/ id \in DOMAIN v.mecAppMap
  <2>1. r.vim = v /\ r.status = FALSE
    BY <1>9, <1>11
  <2> QED BY <1>2, <1>4, <2>1 DEF r, w, gate, e
<1>12. CASE ~(v.currentMEApps >= MaxMecApps \/ id \in DOMAIN v.mecAppMap) /\ ~IsAllocable(v, a)
  <2>1. r.vim = w /\ r.status = FALSE
    BY <1>9, <1>12
  <2> QED BY <1>2, <1>3, <1>4, <1>5, <1>12, <2>1 DEF r, gate, e
<1>13. CASE ~(v.currentMEApps >= MaxMecApps \/ id \in DOMAIN v.mecAppMap) /\ IsAllocable(v, a)
  <2>1. r.vim = new /\ r.status = TRUE
    BY <1>9, <1>13
  <2>2. v.currentMEApps < MaxMecApps
    BY <1>1, <1>10, <1>13
  <2> QED BY <1>2, <1>4, <1>7, <1>8, <1>13, <2>1, <2>2 DEF r, w, gate, e
<1> QED BY <1>11, <1>12, <1>13

LEMMA StopVim ==
  ASSUME MecAssumption, NEW v \in Vims, NEW id \in Nat
  PROVE  LET r == TerminateMEApp(v, id)
         IN /\ r.status \in BOOLEAN /\ (r.status <=> id \in DOMAIN v.mecAppMap)
            /\ Counts(v) => r.vim \in Vims
            /\ r.status =>
                 /\ r.vim.mecAppMap = Without(v.mecAppMap, id)
                 /\ r.vim.currentMEApps = v.currentMEApps - 1
                 /\ r.vim.allocated = v.allocated - Cost[v.mecAppMap[id].app]
                 /\ r.vim.freeGates = IF v.mecAppMap[id].app \in Emulated THEN v.freeGates
                                      ELSE Append(v.freeGates, v.mecAppMap[id].gate)
            /\ ~r.status => r.vim = v
<1> DEFINE e == v.mecAppMap[id]
           g == IF e.app \in Emulated THEN v.freeGates ELSE Append(v.freeGates, e.gate)
           new == [v EXCEPT !.mecAppMap = Without(@, id), !.currentMEApps = @ - 1,
                            !.allocated = @ - Cost[e.app],
                            !.freeGates = IF e.app \in Emulated THEN @
                                          ELSE Append(@, e.gate)]
           r == TerminateMEApp(v, id)
<1>1. /\ v.mecAppMap \in MecAppMaps /\ v.currentMEApps \in Nat
      /\ v.allocated \in Int /\ v.freeGates \in Seq(Nat)
  BY DEF Vims
<1>2. CASE id \notin DOMAIN v.mecAppMap
  <2>1. r.vim = v /\ r.status = FALSE
    BY <1>2 DEF TerminateMEApp
  <2> QED BY <1>2, <2>1
<1>3. CASE id \in DOMAIN v.mecAppMap
  <2>1. r.vim = new /\ r.status = TRUE
    BY <1>3 DEF TerminateMEApp
  <2>2. /\ new.mecAppMap = Without(v.mecAppMap, id)
        /\ new.currentMEApps = v.currentMEApps - 1
        /\ new.allocated = v.allocated - Cost[e.app]
        /\ new.freeGates = g
    <3> HIDE DEF e
    <3> QED BY DEF Vims
  <2>3. e.app \in AppDIds /\ e.gate \in Nat /\ Cost[e.app] \in Nat
    BY <1>1, <1>3, MapFacts DEF MecAssumption
  <2>4. ASSUME Counts(v) PROVE new \in Vims
    <3>1. v.currentMEApps - 1 \in Nat
      BY <1>3, <2>4, OneLess DEF Counts
    <3>2. Without(v.mecAppMap, id) \in MecAppMaps
      BY <1>1, RemoveApp
    <3>3. v.allocated - Cost[e.app] \in Int
      BY <1>1, <2>3
    <3>4. g \in Seq(Nat)
      BY <1>1, <2>3
    <3> HIDE DEF e
    <3> QED BY <3>1, <3>2, <3>3, <3>4 DEF Vims
  <2> QED BY <1>3, <2>1, <2>2, <2>4
<1> QED BY <1>2, <1>3

LEMMA StartCounts ==
  ASSUME MecAssumption, NEW v \in Vims, NEW id \in Nat, NEW a \in AppDIds, Counts(v)
  PROVE  Counts(InstantiateMEApp(v, id, a).vim)
<1> DEFINE r == InstantiateMEApp(v, id, a)
           gate == IF a \in Emulated THEN 0 ELSE FirstGate(v)
           e == [app |-> a, gate |-> gate]
           m == v.mecAppMap
           n == r.vim.mecAppMap
<1>1. /\ m \in MecAppMaps /\ r.status \in BOOLEAN /\ e \in MecApps
      /\ r.status => /\ id \notin DOMAIN m /\ n = With(m, id, e)
                     /\ r.vim.currentMEApps = v.currentMEApps + 1
                     /\ r.vim.allocated = v.allocated + Cost[a]
      /\ ~r.status => /\ n = m /\ r.vim.currentMEApps = v.currentMEApps
                      /\ r.vim.allocated = v.allocated
  BY StartVim DEF Vims
<1>2. e.app = a
  OBVIOUS
<1> HIDE DEF r, e
<1>3. CASE r.status
  <2>1. /\ n \in MecAppMaps /\ DOMAIN n = DOMAIN m \union {id} /\ n[id] = e
        /\ \A x \in DOMAIN m : n[x] = m[x]
    <3> DEFINE k == With(m, id, e)
    <3>1. /\ k \in MecAppMaps /\ DOMAIN k = DOMAIN m \union {id} /\ k[id] = e
          /\ \A x \in DOMAIN m : x # id => k[x] = m[x]
      BY <1>1, AddApp
    <3>2. n = k /\ id \notin DOMAIN m
      BY <1>1, <1>3
    <3> HIDE DEF n, m, k
    <3> QED BY <3>1, <3>2
  <2>2. id \in DOMAIN n /\ DOMAIN n \ {id} = DOMAIN m
    BY <1>1, <1>3, <2>1
  <2>3. IsFiniteSet(DOMAIN m)
    BY DEF Counts
  <2> HIDE DEF n, m
  <2>4. /\ IsFiniteSet(DOMAIN n)
        /\ Cardinality(DOMAIN n) = Cardinality(DOMAIN m) + 1
        /\ Cardinality(Units(n, DOMAIN n)) = Cardinality(Units(m, DOMAIN m)) + Cost[a]
    BY <1>1, <1>2, <2>1, <2>2, <2>3, OneAppMore
  <2> QED BY <1>1, <1>3, <2>4 DEF Counts, n, m, r
<1>4. CASE ~r.status
  BY <1>1, <1>4 DEF Counts, r
<1> QED BY <1>1, <1>3, <1>4

LEMMA StopCounts ==
  ASSUME MecAssumption, NEW v \in Vims, NEW id \in Nat, Counts(v)
  PROVE  Counts(TerminateMEApp(v, id).vim)
<1> DEFINE r == TerminateMEApp(v, id)
           m == v.mecAppMap
           n == r.vim.mecAppMap
           cost == Cost[m[id].app]
<1>1. /\ m \in MecAppMaps /\ r.status \in BOOLEAN
      /\ r.status <=> id \in DOMAIN m
      /\ r.status => /\ n = Without(m, id)
                     /\ r.vim.currentMEApps = v.currentMEApps - 1
                     /\ r.vim.allocated = v.allocated - cost
      /\ ~r.status => r.vim = v
  BY StopVim DEF Vims
<1> HIDE DEF r
<1>2. CASE r.status
  <2>1. n \in MecAppMaps /\ DOMAIN n = DOMAIN m \ {id} /\ \A x \in DOMAIN n : m[x] = n[x]
    <3> DEFINE k == Without(m, id)
    <3>1. /\ k \in MecAppMaps /\ DOMAIN k = DOMAIN m \ {id}
          /\ \A x \in DOMAIN k : k[x] = m[x]
      BY <1>1, RemoveApp
    <3>2. n = k
      BY <1>1, <1>2
    <3> HIDE DEF n, m, k
    <3> QED BY <3>1, <3>2
  <2>2. id \in DOMAIN m /\ DOMAIN m \ {id} = DOMAIN n
    BY <1>1, <1>2, <2>1
  <2>3. IsFiniteSet(DOMAIN m)
    BY DEF Counts
  <2>4. IsFiniteSet(DOMAIN n)
    BY <2>2, <2>3, OneLess
  <2>5. cost \in Nat
    BY <1>1, <2>2, MapFacts DEF MecAssumption
  <2>6. \A x \in DOMAIN n : Cost[n[x].app] \in Nat
    BY <2>1, MapFacts DEF MecAssumption
  <2>7. IsFiniteSet(Units(n, DOMAIN n))
    BY <2>4, <2>6, UnitsFinite
  <2> DEFINE mu == Cardinality(Units(m, DOMAIN m))
             nu == Cardinality(Units(n, DOMAIN n))
             mc == Cardinality(DOMAIN m)
             nc == Cardinality(DOMAIN n)
  <2>8. v.currentMEApps = mc /\ v.allocated = mu
    BY DEF Counts
  <2>9. nu \in Nat /\ nc \in Nat
    BY <2>4, <2>7, FS_CardinalityType
  <2> HIDE DEF m, n, cost
  <2>10. mc = nc + 1 /\ mu = nu + cost
    BY <1>1, <2>1, <2>2, <2>4, OneAppMore DEF cost
  <2>11. r.vim.currentMEApps = mc - 1 /\ r.vim.allocated = mu - cost
    BY <1>1, <1>2, <2>8
  <2> HIDE DEF mu, nu, mc, nc
  <2>12. r.vim.currentMEApps = nc /\ r.vim.allocated = nu
    BY <2>5, <2>9, <2>10, <2>11
  <2> QED BY <2>4, <2>12 DEF Counts, n, nc, nu, r
<1>3. CASE ~r.status
  BY <1>1, <1>3 DEF r
<1> QED BY <1>1, <1>2, <1>3

\* The gates in a queue when one is taken from its front or put at its end.
LEMMA GateQueue ==
  ASSUME NEW q \in Seq(Nat)
  PROVE  /\ q # << >> => /\ Tail(q) \in Seq(Nat) /\ Len(q) = Len(Tail(q)) + 1
                         /\ Head(q) \in Nat /\ GateSet(q) = GateSet(Tail(q)) \union {Head(q)}
         /\ \A g \in Nat : /\ Append(q, g) \in Seq(Nat)
                           /\ Len(Append(q, g)) = Len(q) + 1
                           /\ GateSet(Append(q, g)) = GateSet(q) \union {g}
<1>1. ASSUME q # << >>
      PROVE  /\ Tail(q) \in Seq(Nat) /\ Len(q) = Len(Tail(q)) + 1 /\ Head(q) \in Nat
             /\ GateSet(q) = GateSet(Tail(q)) \union {Head(q)}
  <2>1. /\ Tail(q) \in Seq(Nat) /\ Len(q) \in Nat /\ Len(q) >= 1
        /\ Len(Tail(q)) = Len(q) - 1 /\ Head(q) = q[1]
        /\ \A i \in 1 .. Len(q) - 1 : Tail(q)[i] = q[i + 1]
    BY <1>1
  <2>2. DOMAIN q = 1 .. Len(q) /\ DOMAIN Tail(q) = 1 .. Len(q) - 1
    BY <2>1
  <2> DEFINE t == Tail(q)
             n == Len(q)
  <2> HIDE DEF t
  <2>3. ASSUME NEW i \in DOMAIN q PROVE q[i] \in GateSet(t) \union {q[1]}
    <3>1. CASE i = 1
      BY <3>1
    <3>2. CASE i # 1
      <4>1. i - 1 \in DOMAIN t /\ t[i - 1] = q[i]
        BY <2>1, <2>2, <3>2 DEF t
      <4> QED BY <4>1 DEF GateSet
    <3> QED BY <3>1, <3>2
  <2>4. ASSUME NEW i \in DOMAIN t PROVE t[i] \in GateSet(q)
    <3>1. i + 1 \in DOMAIN q /\ t[i] = q[i + 1]
      BY <2>1, <2>2 DEF t
    <3> QED BY <3>1 DEF GateSet
  <2>5. q[1] \in GateSet(q)
    BY <2>1, <2>2 DEF GateSet
  <2>6. GateSet(q) = GateSet(t) \union {q[1]}
    BY <2>3, <2>4, <2>5 DEF GateSet
  <2> QED BY <2>1, <2>6 DEF t
<1>2. ASSUME NEW g \in Nat
      PROVE  /\ Append(q, g) \in Seq(Nat) /\ Len(Append(q, g)) = Len(q) + 1
             /\ GateSet(Append(q, g)) = GateSet(q) \union {g}
  <2> DEFINE t == Append(q, g)
  <2>1. /\ t \in Seq(Nat) /\ Len(t) = Len(q) + 1 /\ Len(q) \in Nat
        /\ \A i \in 1 .. Len(q) : t[i] = q[i]
        /\ t[Len(q) + 1] = g
    BY AppendProperties
  <2>2. DOMAIN q = 1 .. Len(q) /\ DOMAIN t = 1 .. Len(q) + 1
    BY <2>1
  <2> HIDE DEF t
  <2>3. ASSUME NEW i \in DOMAIN t PROVE t[i] \in GateSet(q) \union {g}
    BY <2>1, <2>2 DEF GateSet
  <2>4. ASSUME NEW i \in DOMAIN q PROVE q[i] \in GateSet(t)
    <3>1. i \in DOMAIN t /\ t[i] = q[i]
      BY <2>1, <2>2
    <3> QED BY <3>1 DEF GateSet
  <2>5. g \in GateSet(t)
    <3>1. Len(q) + 1 \in DOMAIN t
      BY <2>1, <2>2
    <3> QED BY <2>1, <3>1 DEF GateSet
  <2>6. GateSet(t) = GateSet(q) \union {g}
    BY <2>3, <2>4, <2>5 DEF GateSet
  <2> QED BY <2>1, <2>6 DEF t
<1> QED BY <1>1, <1>2

LEMMA StartGates ==
  ASSUME MecAssumption, NEW v \in Vims, NEW id \in Nat, NEW a \in AppDIds,
         Counts(v), Gates(v), IsAllocable(v, a)
  PROVE  Gates(InstantiateMEApp(v, id, a).vim)
<1> DEFINE r == InstantiateMEApp(v, id, a)
           gate == IF a \in Emulated THEN 0 ELSE FirstGate(v)
           e == [app |-> a, gate |-> gate]
           m == v.mecAppMap
           n == r.vim.mecAppMap
           q == v.freeGates
           w == IF a \in Emulated \/ q = << >> THEN v
                ELSE [v EXCEPT !.freeGates = Tail(@)]
           k == With(m, id, e)
<1>1. /\ m \in MecAppMaps /\ q \in Seq(Nat)
      /\ r.status \in BOOLEAN /\ e \in MecApps
      /\ r.status => /\ id \notin DOMAIN m /\ n = k
                     /\ v.currentMEApps < MaxMecApps
                     /\ r.vim.freeGates = w.freeGates
      /\ ~r.status => r.vim = v
  BY StartVim DEF Vims
<1>2. CASE ~r.status
  BY <1>1, <1>2
<1>3. CASE r.status
  <2>1. e.app = a /\ e.gate = gate
    OBVIOUS
  <2>2. w.freeGates = IF a \in Emulated \/ q = << >> THEN q ELSE Tail(q)
    BY DEF Vims
  <2> HIDE DEF r, e, w
  <2>3. /\ DOMAIN k = DOMAIN m \union {id} /\ k[id] = e
        /\ \A x \in DOMAIN m : x # id => k[x] = m[x]
    <3>1. m \in MecAppMaps /\ e \in MecApps
      BY <1>1
    <3> HIDE DEF m
    <3> QED BY <3>1, AddApp
  <2> DEFINE reals == Cardinality(Real(m))
             ids == Cardinality(DOMAIN m)
             len == Len(q)
  <2>4. /\ IsFiniteSet(DOMAIN m) /\ ids = v.currentMEApps
        /\ len + reals = MaxMecApps /\ GateSet(q) \union GatesOf(m) = 1..MaxMecApps
    BY DEF Counts, Gates
  <2>5. id \in DOMAIN k /\ DOMAIN k \ {id} = DOMAIN m /\ \A x \in DOMAIN m : k[x] = m[x]
    BY <1>1, <1>3, <2>3
  <2>6. reals \in Nat /\ reals <= ids /\ ids \in Nat /\ len \in Nat
    BY <1>1, <2>4, RealFacts, FS_CardinalityType
  <2> HIDE DEF k
  <2>7. CASE a \in Emulated
    <3>1. Real(k) = Real(m) /\ GatesOf(k) = GatesOf(m)
      BY <2>1, <2>3, <2>4, <2>5, <2>7, OneGateMore
    <3>2. r.vim.freeGates = q
      BY <1>1, <1>3, <2>2, <2>7
    <3> QED BY <1>1, <1>3, <2>4, <3>1, <3>2 DEF Gates, r
  <2>8. CASE a \notin Emulated
    <3>1. q # << >>
      <4>1. len # 0
        <5>1. ids < MaxMecApps
          BY <1>1, <1>3, <2>4
        <5> HIDE DEF len, ids, reals
        <5> QED BY <2>4, <2>6, <5>1
      <4> QED BY <4>1
    <3>2. gate = Head(q)
      BY <2>8, <3>1 DEF FirstGate
    <3> HIDE DEF gate
    <3>3. /\ Cardinality(Real(k)) = reals + 1
          /\ GatesOf(k) = GatesOf(m) \union {Head(q)}
      BY <2>1, <2>3, <2>4, <2>5, <2>8, <3>2, OneGateMore
    <3>4. r.vim.freeGates = Tail(q)
      <4> DEFINE f == w.freeGates
                 g == r.vim.freeGates
      <4>1. f = Tail(q)
        BY <2>2, <2>8, <3>1
      <4>2. g = f
        BY <1>1, <1>3
      <4> HIDE DEF f, g
      <4>3. g = Tail(q)
        BY <4>1, <4>2
      <4> QED BY <4>3 DEF g
    <3>5. /\ Tail(q) \in Seq(Nat) /\ len = Len(Tail(q)) + 1
          /\ GateSet(q) = GateSet(Tail(q)) \union {Head(q)}
      BY <1>1, <3>1, GateQueue
    <3>6. GateSet(Tail(q)) \union GatesOf(k) = 1..MaxMecApps
      BY <2>4, <3>3, <3>5
    <3>7. Len(Tail(q)) + Cardinality(Real(k)) = MaxMecApps
      <4> DEFINE rest == Len(Tail(q))
      <4>1. rest \in Nat /\ len = rest + 1
        BY <3>5
      <4> HIDE DEF rest, len, reals
      <4>2. rest + (reals + 1) = MaxMecApps
        BY <2>4, <2>6, <4>1
      <4> QED BY <3>3, <4>2 DEF rest
    <3> QED BY <1>1, <1>3, <3>4, <3>6, <3>7 DEF Gates, r
  <2> QED BY <2>7, <2>8
<1> QED BY <1>1, <1>2, <1>3

LEMMA StopGates ==
  ASSUME MecAssumption, NEW v \in Vims, NEW id \in Nat, Counts(v), Gates(v)
  PROVE  Gates(TerminateMEApp(v, id).vim)
<1> DEFINE r == TerminateMEApp(v, id)
           m == v.mecAppMap
           k == Without(m, id)
           q == v.freeGates
           g == m[id].gate
<1>1. /\ m \in MecAppMaps /\ q \in Seq(Nat) /\ r.status \in BOOLEAN
      /\ r.status <=> id \in DOMAIN m
      /\ r.status => /\ r.vim.mecAppMap = k
                     /\ r.vim.freeGates = IF m[id].app \in Emulated THEN q
                                          ELSE Append(q, g)
      /\ ~r.status => r.vim = v
  BY StopVim DEF Vims
<1>2. CASE ~r.status
  BY <1>1, <1>2
<1>3. CASE r.status
  <2> HIDE DEF r
  <2>1. DOMAIN k = DOMAIN m \ {id} /\ \A x \in DOMAIN k : k[x] = m[x]
    BY <1>1, RemoveApp
  <2> HIDE DEF k
  <2> DEFINE reals == Cardinality(Real(k))
             len == Len(q)
  <2>2. /\ IsFiniteSet(DOMAIN m)
        /\ len + Cardinality(Real(m)) = MaxMecApps
        /\ GateSet(q) \union GatesOf(m) = 1..MaxMecApps
    BY DEF Counts, Gates
  <2>3. /\ id \in DOMAIN m /\ DOMAIN m \ {id} = DOMAIN k
        /\ \A x \in DOMAIN k : m[x] = k[x]
    BY <1>1, <1>3, <2>1
  <2>4. IsFiniteSet(DOMAIN k)
    BY <2>2, <2>3, OneLess
  <2>5. reals \in Nat /\ len \in Nat /\ g \in Nat
    BY <1>1, <2>3, <2>4, RealFacts, MapFacts
  <2>6. CASE m[id].app \in Emulated
    <3>1. Real(m) = Real(k) /\ GatesOf(m) = GatesOf(k)
      BY <2>3, <2>4, <2>6, OneGateMore
    <3>2. r.vim.freeGates = q
      BY <1>1, <1>3, <2>6
    <3> QED BY <1>1, <1>3, <2>2, <3>1, <3>2 DEF Gates, r
  <2>7. CASE m[id].app \notin Emulated
    <3>1. Cardinality(Real(m)) = reals + 1 /\ GatesOf(m) = GatesOf(k) \union {g}
      BY <2>3, <2>4, <2>7, OneGateMore
    <3>2. r.vim.freeGates = Append(q, g)
      BY <1>1, <1>3, <2>7
    <3>3. Len(Append(q, g)) = len + 1 /\ GateSet(Append(q, g)) = GateSet(q) \union {g}
      BY <1>1, <2>5, GateQueue
    <3>4. GateSet(Append(q, g)) \union GatesOf(k) = 1..MaxMecApps
      BY <2>2, <3>1, <3>3
    <3>5. Len(Append(q, g)) + reals = MaxMecApps
      <4> HIDE DEF reals, len, g
      <4>1. (len + 1) + reals = MaxMecApps
        BY <2>2, <2>5, <3>1
      <4> QED BY <3>3, <4>1
    <3> QED BY <1>1, <1>3, <3>2, <3>4, <3>5 DEF Gates, r
  <2> QED BY <2>6, <2>7
<1> QED BY <1>1, <1>2, <1>3

-----------------------------------------------------------------------------
(* What is in a message of a kind, and what a step does to the VIMs.       *)

LEMMA MessageFacts ==
  ASSUME DevicesOK, NEW d \in DeviceApps
  PROVE  /\ request[d].kind = "POST" =>
              /\ request[d].app \in AppDIds /\ request[d].hasAppDId \in BOOLEAN
              /\ request[d].ueAppID \in Nat
         /\ request[d].kind = "DELETE" => request[d].contextId \in Nat
         /\ response[d].kind = "200" => response[d].listed \in BOOLEAN
         /\ response[d].kind = "201" => response[d].contextId \in Nat
         /\ meoMsg[d] = Nothing <=> meoMsg[d].kind = "none"
         /\ meoMsg[d].kind \in {"none", "CREATE", "DELETE"}
         /\ meoMsg[d].kind = "CREATE" =>
              meoMsg[d].success \in BOOLEAN /\ meoMsg[d].contextId \in Nat
         /\ meoMsg[d].kind = "DELETE" => meoMsg[d].success \in BOOLEAN
<1>1. request[d] \in Requests /\ response[d] \in Responses /\ meoMsg[d] \in MeoMsgs
  BY DEF DevicesOK
<1>2. /\ request[d].kind = "POST" =>
           /\ request[d].app \in AppDIds /\ request[d].hasAppDId \in BOOLEAN
           /\ request[d].ueAppID \in Nat
      /\ request[d].kind = "DELETE" => request[d].contextId \in Nat
  BY <1>1 DEF Requests, Nothing
<1>3. /\ response[d].kind = "200" => response[d].listed \in BOOLEAN
      /\ response[d].kind = "201" => response[d].contextId \in Nat
  BY <1>1 DEF Responses, Nothing
<1>4. /\ meoMsg[d] = Nothing <=> meoMsg[d].kind = "none"
      /\ meoMsg[d].kind \in {"none", "CREATE", "DELETE"}
      /\ meoMsg[d].kind = "CREATE" =>
           meoMsg[d].success \in BOOLEAN /\ meoMsg[d].contextId \in Nat
      /\ meoMsg[d].kind = "DELETE" => meoMsg[d].success \in BOOLEAN
  BY <1>1 DEF MeoMsgs, Nothing
<1> QED BY <1>2, <1>3, <1>4

\* The host a request is sent to, and what the VIM of that host answers.
Started(h, post) == InstantiateMEApp(vim[h], post.ueAppID, post.app)
Stopped(c) == TerminateMEApp(vim[meAppMap[c].host], meAppMap[c].ueAppID)
Context(h, post) == [app |-> post.app, ueAppID |-> post.ueAppID, host |-> h]

LEMMA StartFacts ==
  ASSUME MecAssumption, TypeInv, NEW d \in DeviceApps, request[d].kind = "POST",
         StartOnHost(d, request[d])
  PROVE  \E h \in BestMecHosts(request[d].app) :
           /\ h \in Hosts /\ AlreadyStarted(request[d]) = {}
           /\ Started(h, request[d]).status \in BOOLEAN
           /\ vim' = [vim EXCEPT ![h] = Started(h, request[d]).vim]
           /\ Started(h, request[d]).status =>
                /\ meAppMap' = With(meAppMap, contextIdCounter, Context(h, request[d]))
                /\ contextIdCounter' = contextIdCounter + 1
           /\ ~Started(h, request[d]).status =>
                meAppMap' = meAppMap /\ contextIdCounter' = contextIdCounter
           /\ meoMsg' = [meoMsg EXCEPT ![d] =
                [kind |-> "CREATE", success |-> Started(h, request[d]).status,
                 contextId |-> contextIdCounter]]
           /\ onboarded' = onboarded \union {request[d].app}
           /\ response' = response
<1> DEFINE post == request[d]
<1>1. PICK h \in BestMecHosts(post.app) :
        /\ vim' = [vim EXCEPT ![h] = Started(h, post).vim]
        /\ IF Started(h, post).status
           THEN /\ meAppMap' = With(meAppMap, contextIdCounter, Context(h, post))
                /\ contextIdCounter' = contextIdCounter + 1
           ELSE UNCHANGED <<meAppMap, contextIdCounter>>
        /\ meoMsg' = [meoMsg EXCEPT ![d] =
             [kind |-> "CREATE", success |-> Started(h, post).status,
              contextId |-> contextIdCounter]]
  BY Zenon DEF StartOnHost, Started, Context
<1>2. h \in Hosts
  BY DEF BestMecHosts, MecAssumption
<1>3. /\ AlreadyStarted(post) = {} /\ onboarded' = onboarded \union {post.app}
      /\ response' = response
  BY DEF StartOnHost
<1>4. vim[h] \in Vims /\ post.ueAppID \in Nat /\ post.app \in AppDIds
  BY <1>2, MessageFacts DEF TypeInv, MeoOK
<1>5. Started(h, post).status \in BOOLEAN
  BY <1>4, StartVim DEF Started
<1> HIDE DEF post
<1>6. /\ Started(h, post).status =>
           /\ meAppMap' = With(meAppMap, contextIdCounter, Context(h, post))
           /\ contextIdCounter' = contextIdCounter + 1
      /\ ~Started(h, post).status =>
           meAppMap' = meAppMap /\ contextIdCounter' = contextIdCounter
  BY <1>1
<1> QED BY <1>1, <1>2, <1>3, <1>5, <1>6, Zenon DEF post

LEMMA StopFacts ==
  ASSUME MecAssumption, TypeInv, NEW d \in DeviceApps, request[d].kind = "DELETE",
         NEW c, c = request[d].contextId, StopKnown(d, c), failed = FALSE
  PROVE  /\ c \in DOMAIN meAppMap /\ c \in Nat /\ response' = response
         /\ \/ failed' = TRUE /\ meAppMap' = meAppMap /\ vim' = vim /\ meoMsg' = meoMsg
            \/ /\ failed' = failed
               /\ meAppMap[c] \in Contexts /\ Stopped(c).status \in BOOLEAN
               /\ vim' = [vim EXCEPT ![meAppMap[c].host] = Stopped(c).vim]
               /\ meAppMap' = IF Stopped(c).status THEN Without(meAppMap, c) ELSE meAppMap
               /\ meoMsg' = [meoMsg EXCEPT ![d] =
                               [kind |-> "DELETE", success |-> Stopped(c).status]]
<1>1. c \in DOMAIN meAppMap /\ response' = response /\ c \in Nat
  BY MessageFacts DEF StopKnown, TypeInv
<1>2. meAppMap[c] \in Contexts \union {NoEntry}
  BY <1>1 DEF TypeInv, MeoOK
<1>3. CASE meAppMap[c] = NoEntry \/ (Logging /\ meAppMap[c].app \in Emulated)
  BY <1>1, <1>3, Zenon DEF StopKnown
<1>4. CASE ~(meAppMap[c] = NoEntry \/ (Logging /\ meAppMap[c].app \in Emulated))
  <2>1. /\ failed' = failed
        /\ vim' = [vim EXCEPT ![meAppMap[c].host] = Stopped(c).vim]
        /\ meAppMap' = IF Stopped(c).status THEN Without(meAppMap, c) ELSE meAppMap
        /\ meoMsg' = [meoMsg EXCEPT ![d] =
                        [kind |-> "DELETE", success |-> Stopped(c).status]]
    BY <1>4, Zenon DEF StopKnown, Stopped
  <2>2. meAppMap[c] \in Contexts
    BY <1>2, <1>4
  <2>3. meAppMap[c].host \in Hosts /\ meAppMap[c].ueAppID \in Nat
    BY <2>2 DEF Contexts
  <2>4. vim[meAppMap[c].host] \in Vims
    BY <2>3 DEF TypeInv, MeoOK
  <2>5. Stopped(c).status \in BOOLEAN
    BY <2>3, <2>4, StopVim DEF Stopped
  <2> QED BY <1>1, <2>1, <2>2, <2>5
<1> QED BY <1>3, <1>4

\* The VIMs change by one call of one of them, or not at all.
LEMMA VimCalls ==
  ASSUME MecAssumption, TypeInv, [Next]_vars
  PROVE  \/ vim' = vim
         \/ \E a \in AppDIds, id \in Nat : \E h \in BestMecHosts(a) :
              h \in Hosts /\ vim' = [vim EXCEPT ![h] = InstantiateMEApp(vim[h], id, a).vim]
         \/ \E id \in Nat, h \in Hosts :
              vim' = [vim EXCEPT ![h] = TerminateMEApp(vim[h], id).vim]
<1>1. CASE UNCHANGED vars
  BY <1>1 DEF vars
<1>2. CASE Next
  <2>1. failed = FALSE
    BY <1>2 DEF Next, TypeInv, MeoOK
  <2>2. PICK d \in DeviceApps :
          \/ SendStartAppContext(d) \/ SendStopAppContext(d)
          \/ ManageRequest(d) \/ SendAck(d) \/ HandleUalcmpMessage(d)
    BY <1>2 DEF Next
  <2>3. CASE SendStartAppContext(d) \/ SendStopAppContext(d) \/ SendAck(d) \/ HandleUalcmpMessage(d)
    BY <2>3 DEF SendStartAppContext, SendStopAppContext, SendAck, HandleUalcmpMessage
  <2>4. CASE ManageRequest(d)
    <3>1. CASE HandleGETRequest(d)
      BY <3>1 DEF HandleGETRequest
    <3>2. CASE HandlePOSTRequest(d)
      <4>1. request[d].kind = "POST" /\ (StartOnHost(d, request[d]) \/ vim' = vim)
        BY <3>2 DEF HandlePOSTRequest, StartMecApp, AckExisting, NoSuitableHost
      <4>2. CASE StartOnHost(d, request[d])
        <5>1. PICK h \in BestMecHosts(request[d].app) :
                h \in Hosts /\ vim' = [vim EXCEPT ![h] = Started(h, request[d]).vim]
          BY <4>1, <4>2, StartFacts
        <5>2. request[d].ueAppID \in Nat /\ request[d].app \in AppDIds
          BY <4>1, MessageFacts DEF TypeInv
        <5> QED BY <5>1, <5>2, Zenon DEF Started
      <4> QED BY <4>1, <4>2
    <3>3. CASE HandleDELETERequest(d)
      <4>1. request[d].kind = "DELETE" /\ (StopKnown(d, request[d].contextId) \/ vim' = vim)
        BY <3>3 DEF HandleDELETERequest, StopMecApp, StopUnknown
      <4>2. CASE StopKnown(d, request[d].contextId)
        <5> DEFINE c == request[d].contextId
        <5>1. \/ vim' = vim
              \/ /\ meAppMap[c] \in Contexts
                 /\ vim' = [vim EXCEPT ![meAppMap[c].host] = Stopped(c).vim]
          BY <2>1, <4>1, <4>2, StopFacts
        <5>2. CASE vim' # vim
          <6>1. meAppMap[c].ueAppID \in Nat /\ meAppMap[c].host \in Hosts
            BY <5>1, <5>2 DEF Contexts
          <6> QED BY <5>1, <5>2, <6>1, Zenon DEF Stopped
        <5> QED BY <5>2
      <4> QED BY <4>1, <4>2
    <3> QED BY <2>4, <3>1, <3>2, <3>3 DEF ManageRequest
  <2> QED BY <2>2, <2>3, <2>4
<1> QED BY <1>1, <1>2

LEMMA VimStep ==
  ASSUME MecAssumption, TypeInv, AllCounts, [Next]_vars
  PROVE  /\ vim' \in [Hosts -> Vims] /\ AllCounts'
         /\ (MecHostBased = {} /\ AllGates) => AllGates'
<1>1. vim \in [Hosts -> Vims] /\ \A h \in Hosts : vim[h] \in Vims /\ Counts(vim[h])
  BY DEF TypeInv, MeoOK, AllCounts
<1>2. CASE vim' = vim
  BY <1>1, <1>2 DEF AllCounts, AllGates
<1>3. ASSUME NEW a \in AppDIds, NEW id \in Nat, NEW h \in BestMecHosts(a), h \in Hosts,
             vim' = [vim EXCEPT ![h] = InstantiateMEApp(vim[h], id, a).vim]
      PROVE  /\ vim' \in [Hosts -> Vims] /\ AllCounts'
             /\ (MecHostBased = {} /\ AllGates) => AllGates'
  <2> DEFINE w == InstantiateMEApp(vim[h], id, a).vim
  <2>1. w \in Vims /\ Counts(w)
    BY <1>1, <1>3, StartVim, StartCounts
  <2>2. MecHostBased = {} /\ AllGates => Gates(w)
    <3>1. MecHostBased = {} => IsAllocable(vim[h], a)
      BY <1>3 DEF BestMecHosts
    <3> QED BY <1>1, <1>3, <3>1, StartGates DEF AllGates
  <2> HIDE DEF w
  <2>3. vim' \in [Hosts -> Vims] /\ \A g \in Hosts : vim'[g] = IF g = h THEN w ELSE vim[g]
    BY <1>1, <1>3, <2>1 DEF w
  <2> QED BY <1>1, <2>1, <2>2, <2>3 DEF AllCounts, AllGates
<1>4. ASSUME NEW id \in Nat, NEW h \in Hosts,
             vim' = [vim EXCEPT ![h] = TerminateMEApp(vim[h], id).vim]
      PROVE  /\ vim' \in [Hosts -> Vims] /\ AllCounts'
             /\ (MecHostBased = {} /\ AllGates) => AllGates'
  <2> DEFINE w == TerminateMEApp(vim[h], id).vim
  <2>1. w \in Vims /\ Counts(w) /\ (AllGates => Gates(w))
    BY <1>1, StopVim, StopCounts, StopGates DEF AllGates
  <2> HIDE DEF w
  <2>2. vim' \in [Hosts -> Vims] /\ \A g \in Hosts : vim'[g] = IF g = h THEN w ELSE vim[g]
    BY <1>1, <1>4, <2>1 DEF w
  <2> QED BY <1>1, <2>1, <2>2 DEF AllCounts, AllGates
<1> QED BY <1>2, <1>3, <1>4, VimCalls

-----------------------------------------------------------------------------
(* The types.                                                              *)

LEMMA MinFacts ==
  ASSUME NEW S \in SUBSET Nat, S # {}
  PROVE  Min(S) \in S
BY LeastNumber DEF Min

LEMMA WithContext ==
  ASSUME MeoOK, NEW c \in Nat, NEW e \in Contexts \union {NoEntry}
  PROVE  LET n == With(meAppMap, c, e)
         IN /\ DOMAIN n = DOMAIN meAppMap \union {c}
            /\ DOMAIN n \in SUBSET Nat /\ n \in [DOMAIN n -> Contexts \union {NoEntry}]
            /\ n[c] = e /\ \A x \in DOMAIN meAppMap : x # c => n[x] = meAppMap[x]
<1> DEFINE n == With(meAppMap, c, e)
<1>1. /\ DOMAIN n = DOMAIN meAppMap \union {c}
      /\ n = [x \in DOMAIN n |-> IF x = c THEN e ELSE meAppMap[x]]
  BY DEF With
<1>2. /\ DOMAIN meAppMap \in SUBSET Nat
      /\ \A x \in DOMAIN meAppMap : meAppMap[x] \in Contexts \union {NoEntry}
  BY DEF MeoOK
<1> HIDE DEF n
<1> QED BY <1>1, <1>2 DEF n

LEMMA WithoutContext ==
  ASSUME MeoOK, NEW c
  PROVE  LET n == Without(meAppMap, c)
         IN /\ DOMAIN n = DOMAIN meAppMap \ {c}
            /\ DOMAIN n \in SUBSET Nat /\ n \in [DOMAIN n -> Contexts \union {NoEntry}]
            /\ \A x \in DOMAIN n : n[x] = meAppMap[x]
<1> DEFINE n == Without(meAppMap, c)
<1>1. DOMAIN n = DOMAIN meAppMap \ {c} /\ n = [x \in DOMAIN n |-> meAppMap[x]]
  BY DEF Without
<1>2. /\ DOMAIN meAppMap \in SUBSET Nat
      /\ \A x \in DOMAIN meAppMap : meAppMap[x] \in Contexts \union {NoEntry}
  BY DEF MeoOK
<1> HIDE DEF n
<1> QED BY <1>1, <1>2 DEF n

\* The calls of the orchestrator.
LEMMA AckTypes ==
  ASSUME MecAssumption, TypeInv, NEW d \in DeviceApps, AckExisting(d, request[d])
  PROVE  /\ response' \in [DeviceApps -> Responses]
         /\ UNCHANGED <<meoMsg, onboarded, meAppMap, contextIdCounter, vim>>
         /\ response' = [response EXCEPT ![d] =
              [kind |-> "201", contextId |-> Min(AlreadyStarted(request[d]))]]
<1>1. Min(AlreadyStarted(request[d])) \in Nat
  <2>1. AlreadyStarted(request[d]) \in SUBSET Nat /\ AlreadyStarted(request[d]) # {}
    BY DEF AlreadyStarted, AckExisting, TypeInv, MeoOK
  <2> QED BY <2>1, MinFacts
<1>2. [kind |-> "201", contextId |-> Min(AlreadyStarted(request[d]))] \in Responses
  BY <1>1 DEF Responses
<1> QED BY <1>2 DEF AckExisting, TypeInv, DevicesOK

LEMMA StartTypes ==
  ASSUME MecAssumption, TypeInv, NEW d \in DeviceApps, request[d].kind = "POST",
         StartMecApp(d, request[d])
  PROVE  /\ response' \in [DeviceApps -> Responses] /\ meoMsg' \in [DeviceApps -> MeoMsgs]
         /\ onboarded' \in SUBSET AppDIds /\ contextIdCounter' \in Nat
         /\ DOMAIN meAppMap' \in SUBSET Nat
         /\ meAppMap' \in [DOMAIN meAppMap' -> Contexts \union {NoEntry}]
         /\ failed' = failed
<1> DEFINE post == request[d]
<1>1. /\ post.app \in AppDIds /\ post.ueAppID \in Nat /\ contextIdCounter \in Nat
      /\ onboarded \union {post.app} \in SUBSET AppDIds
  BY MessageFacts DEF TypeInv, MeoOK
<1>2. CASE AckExisting(d, post)
  BY <1>2, AckTypes DEF TypeInv, MeoOK, DevicesOK, StartMecApp
<1>3. CASE NoSuitableHost(d, post)
  <2>1. [kind |-> "CREATE", success |-> FALSE, contextId |-> 0] \in MeoMsgs
    BY DEF MeoMsgs
  <2> QED BY <1>1, <1>3, <2>1 DEF NoSuitableHost, TypeInv, MeoOK, DevicesOK, StartMecApp
<1>4. CASE StartOnHost(d, post)
  <2>1. PICK h \in BestMecHosts(post.app) :
           /\ h \in Hosts /\ Started(h, post).status \in BOOLEAN
           /\ Started(h, post).status =>
                /\ meAppMap' = With(meAppMap, contextIdCounter, Context(h, post))
                /\ contextIdCounter' = contextIdCounter + 1
           /\ ~Started(h, post).status =>
                meAppMap' = meAppMap /\ contextIdCounter' = contextIdCounter
           /\ meoMsg' = [meoMsg EXCEPT ![d] =
                [kind |-> "CREATE", success |-> Started(h, post).status,
                 contextId |-> contextIdCounter]]
           /\ onboarded' = onboarded \union {post.app}
           /\ response' = response
    <3> HIDE DEF post
    <3> QED BY <1>4, StartFacts, Zenon DEF post
  <2>2. Context(h, post) \in Contexts
    BY <1>1, <2>1 DEF Context, Contexts
  <2>3. [kind |-> "CREATE", success |-> Started(h, post).status,
         contextId |-> contextIdCounter] \in MeoMsgs
    BY <1>1, <2>1 DEF MeoMsgs
  <2> HIDE DEF post
  <2>4. /\ DOMAIN meAppMap' \in SUBSET Nat
        /\ meAppMap' \in [DOMAIN meAppMap' -> Contexts \union {NoEntry}]
        /\ contextIdCounter' \in Nat
    <3> DEFINE n == With(meAppMap, contextIdCounter, Context(h, post))
    <3>1. /\ DOMAIN n \in SUBSET Nat
          /\ n \in [DOMAIN n -> Contexts \union {NoEntry}]
      BY <1>1, <2>2, WithContext DEF TypeInv
    <3>2. CASE Started(h, post).status
      <4>1. meAppMap' = n /\ contextIdCounter' = contextIdCounter + 1
        BY <2>1, <3>2
      <4> HIDE DEF n
      <4> QED BY <1>1, <3>1, <4>1
    <3>3. CASE ~Started(h, post).status
      BY <1>1, <2>1, <3>3 DEF TypeInv, MeoOK
    <3> QED BY <3>2, <3>3
  <2> QED BY <1>1, <2>1, <2>3, <2>4 DEF TypeInv, MeoOK, DevicesOK, StartMecApp, post
<1> QED BY <1>2, <1>3, <1>4 DEF StartMecApp

LEMMA StopTypes ==
  ASSUME MecAssumption, TypeInv, NEW d \in DeviceApps, request[d].kind = "DELETE",
         StopMecApp(d, request[d].contextId), failed = FALSE
  PROVE  /\ response' \in [DeviceApps -> Responses] /\ meoMsg' \in [DeviceApps -> MeoMsgs]
         /\ onboarded' = onboarded /\ contextIdCounter' = contextIdCounter
         /\ DOMAIN meAppMap' \in SUBSET Nat
         /\ meAppMap' \in [DOMAIN meAppMap' -> Contexts \union {NoEntry}]
         /\ failed' \in BOOLEAN
<1> DEFINE c == request[d].contextId
<1>1. c \in Nat /\ onboarded' = onboarded /\ contextIdCounter' = contextIdCounter
  BY MessageFacts DEF TypeInv, StopMecApp
<1>2. CASE StopUnknown(d, c)
  <2>1. /\ DOMAIN meAppMap' \in SUBSET Nat
        /\ meAppMap' \in [DOMAIN meAppMap' -> Contexts \union {NoEntry}]
    <3> DEFINE n == With(meAppMap, c, NoEntry)
    <3>1. /\ DOMAIN n \in SUBSET Nat
          /\ n \in [DOMAIN n -> Contexts \union {NoEntry}]
      BY <1>1, WithContext DEF TypeInv
    <3>2. meAppMap' = n \/ meAppMap' = meAppMap
      BY <1>2 DEF StopUnknown
    <3> HIDE DEF n
    <3> QED BY <3>1, <3>2 DEF TypeInv, MeoOK
  <2>2. [kind |-> "500"] \in Responses
    BY DEF Responses
  <2> QED BY <1>1, <1>2, <2>1, <2>2 DEF StopUnknown, TypeInv, MeoOK, DevicesOK
<1>3. CASE StopKnown(d, c)
  <2>1. /\ response' = response
        /\ \/ failed' = TRUE /\ meAppMap' = meAppMap /\ meoMsg' = meoMsg
           \/ /\ failed' = failed /\ Stopped(c).status \in BOOLEAN
              /\ meAppMap' = IF Stopped(c).status THEN Without(meAppMap, c) ELSE meAppMap
              /\ meoMsg' = [meoMsg EXCEPT ![d] =
                              [kind |-> "DELETE", success |-> Stopped(c).status]]
    BY <1>3, StopFacts
  <2>2. Stopped(c).status \in BOOLEAN =>
          [kind |-> "DELETE", success |-> Stopped(c).status] \in MeoMsgs
    BY DEF MeoMsgs
  <2> HIDE DEF c
  <2>3. /\ DOMAIN meAppMap' \in SUBSET Nat
        /\ meAppMap' \in [DOMAIN meAppMap' -> Contexts \union {NoEntry}]
    <3> DEFINE n == Without(meAppMap, c)
    <3>1. /\ DOMAIN n \in SUBSET Nat
          /\ n \in [DOMAIN n -> Contexts \union {NoEntry}]
      BY WithoutContext DEF TypeInv
    <3>2. meAppMap' = n \/ meAppMap' = meAppMap
      BY <2>1
    <3> HIDE DEF n
    <3> QED BY <3>1, <3>2 DEF TypeInv, MeoOK
  <2> QED BY <1>1, <2>1, <2>2, <2>3 DEF TypeInv, MeoOK, DevicesOK
<1> QED BY <1>2, <1>3 DEF StopMecApp

LEMMA TypeStep ==
  ASSUME MecAssumption, TypeInv, AllCounts, [Next]_vars
  PROVE  TypeInv'
<1>1. CASE UNCHANGED vars
  BY <1>1 DEF vars, TypeInv, DevicesOK, MeoOK
<1>2. CASE Next
  <2>1. failed = FALSE /\ vim' \in [Hosts -> Vims]
    BY <1>2, VimStep DEF Next, TypeInv, MeoOK
  <2>2. PICK d \in DeviceApps :
          \/ SendStartAppContext(d) \/ SendStopAppContext(d)
          \/ ManageRequest(d) \/ SendAck(d) \/ HandleUalcmpMessage(d)
    BY <1>2 DEF Next
  <2>3. Nothing \in Requests /\ Nothing \in Responses /\ Nothing \in MeoMsgs
    BY DEF Requests, Responses, MeoMsgs
  <2>4. CASE SendStartAppContext(d)
    <3>1. [kind |-> "GET", app |-> Wants[d]] \in Requests
      BY DEF Requests, MecAssumption
    <3> QED BY <2>4, <3>1 DEF SendStartAppContext, TypeInv, DevicesOK, MeoOK
  <2>5. CASE SendStopAppContext(d)
    <3>1. [kind |-> "DELETE", contextId |-> appContextUri[d]] \in Requests
      BY DEF Requests, TypeInv, DevicesOK
    <3> QED BY <2>5, <3>1 DEF SendStopAppContext, TypeInv, DevicesOK, MeoOK
  <2>6. CASE ManageRequest(d)
    <3>1. /\ request' \in [DeviceApps -> Requests]
          /\ UNCHANGED <<ueApp, appState, deviceAppIdCounter, appContextUri>>
      BY <2>3, <2>6 DEF ManageRequest, TypeInv, DevicesOK
    <3>2. CASE HandleGETRequest(d)
      <4>1. [kind |-> "200", listed |-> request[d].app \in onboarded] \in Responses
        BY DEF Responses
      <4> QED BY <3>1, <3>2, <4>1 DEF HandleGETRequest, TypeInv, DevicesOK, MeoOK
    <3>3. CASE HandlePOSTRequest(d)
      BY <2>1, <3>1, <3>3, StartTypes DEF HandlePOSTRequest, TypeInv, DevicesOK, MeoOK
    <3>4. CASE HandleDELETERequest(d)
      BY <2>1, <3>1, <3>4, StopTypes DEF HandleDELETERequest, TypeInv, DevicesOK, MeoOK
    <3> QED BY <2>6, <3>2, <3>3, <3>4 DEF ManageRequest
  <2>7. CASE SendAck(d)
    <3> DEFINE msg == meoMsg[d]
               answer == IF ~msg.success THEN [kind |-> "500"]
                         ELSE IF msg.kind = "DELETE" THEN [kind |-> "204"]
                         ELSE IF msg.contextId \notin DOMAIN meAppMap THEN Nothing
                         ELSE [kind |-> "201", contextId |-> msg.contextId]
    <3>1. response' = [response EXCEPT ![d] = answer]
      BY <2>7, Zenon DEF SendAck
    <3>2. answer \in Responses
      <4>1. msg.kind # "DELETE" => msg.contextId \in Nat
        BY <2>7, MessageFacts DEF SendAck, TypeInv
      <4> QED BY <2>3, <4>1 DEF Responses
    <3> HIDE DEF answer
    <3> QED BY <2>3, <2>7, <3>1, <3>2 DEF SendAck, TypeInv, DevicesOK, MeoOK
  <2>8. CASE HandleUalcmpMessage(d)
    <3>1. /\ response' \in [DeviceApps -> Responses]
          /\ UNCHANGED <<meoMsg, onboarded, meAppMap, contextIdCounter, vim, failed>>
      BY <2>3, <2>8 DEF HandleUalcmpMessage, TypeInv, DevicesOK
    <3>2. CASE SendPost(d)
      <4>1. deviceAppIdCounter[d] + 1 \in Nat /\ response[d].listed \in BOOLEAN
        BY <3>2, MessageFacts DEF SendPost, TypeInv, DevicesOK
      <4>2. [kind |-> "POST", app |-> Wants[d], hasAppDId |-> response[d].listed,
             ueAppID |-> deviceAppIdCounter[d] + 1] \in Requests
        BY <4>1 DEF Requests, MecAssumption
      <4> QED BY <3>1, <3>2, <4>1, <4>2 DEF SendPost, TypeInv, DevicesOK, MeoOK
    <3>3. CASE AppCreated(d)
      <4>1. response[d].contextId \in Nat
        BY <3>3, MessageFacts DEF AppCreated, TypeInv
      <4> QED BY <3>1, <3>3, <4>1 DEF AppCreated, TypeInv, DevicesOK, MeoOK
    <3>4. CASE NotCreated(d) \/ AppDeleted(d) \/ NotDeleted(d)
      BY <3>1, <3>4 DEF NotCreated, AppDeleted, NotDeleted, TypeInv, DevicesOK, MeoOK
    <3> QED BY <2>8, <3>2, <3>3, <3>4 DEF HandleUalcmpMessage
  <2> QED BY <2>2, <2>4, <2>5, <2>6, <2>7, <2>8
<1> QED BY <1>1, <1>2

-----------------------------------------------------------------------------
(* Contexts and applications come and go together.                         *)

SameApps == \A g \in Hosts : vim'[g].mecAppMap = vim[g].mecAppMap

\* A context and its application are added.
AppStarts(h, post) ==
  /\ post.ueAppID \notin DOMAIN vim[h].mecAppMap
  /\ meAppMap' = With(meAppMap, contextIdCounter, Context(h, post))
  /\ contextIdCounter' = contextIdCounter + 1
  /\ \A g \in Hosts :
       /\ DOMAIN vim'[g].mecAppMap = IF g = h THEN DOMAIN vim[g].mecAppMap \union {post.ueAppID}
                                     ELSE DOMAIN vim[g].mecAppMap
       /\ \A id \in DOMAIN vim[g].mecAppMap : vim'[g].mecAppMap[id] = vim[g].mecAppMap[id]
  /\ vim'[h].mecAppMap[post.ueAppID].app = post.app

\* A context and its application are taken away.
AppStops(c) ==
  /\ c \in DOMAIN meAppMap /\ meAppMap[c] \in Contexts
  /\ meAppMap' = Without(meAppMap, c)
  /\ contextIdCounter' = contextIdCounter
  /\ \A g \in Hosts :
       /\ DOMAIN vim'[g].mecAppMap = IF g = meAppMap[c].host
                                     THEN DOMAIN vim[g].mecAppMap \ {meAppMap[c].ueAppID}
                                     ELSE DOMAIN vim[g].mecAppMap
       /\ \A id \in DOMAIN vim'[g].mecAppMap : vim'[g].mecAppMap[id] = vim[g].mecAppMap[id]

LEMMA StartChange ==
  ASSUME MecAssumption, TypeInv, NEW d \in DeviceApps, request[d].kind = "POST",
         StartOnHost(d, request[d])
  PROVE  \/ meAppMap' = meAppMap /\ contextIdCounter' = contextIdCounter /\ SameApps
         \/ \E h \in Hosts : AppStarts(h, request[d])
<1> DEFINE post == request[d]
<1>1. PICK h \in BestMecHosts(post.app) :
        /\ h \in Hosts
        /\ Started(h, post).status \in BOOLEAN
        /\ vim' = [vim EXCEPT ![h] = Started(h, post).vim]
        /\ Started(h, post).status =>
             /\ meAppMap' = With(meAppMap, contextIdCounter, Context(h, post))
             /\ contextIdCounter' = contextIdCounter + 1
        /\ ~Started(h, post).status =>
             meAppMap' = meAppMap /\ contextIdCounter' = contextIdCounter
  BY StartFacts, Zenon
<1>2. /\ vim \in [Hosts -> Vims] /\ vim[h] \in Vims /\ vim[h].mecAppMap \in MecAppMaps
      /\ post.ueAppID \in Nat /\ post.app \in AppDIds
  BY <1>1, MessageFacts DEF TypeInv, MeoOK, Vims
<1> DEFINE w == Started(h, post).vim
           m == vim[h].mecAppMap
           gate == IF post.app \in Emulated THEN 0 ELSE FirstGate(vim[h])
           e == [app |-> post.app, gate |-> gate]
           n == With(m, post.ueAppID, e)
<1>3. /\ e \in MecApps
      /\ Started(h, post).status => w.mecAppMap = n /\ post.ueAppID \notin DOMAIN m
      /\ ~Started(h, post).status => w.mecAppMap = m
  BY <1>2, StartVim DEF Started
<1>4. e.app = post.app
  OBVIOUS
<1> HIDE DEF post, e, w
<1>5. \A g \in Hosts : vim'[g] = IF g = h THEN w ELSE vim[g]
  BY <1>1, <1>2 DEF w
<1>6. CASE ~Started(h, post).status
  BY <1>1, <1>3, <1>5, <1>6 DEF SameApps
<1>7. CASE Started(h, post).status
  <2>1. /\ DOMAIN n = DOMAIN m \union {post.ueAppID} /\ n[post.ueAppID] = e
        /\ \A x \in DOMAIN m : x # post.ueAppID => n[x] = m[x]
    <3> DEFINE id == post.ueAppID
    <3>1. m \in MecAppMaps /\ e \in MecApps /\ id \in Nat
      BY <1>2, <1>3
    <3> HIDE DEF m, id
    <3>2. /\ DOMAIN With(m, id, e) = DOMAIN m \union {id} /\ With(m, id, e)[id] = e
          /\ \A x \in DOMAIN m : x # id => With(m, id, e)[x] = m[x]
      BY <3>1, AddApp
    <3> QED BY <3>2 DEF id
  <2> DEFINE k == w.mecAppMap
  <2>2. k = n /\ post.ueAppID \notin DOMAIN m
    BY <1>3, <1>7
  <2> HIDE DEF n, k
  <2>3. /\ DOMAIN k = DOMAIN m \union {post.ueAppID} /\ k[post.ueAppID].app = post.app
        /\ \A x \in DOMAIN m : k[x] = m[x]
    BY <1>4, <2>1, <2>2
  <2>4. AppStarts(h, post)
    BY <1>1, <1>5, <1>7, <2>2, <2>3 DEF AppStarts, k
  <2> QED BY <1>1, <2>4 DEF post
<1> QED BY <1>1, <1>6, <1>7

LEMMA StopChange ==
  ASSUME MecAssumption, TypeInv, NEW d \in DeviceApps, request[d].kind = "DELETE",
         NEW c, c = request[d].contextId, StopKnown(d, c), failed = FALSE,
         contextIdCounter' = contextIdCounter
  PROVE  \/ meAppMap' = meAppMap /\ SameApps
         \/ AppStops(c)
<1>1. \/ meAppMap' = meAppMap /\ vim' = vim
      \/ /\ c \in DOMAIN meAppMap
         /\ meAppMap[c] \in Contexts /\ Stopped(c).status \in BOOLEAN
         /\ vim' = [vim EXCEPT ![meAppMap[c].host] = Stopped(c).vim]
         /\ meAppMap' = IF Stopped(c).status THEN Without(meAppMap, c) ELSE meAppMap
  BY StopFacts
<1>2. CASE meAppMap' = meAppMap /\ vim' = vim
  BY <1>2 DEF SameApps
<1>3. CASE ~(meAppMap' = meAppMap /\ vim' = vim)
  <2> DEFINE h == meAppMap[c].host
             id == meAppMap[c].ueAppID
             w == Stopped(c).vim
             m == vim[h].mecAppMap
             n == Without(m, id)
  <2>1. /\ h \in Hosts /\ id \in Nat /\ vim[h] \in Vims /\ m \in MecAppMaps
        /\ vim \in [Hosts -> Vims]
    BY <1>1, <1>3 DEF Contexts, TypeInv, MeoOK, Vims
  <2>2. /\ Stopped(c).status => w.mecAppMap = n
        /\ ~Stopped(c).status => w = vim[h]
    BY <2>1, StopVim DEF Stopped
  <2>3. \A g \in Hosts : vim'[g] = IF g = h THEN w ELSE vim[g]
    BY <1>1, <1>3, <2>1
  <2>4. CASE ~Stopped(c).status
    BY <1>1, <1>3, <2>2, <2>3, <2>4 DEF SameApps
  <2>5. CASE Stopped(c).status
    <3>1. DOMAIN n = DOMAIN m \ {id} /\ \A x \in DOMAIN n : n[x] = m[x]
      BY <2>1, RemoveApp
    <3> DEFINE k == w.mecAppMap
    <3>2. k = n
      BY <2>2, <2>5
    <3> HIDE DEF n, w
    <3>3. DOMAIN k = DOMAIN m \ {id} /\ \A x \in DOMAIN k : k[x] = m[x]
      BY <3>1, <3>2
    <3> QED BY <1>1, <1>3, <2>3, <2>5, <3>3 DEF AppStops
  <2> QED BY <1>1, <1>3, <2>4, <2>5
<1> QED BY <1>2, <1>3

LEMMA MapCalls ==
  ASSUME MecAssumption, TypeInv, [Next]_vars, ~Logging
  PROVE  \/ meAppMap' = meAppMap /\ contextIdCounter' = contextIdCounter /\ SameApps
         \/ \E d \in DeviceApps, h \in Hosts :
              request[d].kind = "POST" /\ AppStarts(h, request[d])
         \/ \E c \in DOMAIN meAppMap : AppStops(c)
<1>1. CASE UNCHANGED vars
  BY <1>1 DEF vars, SameApps
<1>2. CASE Next
  <2>1. failed = FALSE
    BY <1>2 DEF Next, TypeInv, MeoOK
  <2>2. PICK d \in DeviceApps :
          \/ SendStartAppContext(d) \/ SendStopAppContext(d)
          \/ ManageRequest(d) \/ SendAck(d) \/ HandleUalcmpMessage(d)
    BY <1>2 DEF Next
  <2>3. CASE SendStartAppContext(d) \/ SendStopAppContext(d) \/ SendAck(d) \/ HandleUalcmpMessage(d)
    BY <2>3 DEF SendStartAppContext, SendStopAppContext, SendAck, HandleUalcmpMessage, SameApps
  <2>4. CASE ManageRequest(d)
    <3>1. CASE HandleGETRequest(d)
      BY <3>1 DEF HandleGETRequest, SameApps
    <3>2. CASE HandlePOSTRequest(d)
      <4>1. request[d].kind = "POST" /\ StartMecApp(d, request[d])
        BY <3>2 DEF HandlePOSTRequest
      <4>2. CASE AckExisting(d, request[d]) \/ NoSuitableHost(d, request[d])
        BY <4>2 DEF AckExisting, NoSuitableHost, SameApps
      <4>3. CASE StartOnHost(d, request[d])
        BY <4>1, <4>3, StartChange
      <4> QED BY <4>1, <4>2, <4>3 DEF StartMecApp
    <3>3. CASE HandleDELETERequest(d)
      <4> DEFINE c == request[d].contextId
      <4>1. /\ request[d].kind = "DELETE" /\ (StopUnknown(d, c) \/ StopKnown(d, c))
            /\ contextIdCounter' = contextIdCounter
        BY <3>3 DEF HandleDELETERequest, StopMecApp
      <4>2. CASE StopUnknown(d, c)
        BY <4>1, <4>2 DEF StopUnknown, SameApps
      <4>3. CASE StopKnown(d, c)
        <5>1. (meAppMap' = meAppMap /\ SameApps) \/ AppStops(c)
          BY <2>1, <4>1, <4>3, StopChange
        <5>2. AppStops(c) => c \in DOMAIN meAppMap
          BY DEF AppStops
        <5> QED BY <4>1, <5>1, <5>2
      <4> QED BY <4>1, <4>2, <4>3
    <3> QED BY <2>4, <3>1, <3>2, <3>3 DEF ManageRequest
  <2> QED BY <2>2, <2>3, <2>4
<1> QED BY <1>1, <1>2

LEMMA OneToOneStart ==
  ASSUME MecAssumption, TypeInv, OneToOne, NEW d \in DeviceApps, NEW h \in Hosts,
         request[d].kind = "POST", AppStarts(h, request[d])
  PROVE  OneToOne'
<1> DEFINE post == request[d]
           new == contextIdCounter
           id == post.ueAppID
           e == Context(h, post)
<1>1. /\ id \in Nat /\ post.app \in AppDIds /\ new \in Nat
      /\ DOMAIN meAppMap \in SUBSET Nat
  BY MessageFacts DEF TypeInv, MeoOK
<1>2. e \in Contexts /\ e.app = post.app /\ e.ueAppID = id /\ e.host = h
  BY <1>1 DEF Context, Contexts
<1> HIDE DEF e
<1>3. /\ DOMAIN meAppMap' = DOMAIN meAppMap \union {new}
      /\ meAppMap'[new] = e
      /\ \A x \in DOMAIN meAppMap : x # new => meAppMap'[x] = meAppMap[x]
  <2> DEFINE n == With(meAppMap, new, e)
  <2>1. meAppMap' = n
    BY DEF AppStarts, e
  <2>2. /\ DOMAIN n = DOMAIN meAppMap \union {new} /\ n[new] = e
        /\ \A x \in DOMAIN meAppMap : x # new => n[x] = meAppMap[x]
    <3>1. new \in Nat /\ e \in Contexts \union {NoEntry} /\ MeoOK
      BY <1>1, <1>2 DEF TypeInv
    <3> HIDE DEF new
    <3> QED BY <3>1, WithContext
  <2> HIDE DEF n
  <2> QED BY <2>1, <2>2
<1>4. /\ id \notin DOMAIN vim[h].mecAppMap /\ contextIdCounter' = new + 1
      /\ \A g \in Hosts :
           /\ DOMAIN vim'[g].mecAppMap = IF g = h THEN DOMAIN vim[g].mecAppMap \union {id}
                                         ELSE DOMAIN vim[g].mecAppMap
           /\ \A x \in DOMAIN vim[g].mecAppMap : vim'[g].mecAppMap[x] = vim[g].mecAppMap[x]
      /\ vim'[h].mecAppMap[id].app = post.app
  BY DEF AppStarts
<1>5. \A x \in DOMAIN meAppMap :
        /\ x < new /\ x # new /\ meAppMap'[x] = meAppMap[x]
        /\ meAppMap[x] \in Contexts /\ meAppMap[x].host \in Hosts
        /\ meAppMap[x].ueAppID \in DOMAIN vim[meAppMap[x].host].mecAppMap
        /\ vim[meAppMap[x].host].mecAppMap[meAppMap[x].ueAppID].app = meAppMap[x].app
        /\ ~(meAppMap[x].host = h /\ meAppMap[x].ueAppID = id)
  BY <1>1, <1>3, <1>4 DEF OneToOne, ContextHasApp, Contexts
<1> HIDE DEF id, new
<1>6. ContextHasApp'
  <2>1. ASSUME NEW x \in DOMAIN meAppMap
        PROVE  /\ x < contextIdCounter' /\ meAppMap'[x] \in Contexts
               /\ meAppMap'[x].ueAppID \in DOMAIN vim'[meAppMap'[x].host].mecAppMap
               /\ vim'[meAppMap'[x].host].mecAppMap[meAppMap'[x].ueAppID].app = meAppMap'[x].app
    <3>1. meAppMap'[x] = meAppMap[x] /\ x \in Nat /\ x < new
      BY <1>1, <1>5
    <3>2. x < contextIdCounter'
      BY <1>1, <1>4, <3>1
    <3> DEFINE g == meAppMap[x].host
               k == meAppMap[x].ueAppID
    <3>3. /\ g \in Hosts /\ k \in DOMAIN vim[g].mecAppMap /\ meAppMap[x] \in Contexts
          /\ vim[g].mecAppMap[k].app = meAppMap[x].app
      BY <1>5
    <3> HIDE DEF g, k
    <3>4. k \in DOMAIN vim'[g].mecAppMap /\ vim'[g].mecAppMap[k] = vim[g].mecAppMap[k]
      BY <1>4, <3>3
    <3>5. meAppMap'[x].host = g /\ meAppMap'[x].ueAppID = k /\ meAppMap'[x] = meAppMap[x]
      BY <3>1 DEF g, k
    <3> QED BY <3>2, <3>3, <3>4, <3>5
  <2>2. /\ new < contextIdCounter' /\ meAppMap'[new] \in Contexts
        /\ meAppMap'[new].ueAppID \in DOMAIN vim'[meAppMap'[new].host].mecAppMap
        /\ vim'[meAppMap'[new].host].mecAppMap[meAppMap'[new].ueAppID].app = meAppMap'[new].app
    <3>1. new < contextIdCounter' /\ id \in DOMAIN vim'[h].mecAppMap
      <4>1. new < contextIdCounter'
        BY <1>1, <1>4
      <4>2. DOMAIN vim'[h].mecAppMap = DOMAIN vim[h].mecAppMap \union {id}
        BY <1>4
      <4> QED BY <4>1, <4>2
    <3>2. meAppMap'[new] = e
      BY <1>3
    <3> DEFINE k == meAppMap'[new]
    <3>3. k \in Contexts /\ k.host = h /\ k.ueAppID = id /\ k.app = post.app
      BY <1>2, <3>2
    <3> HIDE DEF k
    <3>4. k.ueAppID \in DOMAIN vim'[k.host].mecAppMap
      BY <3>1, <3>3
    <3>5. vim'[k.host].mecAppMap[k.ueAppID].app = k.app
      BY <1>4, <3>3
    <3> QED BY <3>1, <3>3, <3>4, <3>5 DEF k
  <2> QED BY <1>3, <2>1, <2>2 DEF ContextHasApp
<1>7. AppHasContext'
  <2>1. ASSUME NEW g \in Hosts, NEW x \in DOMAIN vim'[g].mecAppMap
        PROVE  \E c \in DOMAIN meAppMap' : meAppMap'[c].host = g /\ meAppMap'[c].ueAppID = x
    <3>1. CASE x \in DOMAIN vim[g].mecAppMap
      BY <1>3, <1>5, <3>1 DEF OneToOne, AppHasContext
    <3>2. CASE x \notin DOMAIN vim[g].mecAppMap
      <4>1. g = h /\ x = id
        BY <1>4, <2>1, <3>2
      <4> QED BY <1>2, <1>3, <4>1
    <3> QED BY <3>1, <3>2
  <2> QED BY <2>1 DEF AppHasContext
<1>8. OneContext'
  BY <1>2, <1>3, <1>5 DEF OneToOne, OneContext
<1> QED BY <1>6, <1>7, <1>8 DEF OneToOne

LEMMA OneToOneStop ==
  ASSUME MecAssumption, TypeInv, OneToOne, NEW c \in DOMAIN meAppMap, AppStops(c)
  PROVE  OneToOne'
<1> DEFINE h == meAppMap[c].host
           id == meAppMap[c].ueAppID
<1>1. h \in Hosts
  BY DEF AppStops, Contexts
<1>2. /\ DOMAIN meAppMap' = DOMAIN meAppMap \ {c}
      /\ \A x \in DOMAIN meAppMap' : meAppMap'[x] = meAppMap[x]
  BY WithoutContext DEF AppStops, TypeInv
<1>3. /\ contextIdCounter' = contextIdCounter
      /\ \A g \in Hosts :
           /\ DOMAIN vim'[g].mecAppMap = IF g = h THEN DOMAIN vim[g].mecAppMap \ {id}
                                         ELSE DOMAIN vim[g].mecAppMap
           /\ \A x \in DOMAIN vim'[g].mecAppMap : vim'[g].mecAppMap[x] = vim[g].mecAppMap[x]
  BY DEF AppStops
<1>4. \A x \in DOMAIN meAppMap' :
        /\ x \in DOMAIN meAppMap /\ x # c /\ x < contextIdCounter
        /\ meAppMap[x] \in Contexts /\ meAppMap[x].host \in Hosts
        /\ meAppMap[x].ueAppID \in DOMAIN vim[meAppMap[x].host].mecAppMap
        /\ vim[meAppMap[x].host].mecAppMap[meAppMap[x].ueAppID].app = meAppMap[x].app
        /\ ~(meAppMap[x].host = h /\ meAppMap[x].ueAppID = id)
  BY <1>2 DEF OneToOne, ContextHasApp, OneContext, Contexts
<1>5. ContextHasApp'
  <2>1. ASSUME NEW x \in DOMAIN meAppMap'
        PROVE  /\ x < contextIdCounter' /\ meAppMap'[x] \in Contexts
               /\ meAppMap'[x].ueAppID \in DOMAIN vim'[meAppMap'[x].host].mecAppMap
               /\ vim'[meAppMap'[x].host].mecAppMap[meAppMap'[x].ueAppID].app = meAppMap'[x].app
    <3> DEFINE g == meAppMap[x].host
               k == meAppMap[x].ueAppID
    <3>1. /\ g \in Hosts /\ k \in DOMAIN vim[g].mecAppMap /\ meAppMap[x] \in Contexts
          /\ vim[g].mecAppMap[k].app = meAppMap[x].app /\ ~(g = h /\ k = id)
          /\ x < contextIdCounter'
      BY <1>3, <1>4
    <3>2. meAppMap'[x].host = g /\ meAppMap'[x].ueAppID = k /\ meAppMap'[x] = meAppMap[x]
      BY <1>2
    <3> HIDE DEF g, k, h, id
    <3>3. k \in DOMAIN vim'[g].mecAppMap /\ vim'[g].mecAppMap[k] = vim[g].mecAppMap[k]
      BY <1>3, <3>1
    <3> QED BY <3>1, <3>2, <3>3
  <2> QED BY <2>1 DEF ContextHasApp
<1>6. AppHasContext'
  <2>1. ASSUME NEW g \in Hosts, NEW x \in DOMAIN vim'[g].mecAppMap
        PROVE  \E k \in DOMAIN meAppMap' : meAppMap'[k].host = g /\ meAppMap'[k].ueAppID = x
    <3>1. x \in DOMAIN vim[g].mecAppMap /\ ~(g = h /\ x = id)
      BY <1>3
    <3>2. PICK k \in DOMAIN meAppMap : meAppMap[k].host = g /\ meAppMap[k].ueAppID = x
      BY <3>1 DEF OneToOne, AppHasContext
    <3>3. k \in DOMAIN meAppMap'
      BY <1>2, <3>1, <3>2
    <3> QED BY <1>2, <3>2, <3>3
  <2> QED BY <2>1 DEF AppHasContext
<1>7. OneContext'
  BY <1>2, <1>4 DEF OneToOne, OneContext
<1> QED BY <1>5, <1>6, <1>7 DEF OneToOne

LEMMA OneToOneStep ==
  ASSUME MecAssumption, TypeInv, OneToOne, [Next]_vars, ~Logging
  PROVE  OneToOne'
<1>1. CASE meAppMap' = meAppMap /\ contextIdCounter' = contextIdCounter /\ SameApps
  <2>1. \A c \in DOMAIN meAppMap : meAppMap[c].host \in Hosts
    BY DEF OneToOne, ContextHasApp, Contexts
  <2>2. ContextHasApp'
    BY <1>1, <2>1 DEF OneToOne, ContextHasApp, SameApps
  <2>3. AppHasContext'
    BY <1>1 DEF OneToOne, AppHasContext, SameApps
  <2>4. OneContext'
    BY <1>1 DEF OneToOne, OneContext
  <2> QED BY <2>2, <2>3, <2>4 DEF OneToOne
<1>2. ASSUME NEW d \in DeviceApps, NEW h \in Hosts,
             request[d].kind = "POST", AppStarts(h, request[d])
      PROVE  OneToOne'
  BY <1>2, OneToOneStart
<1>3. ASSUME NEW c \in DOMAIN meAppMap, AppStops(c)
      PROVE  OneToOne'
  BY <1>3, OneToOneStop
<1> QED BY <1>1, <1>2, <1>3, MapCalls

-----------------------------------------------------------------------------
(* The conversations, and who holds a context.  A step is a step of one    *)
(* device application d: it leaves the others alone, d waits for what its  *)
(* new state waits for, and a context that d holds no longer is gone.      *)

Others(d) ==
  \A e \in DeviceApps \ {d} :
    /\ appState'[e] = appState[e] /\ appContextUri'[e] = appContextUri[e]
    /\ request'[e] = request[e] /\ response'[e] = response[e] /\ meoMsg'[e] = meoMsg[e]
Kept(d) ==
  \A c \in DOMAIN meAppMap' : Holds(d, c)' \/ (c \in DOMAIN meAppMap /\ ~Holds(d, c))
Proceeds(d) == Others(d) /\ (failed' \/ Waits(d)') /\ Kept(d)

LEMMA StateOf ==
  ASSUME TypeInv, NEW d \in DeviceApps
  PROVE  appState[d] \in {"IDLE", "START", "CREATING", "APPCREATED", "DELETING"}
BY DEF TypeInv, DevicesOK

LEMMA AskProceeds ==
  ASSUME TypeInv, NEW d \in DeviceApps, Waits(d),
         SendStartAppContext(d) \/ SendStopAppContext(d)
  PROVE  Proceeds(d)
<1>1. Others(d) /\ meAppMap' = meAppMap
  BY DEF SendStartAppContext, SendStopAppContext, Others, TypeInv, DevicesOK
<1>2. CASE SendStartAppContext(d)
  <2>1. /\ appState[d] = "IDLE" /\ appState'[d] = "START" /\ request'[d].kind = "GET"
        /\ response' = response /\ meoMsg' = meoMsg
    BY <1>2 DEF SendStartAppContext, TypeInv, DevicesOK
  <2> QED BY <1>1, <2>1 DEF Proceeds, Waits, Talk, Kept, Holds
<1>3. CASE SendStopAppContext(d)
  <2>1. /\ appState[d] = "APPCREATED" /\ appState'[d] = "DELETING"
        /\ request'[d].kind = "DELETE" /\ request'[d].contextId = appContextUri[d]
        /\ response' = response /\ meoMsg' = meoMsg /\ appContextUri' = appContextUri
    BY <1>3 DEF SendStopAppContext, TypeInv, DevicesOK
  <2> QED BY <1>1, <2>1 DEF Proceeds, Waits, Talk, Kept, Holds, Told
<1> QED BY <1>2, <1>3

\* What the proxy and the orchestrator leave alone.
LEMMA ServiceFacts ==
  ASSUME TypeInv, NEW d \in DeviceApps, ManageRequest(d)
  PROVE  /\ appState' = appState /\ appContextUri' = appContextUri
         /\ request'[d].kind = "none"
         /\ \A e \in DeviceApps \ {d} : request'[e] = request[e]
BY DEF ManageRequest, Nothing, TypeInv, DevicesOK

LEMMA GetProceeds ==
  ASSUME TypeInv, NEW d \in DeviceApps, Waits(d), ManageRequest(d), HandleGETRequest(d)
  PROVE  Proceeds(d)
<1>1. /\ request[d].kind = "GET" /\ response'[d].kind = "200" /\ meoMsg' = meoMsg
      /\ \A e \in DeviceApps \ {d} : response'[e] = response[e]
      /\ meAppMap' = meAppMap
  BY DEF HandleGETRequest, TypeInv, DevicesOK
<1>2. appState[d] = "START"
  BY <1>1, StateOf DEF Waits, Talk
<1> QED BY <1>1, <1>2, ServiceFacts DEF Proceeds, Others, Waits, Talk, Kept, Holds

LEMMA PostProceeds ==
  ASSUME MecAssumption, TypeInv, NEW d \in DeviceApps, Waits(d),
         ManageRequest(d), HandlePOSTRequest(d)
  PROVE  Proceeds(d)
<1> DEFINE post == request[d]
<1>1. post.kind = "POST" /\ StartMecApp(d, post)
  BY DEF HandlePOSTRequest
<1>2. appState[d] = "CREATING" /\ meoMsg[d].kind = "none" /\ response[d].kind = "none"
  BY <1>1, StateOf DEF Waits, Talk
<1>3. CASE AckExisting(d, post)
  <2>1. /\ response'[d].kind = "201" /\ meoMsg' = meoMsg /\ meAppMap' = meAppMap
        /\ \A e \in DeviceApps \ {d} : response'[e] = response[e]
    BY <1>3 DEF AckExisting, TypeInv, DevicesOK
  <2> QED BY <1>1, <1>2, <2>1, ServiceFacts DEF Proceeds, Others, Waits, Talk, Kept, Holds
<1>4. CASE NoSuitableHost(d, post)
  <2>1. /\ meoMsg'[d].kind = "CREATE" /\ response' = response /\ meAppMap' = meAppMap
        /\ \A e \in DeviceApps \ {d} : meoMsg'[e] = meoMsg[e]
    BY <1>4 DEF NoSuitableHost, TypeInv, DevicesOK
  <2> QED BY <1>1, <1>2, <2>1, ServiceFacts DEF Proceeds, Others, Waits, Talk, Kept, Holds
<1>5. CASE StartOnHost(d, post)
  <2>1. PICK h \in BestMecHosts(post.app) :
          /\ Started(h, post).status \in BOOLEAN
          /\ Started(h, post).status =>
               meAppMap' = With(meAppMap, contextIdCounter, Context(h, post))
          /\ ~Started(h, post).status => meAppMap' = meAppMap
          /\ meoMsg' = [meoMsg EXCEPT ![d] =
               [kind |-> "CREATE", success |-> Started(h, post).status,
                contextId |-> contextIdCounter]]
          /\ response' = response
    <3> HIDE DEF post
    <3> QED BY <1>1, <1>5, StartFacts, Zenon DEF post
  <2> DEFINE ok == Started(h, post).status
  <2>2. /\ meoMsg'[d].kind = "CREATE" /\ meoMsg'[d].success = ok
        /\ meoMsg'[d].contextId = contextIdCounter
        /\ \A e \in DeviceApps \ {d} : meoMsg'[e] = meoMsg[e]
    BY <2>1 DEF TypeInv, DevicesOK
  <2>3. \A c \in DOMAIN meAppMap' : c \in DOMAIN meAppMap \/ (ok /\ c = contextIdCounter)
    <3>1. DOMAIN With(meAppMap, contextIdCounter, Context(h, post)) =
            DOMAIN meAppMap \union {contextIdCounter}
      BY DEF With
    <3> QED BY <2>1, <3>1
  <2> HIDE DEF ok
  <2> QED BY <1>1, <1>2, <2>1, <2>2, <2>3, ServiceFacts
          DEF Proceeds, Others, Waits, Talk, Kept, Holds
<1> QED BY <1>1, <1>3, <1>4, <1>5 DEF StartMecApp

LEMMA DeleteProceeds ==
  ASSUME MecAssumption, TypeInv, NEW d \in DeviceApps, Waits(d),
         ManageRequest(d), HandleDELETERequest(d), failed = FALSE
  PROVE  Proceeds(d)
<1> DEFINE c == request[d].contextId
<1>1. request[d].kind = "DELETE" /\ StopMecApp(d, c)
  BY DEF HandleDELETERequest
<1>2. /\ appState[d] = "DELETING" /\ meoMsg[d].kind = "none" /\ response[d].kind = "none"
      /\ c = appContextUri[d]
  BY <1>1, StateOf DEF Waits, Talk
<1>3. CASE StopUnknown(d, c)
  <2>1. /\ response'[d].kind = "500" /\ meoMsg' = meoMsg
        /\ \A e \in DeviceApps \ {d} : response'[e] = response[e]
    BY <1>3 DEF StopUnknown, TypeInv, DevicesOK
  <2>2. DOMAIN meAppMap' \in SUBSET (DOMAIN meAppMap \union {c})
    BY <1>3 DEF StopUnknown, With
  <2> HIDE DEF c
  <2> QED BY <1>1, <1>2, <2>1, <2>2, ServiceFacts
          DEF Proceeds, Others, Waits, Talk, Kept, Holds, Told
<1>4. CASE StopKnown(d, c)
  <2>1. /\ response' = response
        /\ \/ failed' = TRUE /\ meAppMap' = meAppMap /\ meoMsg' = meoMsg
           \/ /\ Stopped(c).status \in BOOLEAN
              /\ meAppMap' = IF Stopped(c).status THEN Without(meAppMap, c) ELSE meAppMap
              /\ meoMsg' = [meoMsg EXCEPT ![d] =
                              [kind |-> "DELETE", success |-> Stopped(c).status]]
    BY <1>1, <1>4, StopFacts
  <2> DEFINE ok == Stopped(c).status
  <2>2. CASE failed' = TRUE /\ meAppMap' = meAppMap /\ meoMsg' = meoMsg
    BY <1>2, <2>1, <2>2, ServiceFacts DEF Proceeds, Others, Kept, Holds, Told
  <2>3. CASE ~(failed' = TRUE /\ meAppMap' = meAppMap /\ meoMsg' = meoMsg)
    <3>1. /\ meoMsg'[d].kind = "DELETE" /\ meoMsg'[d].success = ok
          /\ \A e \in DeviceApps \ {d} : meoMsg'[e] = meoMsg[e]
      BY <2>1, <2>3 DEF TypeInv, DevicesOK
    <3>2. \A x \in DOMAIN meAppMap' : x \in DOMAIN meAppMap /\ (ok => x # c)
      <4>1. DOMAIN Without(meAppMap, c) = DOMAIN meAppMap \ {c}
        BY DEF Without
      <4> QED BY <2>1, <2>3, <4>1
    <3> HIDE DEF ok, c
    <3> QED BY <1>1, <1>2, <2>1, <3>1, <3>2, ServiceFacts
            DEF Proceeds, Others, Waits, Talk, Kept, Holds, Told
  <2> QED BY <2>2, <2>3
<1> QED BY <1>1, <1>3, <1>4 DEF StopMecApp

LEMMA AckProceeds ==
  ASSUME TypeInv, NEW d \in DeviceApps, Waits(d), SendAck(d)
  PROVE  Proceeds(d)
<1> DEFINE msg == meoMsg[d]
           answer == IF ~msg.success THEN [kind |-> "500"]
                     ELSE IF msg.kind = "DELETE" THEN [kind |-> "204"]
                     ELSE IF msg.contextId \notin DOMAIN meAppMap THEN Nothing
                     ELSE [kind |-> "201", contextId |-> msg.contextId]
<1>1. response' = [response EXCEPT ![d] = answer] /\ msg.kind \in {"CREATE", "DELETE"}
  BY MessageFacts, Zenon DEF SendAck, TypeInv
<1>2. /\ response'[d] = answer /\ meoMsg'[d].kind = "none"
      /\ request' = request /\ appState' = appState /\ appContextUri' = appContextUri
      /\ meAppMap' = meAppMap
      /\ \A e \in DeviceApps \ {d} : response'[e] = response[e] /\ meoMsg'[e] = meoMsg[e]
  <2> HIDE DEF answer
  <2> QED BY <1>1 DEF SendAck, Nothing, TypeInv, DevicesOK
<1>3. /\ ~msg.success => answer.kind = "500"
      /\ (msg.success /\ msg.kind = "DELETE") => answer.kind = "204"
      /\ (msg.success /\ msg.kind = "CREATE") =>
           \/ answer.kind = "none" /\ msg.contextId \notin DOMAIN meAppMap
           \/ answer.kind = "201" /\ answer.contextId = msg.contextId
  BY DEF Nothing
<1> HIDE DEF answer
<1>4. CASE msg.kind = "CREATE"
  <2>1. appState[d] = "CREATING" /\ request[d].kind = "none" /\ response[d].kind = "none"
    BY <1>4, StateOf DEF Waits, Talk
  <2>2. msg.success \in BOOLEAN
    BY <1>4, MessageFacts DEF TypeInv
  <2>3. Waits(d)'
    BY <1>2, <1>3, <1>4, <2>1, <2>2 DEF Waits, Talk
  <2>4. Kept(d)
    BY <1>2, <1>3, <1>4, <2>1, <2>2 DEF Kept, Holds
  <2> QED BY <1>2, <2>3, <2>4 DEF Proceeds, Others
<1>5. CASE msg.kind = "DELETE"
  <2>1. appState[d] = "DELETING" /\ request[d].kind = "none" /\ response[d].kind = "none"
    BY <1>5, StateOf DEF Waits, Talk
  <2>2. msg.success \in BOOLEAN
    BY <1>5, MessageFacts DEF TypeInv
  <2>3. Waits(d)'
    BY <1>2, <1>3, <1>5, <2>1, <2>2 DEF Waits, Talk
  <2>4. Kept(d)
    BY <1>2, <1>3, <1>5, <2>1, <2>2 DEF Kept, Holds, Told
  <2> QED BY <1>2, <2>3, <2>4 DEF Proceeds, Others
<1> QED BY <1>1, <1>4, <1>5

LEMMA AnswerProceeds ==
  ASSUME TypeInv, NEW d \in DeviceApps, Waits(d), HandleUalcmpMessage(d)
  PROVE  Proceeds(d)
<1>1. /\ response'[d].kind = "none" /\ meoMsg' = meoMsg /\ meAppMap' = meAppMap
      /\ \A e \in DeviceApps \ {d} : response'[e] = response[e]
  BY DEF HandleUalcmpMessage, Nothing, TypeInv, DevicesOK
<1>2. CASE SendPost(d)
  <2>1. /\ appState[d] = "START" /\ appState'[d] = "CREATING"
        /\ request'[d].kind = "POST" /\ response[d].kind = "200"
        /\ \A e \in DeviceApps \ {d} : appState'[e] = appState[e] /\ request'[e] = request[e]
        /\ appContextUri' = appContextUri
    BY <1>2 DEF SendPost, TypeInv, DevicesOK
  <2> QED BY <1>1, <2>1 DEF Proceeds, Others, Waits, Talk, Kept, Holds
<1>3. CASE AppCreated(d)
  <2>1. /\ appState[d] = "CREATING" /\ appState'[d] = "APPCREATED"
        /\ appContextUri'[d] = response[d].contextId /\ response[d].kind = "201"
        /\ \A e \in DeviceApps \ {d} :
             appState'[e] = appState[e] /\ appContextUri'[e] = appContextUri[e]
        /\ request' = request
    BY <1>3 DEF AppCreated, TypeInv, DevicesOK
  <2> QED BY <1>1, <2>1 DEF Proceeds, Others, Waits, Talk, Kept, Holds
<1>4. CASE NotCreated(d)
  <2>1. /\ appState[d] = "CREATING" /\ appState'[d] = "IDLE" /\ response[d].kind = "500"
        /\ \A e \in DeviceApps \ {d} : appState'[e] = appState[e]
        /\ request' = request /\ appContextUri' = appContextUri
    BY <1>4 DEF NotCreated, TypeInv, DevicesOK
  <2> QED BY <1>1, <2>1 DEF Proceeds, Others, Waits, Talk, Kept, Holds
<1>5. CASE AppDeleted(d)
  <2>1. /\ appState[d] = "DELETING" /\ appState'[d] = "IDLE" /\ response[d].kind = "204"
        /\ \A e \in DeviceApps \ {d} : appState'[e] = appState[e]
        /\ request' = request /\ appContextUri' = appContextUri
    BY <1>5 DEF AppDeleted, TypeInv, DevicesOK
  <2> QED BY <1>1, <2>1 DEF Proceeds, Others, Waits, Talk, Kept, Holds, Told
<1>6. CASE NotDeleted(d)
  <2>1. /\ appState[d] = "DELETING" /\ appState'[d] = "APPCREATED" /\ response[d].kind = "500"
        /\ \A e \in DeviceApps \ {d} : appState'[e] = appState[e]
        /\ request' = request /\ appContextUri' = appContextUri
    BY <1>6 DEF NotDeleted, TypeInv, DevicesOK
  <2> QED BY <1>1, <2>1 DEF Proceeds, Others, Waits, Talk, Kept, Holds, Told
<1> QED BY <1>2, <1>3, <1>4, <1>5, <1>6 DEF HandleUalcmpMessage

LEMMA EveryStepProceeds ==
  ASSUME MecAssumption, TypeInv, Conversation, Next
  PROVE  \E d \in DeviceApps : Proceeds(d)
<1>1. failed = FALSE /\ \A d \in DeviceApps : Waits(d)
  BY DEF Next, Conversation, TypeInv, MeoOK
<1>2. PICK d \in DeviceApps :
        \/ SendStartAppContext(d) \/ SendStopAppContext(d)
        \/ ManageRequest(d) \/ SendAck(d) \/ HandleUalcmpMessage(d)
  BY DEF Next
<1>3. CASE ManageRequest(d)
  BY <1>1, <1>3, GetProceeds, PostProceeds, DeleteProceeds DEF ManageRequest
<1> QED BY <1>1, <1>2, <1>3, AskProceeds, AckProceeds, AnswerProceeds

LEMMA ConversationStep ==
  ASSUME MecAssumption, TypeInv, Conversation, Known, [Next]_vars
  PROVE  Conversation' /\ Known'
<1>1. CASE UNCHANGED vars
  BY <1>1 DEF vars, Conversation, Waits, Talk, Known, Holds, Told
<1>2. CASE Next
  <2>1. failed = FALSE /\ \A d \in DeviceApps : Waits(d)
    BY <1>2 DEF Next, Conversation, TypeInv, MeoOK
  <2>2. PICK d \in DeviceApps : Proceeds(d)
    BY <1>2, EveryStepProceeds
  <2>3. \A e \in DeviceApps \ {d} : Waits(e)'
    BY <2>1, <2>2 DEF Proceeds, Others, Waits, Talk
  <2>4. Conversation'
    BY <2>2, <2>3 DEF Proceeds, Conversation
  <2>5. \A e \in DeviceApps \ {d}, c \in DOMAIN meAppMap' : Holds(e, c) => Holds(e, c)'
    BY <2>2 DEF Proceeds, Others, Holds, Told
  <2>6. Known'
    <3>1. ASSUME NEW c \in DOMAIN meAppMap' PROVE \E e \in DeviceApps : Holds(e, c)'
      <4>1. CASE Holds(d, c)'
        BY <4>1
      <4>2. CASE ~Holds(d, c)'
        <5>1. c \in DOMAIN meAppMap /\ ~Holds(d, c)
          BY <2>2, <4>2 DEF Proceeds, Kept
        <5>2. PICK e \in DeviceApps : Holds(e, c)
          BY <5>1 DEF Known
        <5> QED BY <2>5, <5>1, <5>2
      <4> QED BY <4>1, <4>2
    <3> QED BY <3>1 DEF Known
  <2> QED BY <2>4, <2>6
<1> QED BY <1>1, <1>2

-----------------------------------------------------------------------------
(* The inductive invariant.  A gate is lost when a host is chosen that     *)
(* cannot take the application, and logging an unknown context makes one   *)
(* up: the parts about gates and about contexts depend on neither          *)
(* happening, and the others hold in every configuration.                  *)
IInv ==
  /\ TypeInv /\ AllCounts
  /\ MecHostBased = {} => AllGates
  /\ ~Logging => OneToOne
  /\ Conversation /\ Known

LEMMA InitInv ==
  ASSUME MecAssumption, Init
  PROVE  IInv
<1> DEFINE q == [i \in 1..MaxMecApps |-> i]
           v == [mecAppMap |-> << >>, currentMEApps |-> 0, allocated |-> 0, freeGates |-> q]
<1>1. DOMAIN << >> = {} /\ Cardinality({}) = 0 /\ IsFiniteSet({})
  BY FS_EmptySet
<1>2. MaxMecApps \in Nat /\ q \in Seq(Nat) /\ Len(q) = MaxMecApps /\ DOMAIN q = 1..MaxMecApps
  <2>1. MaxMecApps \in Nat
    BY DEF MecAssumption
  <2>2. q \in [1..MaxMecApps -> Nat]
    BY <2>1
  <2> QED BY <2>1, <2>2
<1>3. << >> \in MecAppMaps
  <2>1. << >> \in [{} -> MecApps] /\ {} \in SUBSET Nat
    BY <1>1
  <2> QED BY <2>1 DEF MecAppMaps
<1>4. v \in Vims
  <2> HIDE DEF q
  <2> QED BY <1>2, <1>3 DEF Vims
<1>5. /\ v.mecAppMap = << >> /\ v.currentMEApps = 0 /\ v.allocated = 0 /\ v.freeGates = q
  OBVIOUS
<1>6. \A h \in Hosts : vim[h] = v
  BY DEF Init
<1>7. vim \in [Hosts -> Vims]
  BY <1>4 DEF Init
<1> HIDE DEF v
<1>8. TypeInv
  <2>1. DevicesOK
    BY DEF Init, DevicesOK, Requests, Responses, MeoMsgs
  <2>2. MeoOK
    <3>1. DOMAIN meAppMap = {} /\ meAppMap \in [DOMAIN meAppMap -> Contexts \union {NoEntry}]
      BY <1>1 DEF Init
    <3> QED BY <1>7, <3>1 DEF Init, MeoOK
  <2> QED BY <2>1, <2>2 DEF TypeInv
<1>9. Counts(v)
  <2>1. Units(<< >>, {}) = {}
    BY DEF Units
  <2> QED BY <1>1, <1>5, <2>1 DEF Counts
<1>10. Gates(v)
  <2>1. Real(<< >>) = {} /\ GatesOf(<< >>) = {}
    BY <1>1 DEF Real, GatesOf
  <2>2. GateSet(q) = 1..MaxMecApps
    BY <1>2 DEF GateSet
  <2>3. Cardinality(Real(<< >>)) = 0 /\ GateSet(q) \union GatesOf(<< >>) = 1..MaxMecApps
    BY <1>1, <2>1, <2>2
  <2> DEFINE f == v.freeGates
             m == v.mecAppMap
  <2>4. f = q /\ m = << >>
    BY <1>5
  <2> HIDE DEF q, f, m
  <2>5. Len(f) + Cardinality(Real(m)) = MaxMecApps
    BY <1>2, <2>3, <2>4
  <2>6. GateSet(f) \union GatesOf(m) = 1..MaxMecApps
    BY <2>3, <2>4
  <2> QED BY <2>5, <2>6 DEF Gates, f, m
<1>11. AllCounts /\ AllGates
  BY <1>6, <1>9, <1>10 DEF AllCounts, AllGates
<1>12. DOMAIN meAppMap = {} /\ \A h \in Hosts : DOMAIN vim[h].mecAppMap = {}
  BY <1>1, <1>5, <1>6 DEF Init
<1>13. OneToOne /\ Known
  BY <1>12 DEF OneToOne, ContextHasApp, AppHasContext, OneContext, Known
<1>14. Conversation
  BY DEF Init, Conversation, Waits, Talk, Nothing
<1> QED BY <1>8, <1>11, <1>13, <1>14 DEF IInv

LEMMA NextInv ==
  ASSUME MecAssumption, IInv, [Next]_vars
  PROVE  IInv'
<1>1. TypeInv' /\ Conversation' /\ Known'
  BY TypeStep, ConversationStep DEF IInv
<1>2. AllCounts' /\ (MecHostBased = {} => AllGates')
  BY VimStep DEF IInv
<1>3. ~Logging => OneToOne'
  BY OneToOneStep DEF IInv
<1> QED BY <1>1, <1>2, <1>3 DEF IInv

LEMMA Invariance == Spec => []IInv
<1>1. Init => IInv
  BY InitInv, MecAssumption
<1>2. IInv /\ [Next]_vars => IInv'
  BY NextInv, MecAssumption
<1> QED BY <1>1, <1>2, PTL DEF Spec

(* The state keeps its shape, and a message the form of its kind.          *)
THEOREM TypeCorrect == Spec => []TypeInv
<1>1. IInv => TypeInv
  BY DEF IInv
<1> QED BY <1>1, Invariance, PTL

(* The slots, the resources and the gates of a VIM are those of the        *)
(* applications in its map, whatever calls succeed, fail or collide: for   *)
(* the policies that look whether a host can take the application.         *)
THEOREM NothingLeaks ==
  ASSUME MecHostBased = {}
  PROVE  Spec => []ResourcesAccounted
<1>1. IInv => ResourcesAccounted
  <2> SUFFICES ASSUME IInv, NEW h \in Hosts
               PROVE  \E v \in {vim[h]} : \E ids \in {DOMAIN v.mecAppMap} :
                        /\ v.currentMEApps = Cardinality(ids)
                        /\ v.allocated =
                             MapThenSumSet(LAMBDA id : Cost[v.mecAppMap[id].app], ids)
                        /\ \E real \in {{id \in ids : v.mecAppMap[id].app \notin Emulated}} :
                             /\ Len(v.freeGates) + Cardinality(real) = MaxMecApps
                             /\ {v.freeGates[i] : i \in DOMAIN v.freeGates}
                                  \union {v.mecAppMap[id].gate : id \in real} = 1..MaxMecApps
    BY DEF ResourcesAccounted
  <2> DEFINE v == vim[h]
             ids == DOMAIN v.mecAppMap
             real == {id \in ids : v.mecAppMap[id].app \notin Emulated}
  <2>1. v \in Vims /\ v.mecAppMap \in MecAppMaps /\ Counts(v) /\ Gates(v)
    BY DEF IInv, TypeInv, MeoOK, AllCounts, AllGates, Vims
  <2>2. /\ IsFiniteSet(ids) /\ v.currentMEApps = Cardinality(ids)
        /\ v.allocated = Cardinality(Units(v.mecAppMap, ids))
    BY <2>1 DEF Counts
  <2>3. \A x \in ids : Cost[v.mecAppMap[x].app] \in Nat
    BY <2>1, MecAssumption, MapFacts DEF MecAssumption
  <2>4. v.allocated = MapThenSumSet(LAMBDA id : Cost[v.mecAppMap[id].app], ids)
    <3> HIDE DEF v
    <3> QED BY <2>2, <2>3, SumIsUnits
  <2>5. /\ Len(v.freeGates) + Cardinality(real) = MaxMecApps
        /\ {v.freeGates[i] : i \in DOMAIN v.freeGates}
             \union {v.mecAppMap[id].gate : id \in real} = 1..MaxMecApps
    BY <2>1 DEF Gates, Real, GateSet, GatesOf
  <2> QED BY <2>2, <2>4, <2>5, Zenon
<1> QED BY <1>1, Invariance, PTL

(* The contexts of the orchestrator are, one for one, the applications on  *)
(* the hosts: in a build whose log statements are not evaluated.           *)
THEOREM OneContextPerApp ==
  ASSUME ~Logging
  PROVE  Spec => []ContextsAreApps
<1>1. IInv => ContextsAreApps
  <2> SUFFICES ASSUME IInv PROVE ContextsAreApps
    OBVIOUS
  <2>1. ContextHasApp /\ AppHasContext /\ OneContext
    BY DEF IInv, OneToOne
  <2>2. \A c \in DOMAIN meAppMap : \E e \in {meAppMap[c]} :
          /\ e.ueAppID \in DOMAIN vim[e.host].mecAppMap
          /\ vim[e.host].mecAppMap[e.ueAppID].app = e.app
    BY <2>1 DEF ContextHasApp
  <2>3. ASSUME NEW h \in Hosts, NEW id \in DOMAIN vim[h].mecAppMap
        PROVE  Cardinality({c \in DOMAIN meAppMap : meAppMap[c].host = h
                                                    /\ meAppMap[c].ueAppID = id}) = 1
    <3> DEFINE S == {c \in DOMAIN meAppMap : meAppMap[c].host = h
                                             /\ meAppMap[c].ueAppID = id}
    <3>1. PICK c \in DOMAIN meAppMap : meAppMap[c].host = h /\ meAppMap[c].ueAppID = id
      BY <2>1 DEF AppHasContext
    <3>2. S = {c}
      BY <2>1, <3>1 DEF OneContext
    <3> QED BY <3>2, FS_Singleton
  <2> QED BY <2>2, <2>3 DEF ContextsAreApps
<1> QED BY <1>1, Invariance, PTL

(* No application runs that nobody can stop: every context is held by a    *)
(* device application, or an answer that tells one of it is on the way.    *)
THEOREM SomebodyCanStopIt == Spec => []NoOrphans
<1>1. IInv => NoOrphans
  <2> SUFFICES ASSUME IInv, NEW c \in DOMAIN meAppMap
               PROVE  \E d \in DeviceApps :
                        \/ appState[d] \in {"APPCREATED", "DELETING"} /\ appContextUri[d] = c
                        \/ /\ appState[d] = "CREATING"
                           /\ \/ meoMsg[d].kind = "CREATE" /\ meoMsg[d].success
                                 /\ meoMsg[d].contextId = c
                              \/ response[d].kind = "201" /\ response[d].contextId = c
    BY DEF NoOrphans
  <2>1. PICK d \in DeviceApps : Holds(d, c)
    BY DEF IInv, Known
  <2> QED BY <2>1 DEF Holds
<1> QED BY <1>1, Invariance, PTL
=============================================================================
