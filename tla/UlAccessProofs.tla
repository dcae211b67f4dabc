--------------------------- MODULE UlAccessProofs ---------------------------
(***************************************************************************)
(* A UE does not contend twice at once, for any number of UEs, any channel  *)
(* and scheduling, whatever collides or is lost.                            *)
(*                                                                         *)
(* The response timer counts the TTIs that the request spends on its way to *)
(* the gNB, at the gNB and on its way back; IInv bounds it from below at    *)
(* each of these places.                                                    *)
(***************************************************************************)
EXTENDS UlAccess, FiniteSetTheorems, TLAPS

\* Hypothesis: the response window covers the round trip, as the default of
\* LteMacUe (3) and of NrMacUe (20) does.
CoversRoundTrip == RaRespWindow >= 3

Timer(u) == ue[u].raRespTimer

\* Where the attempt of a UE is: requested, at the gNB, answered.
Asks(S, u) == \E f \in S : f.type = "rac" /\ f.ue = u
Answered(S, u) == \E f \in S : f.type = "racResponse" /\ f.ue = u

\* A frame of random access is known by its type and its UE.
Shapes ==
  /\ \A f \in air \cup sent : f.type = "rac" => f = [type |-> "rac", ue |-> f.ue]
  /\ \A f, g \in air \cup sent :
       f.type = "racResponse" /\ g.type = "racResponse" /\ f.ue = g.ue => f = g

\* The attempt is at one place only.
OnePlace ==
  \A u \in Ue :
    /\ Asks(sent, u) => ~Asks(air, u) /\ u \notin racs /\ ~Answered(sent, u) /\ ~Answered(air, u)
    /\ Asks(air, u) => u \notin racs /\ ~Answered(sent, u) /\ ~Answered(air, u)
    /\ u \in racs => ~Answered(sent, u) /\ ~Answered(air, u)
    /\ Answered(sent, u) => ~Answered(air, u)

\* The parts of a TTI.
Parts ==
  /\ part \in {"ue", "gnb", "air"}
  /\ part = "ue" => sent = {}
  /\ part = "gnb" => \A u \in Ue : ~Answered(sent, u)
  /\ part = "air" => racs = {}

\* ... and how much of the response window is left there.
TimeLeft ==
  \A u \in Ue :
    /\ Asks(sent, u)     => Timer(u) >= 3
    /\ Asks(air, u)      => Timer(u) >= (IF part = "ue" THEN 3 ELSE 2)
    /\ u \in racs        => Timer(u) >= (IF part = "ue" THEN 2 ELSE 1)
    /\ Answered(sent, u) => Timer(u) >= 1
    /\ Answered(air, u) /\ part = "ue" => Timer(u) >= 1

\* Requests come from UEs.
FromUes == \A f \in air \cup sent : f.type = "rac" => f.ue \in Ue

Typed ==
  /\ \A u \in Ue : DOMAIN ue[u] = DOMAIN UeReset /\ Timer(u) \in Nat
  /\ racs \subseteq Ue

IInv == Typed /\ FromUes /\ Shapes /\ Parts /\ OnePlace /\ TimeLeft
-----------------------------------------------------------------------------
(* What the parts of a TTI do to the timer and to random access             *)

\* The UE's main loop: the timer of a UE that asks is started, that of another
\* goes down by one at most.
LEMMA CheckRacTimer ==
  ASSUME NEW s, DOMAIN s = DOMAIN UeReset, s.raRespTimer \in Nat
  PROVE  /\ DOMAIN CheckRac(s) = DOMAIN UeReset
         /\ SendsRac(s) => s.raRespTimer = 0 /\ CheckRac(s).raRespTimer = RaRespWindow
         /\ ~SendsRac(s) => /\ CheckRac(s).raRespTimer \in Nat
                            /\ CheckRac(s).raRespTimer >= s.raRespTimer - 1
<1>1. CASE SendsRac(s)
  <2>1. s.backoff = 0 /\ s.raRespTimer = 0 /\ s.bsrRtxTimer = 0
    BY <1>1 DEF SendsRac
  <2>2. CheckRac(s) = RequestRac(s)
    BY <1>1, <2>1 DEF CheckRac
  <2> QED BY <1>1, <2>1, <2>2 DEF RequestRac, UeReset
<1>2. CASE ~SendsRac(s)
  <2>1. \/ CheckRac(s) = [s EXCEPT !.backoff = @ - 1]
        \/ s.raRespTimer > 0 /\ CheckRac(s) = [s EXCEPT !.raRespTimer = @ - 1]
        \/ CheckRac(s) = [s EXCEPT !.bsrRtxTimer = @ - 1]
        \/ CheckRac(s) = [s EXCEPT !.racRequested = FALSE]
    BY <1>2 DEF CheckRac
  <2> QED BY <1>2, <2>1 DEF UeReset
<1> QED BY <1>1, <1>2

LEMMA UseGrantTimer ==
  ASSUME NEW s, DOMAIN s = DOMAIN UeReset, NEW h
  PROVE  DOMAIN UseGrant(s, h) = DOMAIN UeReset /\ UseGrant(s, h).raRespTimer = s.raRespTimer
<1>1. \/ UseGrant(s, h) = [s EXCEPT !.grant = 0]
      \/ UseGrant(s, h) = [AfterPdu(s, Scheduled(s)) EXCEPT !.grant = 0]
      \/ UseGrant(s, h) = [DropBsr(s) EXCEPT !.grant = 0]
  BY DEF UseGrant
<1>2. DOMAIN DropBsr(s) = DOMAIN UeReset /\ DropBsr(s).raRespTimer = s.raRespTimer
  BY DEF DropBsr, UeReset
<1>3. /\ DOMAIN AfterPdu(s, Scheduled(s)) = DOMAIN UeReset
      /\ AfterPdu(s, Scheduled(s)).raRespTimer = s.raRespTimer
  BY DEF AfterPdu, UeReset
<1> HIDE DEF UseGrant
<1> QED BY <1>1, <1>2, <1>3 DEF UeReset

LEMMA UeLoopsDo ==
  ASSUME Typed, UeLoops, RaRespWindow \in Nat
  PROVE  /\ part = "ue" /\ part' = "gnb" /\ racs' = racs /\ air' = air
         /\ \A u \in Ue : DOMAIN ue'[u] = DOMAIN UeReset /\ ue'[u].raRespTimer \in Nat
         /\ \A u \in Ue : ue'[u].raRespTimer >= Timer(u) - 1
         /\ \A f \in sent' :
              /\ f.type # "racResponse"
              /\ f.type = "rac" => /\ f = [type |-> "rac", ue |-> f.ue] /\ f.ue \in Ue
                                   /\ Timer(f.ue) = 0
                                   /\ ue'[f.ue].raRespTimer = RaRespWindow
<1>1. /\ part = "ue" /\ part' = "gnb" /\ racs' = racs /\ air' = air
      /\ \A u \in Ue : ue'[u] = IF ue[u].grant = 0 THEN CheckRac(ue[u])
                                ELSE UseGrant(ue[u], tx[u])
  BY DEF UeLoops
<1>2. ASSUME NEW u \in Ue
      PROVE  /\ DOMAIN ue'[u] = DOMAIN UeReset /\ ue'[u].raRespTimer \in Nat
             /\ ue'[u].raRespTimer >= Timer(u) - 1
  <2>1. DOMAIN ue[u] = DOMAIN UeReset /\ ue[u].raRespTimer \in Nat /\ Timer(u) = ue[u].raRespTimer
    BY DEF Typed, Timer
  <2>2. CASE ue[u].grant = 0
    <3>1. ue'[u] = CheckRac(ue[u])
      BY <1>1, <2>2
    <3> QED BY <2>1, <3>1, CheckRacTimer
  <2>3. CASE ue[u].grant # 0
    <3>1. ue'[u] = UseGrant(ue[u], tx[u])
      BY <1>1, <2>3
    <3> QED BY <2>1, <3>1, UseGrantTimer
  <2> QED BY <2>2, <2>3
<1>3. ASSUME NEW f \in sent'
      PROVE  \/ f.type = "data"
             \/ \E u \in Ue : /\ f = [type |-> "rac", ue |-> u]
                              /\ ue[u].grant = 0 /\ SendsRac(ue[u])
  BY DEF UeLoops, DataFrame
<1>4. ASSUME NEW u \in Ue, ue[u].grant = 0, SendsRac(ue[u])
      PROVE  Timer(u) = 0 /\ ue'[u].raRespTimer = RaRespWindow
  <2>1. DOMAIN ue[u] = DOMAIN UeReset /\ ue[u].raRespTimer \in Nat /\ Timer(u) = ue[u].raRespTimer
    BY DEF Typed, Timer
  <2>2. ue'[u] = CheckRac(ue[u])
    BY <1>1, <1>4
  <2> QED BY <1>4, <2>1, <2>2, CheckRacTimer
<1>5. ASSUME NEW f \in sent'
      PROVE  /\ f.type # "racResponse"
             /\ f.type = "rac" => /\ f = [type |-> "rac", ue |-> f.ue] /\ f.ue \in Ue
                                  /\ Timer(f.ue) = 0
                                  /\ ue'[f.ue].raRespTimer = RaRespWindow
  BY <1>3, <1>4
<1> QED BY <1>1, <1>2, <1>5

\* The gNB's main loop answers each request that it has.
LEMMA GnbLoopDoes ==
  ASSUME NEW collided, NEW order, GnbLoop(collided, order)
  PROVE  /\ part = "gnb" /\ part' = "air" /\ racs' = {} /\ air' = air /\ ue' = ue
         /\ \A f \in sent' : \/ f \in sent
                            \/ f.type \notin {"rac", "racResponse"}
                            \/ f \in RacAnswers(collided)
         /\ sent \subseteq sent'
<1>1. part = "gnb" /\ part' = "air" /\ racs' = {} /\ air' = air /\ ue' = ue
  BY DEF GnbLoop
<1>2. \E G : /\ \A g \in G : g.type = "grant"
             /\ sent' = sent \cup Feedback \cup RacAnswers(collided) \cup G
  <2>1. PICK rac, rtx, data :
          sent' = sent \cup Feedback \cup RacAnswers(collided)
                  \cup {[type |-> "grant", ue |-> u,
                         bytes |-> (rac[u] + rtx[u] + data[u]) * BytesPerBlock[u]] :
                         u \in {v \in Ue : rac[v] + rtx[v] + data[v] > 0}}
    BY DEF GnbLoop
  <2> DEFINE G == {[type |-> "grant", ue |-> u,
                    bytes |-> (rac[u] + rtx[u] + data[u]) * BytesPerBlock[u]] :
                    u \in {v \in Ue : rac[v] + rtx[v] + data[v] > 0}}
  <2>2. \A g \in G : g.type = "grant"
    OBVIOUS
  <2> QED BY <2>1, <2>2, Zenon
<1>3. \A f \in Feedback : f.type = "feedback"
  BY DEF Feedback
<1> QED BY <1>1, <1>2, <1>3

\* The frames arrive; no timer changes.
LEMMA ArriveDoes ==
  ASSUME Typed, NEW lost, NEW backoff, Arrive(lost, backoff)
  PROVE  /\ part = "air" /\ part' = "ue" /\ air' = sent /\ sent' = {}
         /\ racs' = racs \cup {f.ue : f \in {g \in air : g.type = "rac"}}
         /\ \A u \in Ue : DOMAIN ue'[u] = DOMAIN UeReset /\ ue'[u].raRespTimer = Timer(u)
<1>1. /\ part = "air" /\ part' = "ue" /\ air' = sent /\ sent' = {}
      /\ racs' = racs \cup {f.ue : f \in {g \in air : g.type = "rac"}}
      /\ \A u \in Ue : ue'[u] = Received(u, backoff)
  BY DEF Arrive
<1>2. ASSUME NEW s, DOMAIN s = DOMAIN UeReset, NEW x, NEW b
      PROVE  /\ DOMAIN MacHandleRac(s, x, b) = DOMAIN UeReset
             /\ MacHandleRac(s, x, b).raRespTimer = s.raRespTimer
  <2>1. \/ MacHandleRac(s, x, b) = [s EXCEPT !.bsrTriggered = TRUE, !.racTry = 0, !.backoff = 0]
        \/ MacHandleRac(s, x, b) = [s EXCEPT !.racTry = 0, !.backoff = 0]
        \/ MacHandleRac(s, x, b) = [s EXCEPT !.racTry = @ + 1, !.backoff = b]
    BY DEF MacHandleRac
  <2> QED BY <1>2, <2>1 DEF UeReset
<1>3. ASSUME NEW s, DOMAIN s = DOMAIN UeReset, NEW b
      PROVE  /\ DOMAIN MacHandleGrant(s, b) = DOMAIN UeReset
             /\ MacHandleGrant(s, b).raRespTimer = s.raRespTimer
  BY <1>3 DEF MacHandleGrant, UeReset
<1>4. ASSUME NEW u \in Ue
      PROVE  DOMAIN ue'[u] = DOMAIN UeReset /\ ue'[u].raRespTimer = Timer(u)
  <2> DEFINE answered == IF Arriving("racResponse", u) = {} THEN ue[u]
               ELSE MacHandleRac(ue[u], (CHOOSE f \in Arriving("racResponse", u) : TRUE).success,
                                 IF u \in Failing THEN backoff[u] ELSE 0)
  <2>1. DOMAIN ue[u] = DOMAIN UeReset
    BY DEF Typed
  <2>2. DOMAIN answered = DOMAIN UeReset /\ answered.raRespTimer = Timer(u)
    BY <1>2, <2>1 DEF Timer
  <2>3. \/ Received(u, backoff) = answered
        \/ Received(u, backoff) =
             MacHandleGrant(answered, (CHOOSE f \in Arriving("grant", u) : TRUE).bytes)
    BY DEF Received
  <2> HIDE DEF answered
  <2> QED BY <1>1, <1>3, <2>2, <2>3
<1> QED BY <1>1, <1>4
-----------------------------------------------------------------------------
(* The invariant                                                            *)

LEMMA InitHolds == Init => IInv
<1> SUFFICES ASSUME Init PROVE IInv
  OBVIOUS
<1>1. ue = [u \in Ue |-> UeReset] /\ racs = {} /\ air = {} /\ sent = {} /\ part = "ue"
  BY DEF Init
<1>2. \A u \in Ue : DOMAIN ue[u] = DOMAIN UeReset /\ Timer(u) = 0
  BY <1>1 DEF Timer, UeReset
<1> QED BY <1>1, <1>2 DEF IInv, Typed, FromUes, Shapes, Parts, OnePlace, TimeLeft, Asks, Answered

\* An SDU changes nothing of random access.
LEMMA NewDataKeeps ==
  ASSUME IInv, NEW v \in Ue, NEW size, NewData(v, size)
  PROVE  IInv'
<1>1. /\ ue' = [ue EXCEPT ![v].vq = @ + size]
      /\ racs' = racs /\ air' = air /\ sent' = sent /\ part' = part
  BY DEF NewData
<1>2. ASSUME NEW u \in Ue
      PROVE  DOMAIN ue'[u] = DOMAIN ue[u] /\ ue'[u].raRespTimer = ue[u].raRespTimer
  <2>1. ue'[u] = ue[u] \/ ue'[u] = [ue[u] EXCEPT !.vq = @ + size]
    BY <1>1
  <2>2. DOMAIN ue[u] = DOMAIN UeReset
    BY DEF IInv, Typed
  <2> QED BY <2>1, <2>2 DEF UeReset
<1>3. \A u \in Ue : Timer(u)' = Timer(u)
  BY <1>2 DEF Timer
<1>4. Typed'
  BY <1>1, <1>2, <1>3 DEF IInv, Typed
<1>5. Shapes' /\ Parts' /\ OnePlace' /\ FromUes'
  BY <1>1 DEF IInv, Shapes, Parts, FromUes, OnePlace, Asks, Answered
<1>6. TimeLeft'
  BY <1>1, <1>3 DEF IInv, TimeLeft, Asks, Answered
<1> QED BY <1>4, <1>5, <1>6 DEF IInv

LEMMA UeLoopsKeep ==
  ASSUME IInv, UeLoops, CoversRoundTrip
  PROVE  IInv'
<1>1. RaRespWindow \in Nat /\ RaRespWindow >= 3
  BY UlAccessAssumption DEF CoversRoundTrip
<1>2. /\ part = "ue" /\ part' = "gnb" /\ racs' = racs /\ air' = air
      /\ \A u \in Ue : DOMAIN ue'[u] = DOMAIN UeReset /\ ue'[u].raRespTimer \in Nat
      /\ \A u \in Ue : ue'[u].raRespTimer >= Timer(u) - 1
      /\ \A f \in sent' :
           /\ f.type # "racResponse"
           /\ f.type = "rac" => /\ f = [type |-> "rac", ue |-> f.ue] /\ f.ue \in Ue
                                /\ Timer(f.ue) = 0
                                /\ ue'[f.ue].raRespTimer = RaRespWindow
  BY <1>1, UeLoopsDo DEF IInv
<1>3. \A u \in Ue : Timer(u) \in Nat /\ Timer(u)' = ue'[u].raRespTimer
  BY DEF IInv, Typed, Timer
<1>4. \A u \in Ue : ~Answered(sent', u)
  BY <1>2 DEF Answered
<1>5. \A u \in Ue : Asks(sent', u) => Timer(u) = 0 /\ Timer(u)' = RaRespWindow
  BY <1>2, <1>3 DEF Asks
<1>6. \A u \in Ue : Timer(u) = 0 => ~Asks(air, u) /\ u \notin racs /\ ~Answered(air, u)
  BY <1>2 DEF IInv, TimeLeft
<1>7. Typed' /\ Parts'
  BY <1>2, <1>3, <1>4 DEF IInv, Typed, Parts, Answered
<1>8. Shapes' /\ FromUes'
  BY <1>2 DEF IInv, Shapes, FromUes
<1>9. OnePlace'
  <2> SUFFICES ASSUME NEW u \in Ue
               PROVE  /\ Asks(sent', u) => /\ ~Asks(air', u) /\ u \notin racs'
                                           /\ ~Answered(sent', u) /\ ~Answered(air', u)
                      /\ Asks(air', u) => /\ u \notin racs' /\ ~Answered(sent', u)
                                          /\ ~Answered(air', u)
                      /\ u \in racs' => ~Answered(sent', u) /\ ~Answered(air', u)
                      /\ Answered(sent', u) => ~Answered(air', u)
    BY DEF OnePlace, Asks, Answered
  <2> QED BY <1>2, <1>4, <1>5, <1>6 DEF IInv, OnePlace
<1>10. TimeLeft'
  <2> SUFFICES ASSUME NEW u \in Ue
               PROVE  /\ Asks(sent', u)     => Timer(u)' >= 3
                      /\ Asks(air', u)      => Timer(u)' >= 2
                      /\ u \in racs'        => Timer(u)' >= 1
                      /\ Answered(sent', u) => Timer(u)' >= 1
    BY <1>2 DEF TimeLeft, Asks, Answered, Timer
  <2>1. Asks(air, u) => Timer(u) >= 3
    BY <1>2 DEF IInv, TimeLeft
  <2>2. u \in racs => Timer(u) >= 2
    BY <1>2 DEF IInv, TimeLeft
  <2>3. Timer(u)' >= Timer(u) - 1 /\ Timer(u) \in Nat /\ Timer(u)' \in Nat
    BY <1>2, <1>3
  <2> QED BY <1>1, <1>2, <1>4, <1>5, <2>1, <2>2, <2>3
<1> QED BY <1>7, <1>8, <1>9, <1>10 DEF IInv

LEMMA GnbLoopKeeps ==
  ASSUME IInv, NEW collided, NEW order, GnbLoop(collided, order)
  PROVE  IInv'
<1>1. /\ part = "gnb" /\ part' = "air" /\ racs' = {} /\ air' = air /\ ue' = ue
      /\ \A f \in sent' : \/ f \in sent
                          \/ f.type \notin {"rac", "racResponse"}
                          \/ f \in RacAnswers(collided)
      /\ sent \subseteq sent'
  BY GnbLoopDoes
<1>2. \A f \in RacAnswers(collided) :
        /\ f.type = "racResponse" /\ f.ue \in racs
        /\ f = [type |-> "racResponse", ue |-> f.ue, success |-> f.ue \notin collided]
  BY DEF RacAnswers
<1>3. \A u \in Ue : ~Answered(sent, u)
  BY <1>1 DEF IInv, Parts
<1>4. \A u \in Ue : Asks(sent', u) => Asks(sent, u)
  BY <1>1, <1>2 DEF Asks
<1>5. \A u \in Ue : Answered(sent', u) => u \in racs
  BY <1>1, <1>2, <1>3 DEF Answered
<1>6. \A u \in Ue : Timer(u)' = Timer(u)
  BY <1>1 DEF Timer
<1>7. Typed' /\ Parts' /\ FromUes'
  BY <1>1, <1>2, <1>6 DEF IInv, Typed, Parts, FromUes
<1>8. Shapes'
  <2>1. ASSUME NEW f \in air' \cup sent', f.type = "rac" PROVE f = [type |-> "rac", ue |-> f.ue]
    BY <1>1, <1>2, <2>1 DEF IInv, Shapes
  <2>2. ASSUME NEW f \in air' \cup sent', f.type = "racResponse"
        PROVE  f \in RacAnswers(collided) \/ f \in air \cup sent
    BY <1>1, <2>2
  <2>3. racs \subseteq Ue
    BY DEF IInv, Typed
  <2>4. ASSUME NEW f \in RacAnswers(collided), NEW g \in air \cup sent,
               g.type = "racResponse", f.ue = g.ue
        PROVE  FALSE
    <3>1. f.ue \in racs /\ f.ue \in Ue
      BY <1>2, <2>3
    <3>2. Answered(air, f.ue) \/ Answered(sent, f.ue)
      BY <2>4 DEF Answered
    <3> QED BY <3>1, <3>2 DEF IInv, OnePlace
  <2>5. ASSUME NEW f \in air' \cup sent', NEW g \in air' \cup sent',
               f.type = "racResponse", g.type = "racResponse", f.ue = g.ue
        PROVE  f = g
    <3>1. CASE f \in RacAnswers(collided) /\ g \in RacAnswers(collided)
      BY <1>2, <2>5, <3>1
    <3>2. CASE f \in air \cup sent /\ g \in air \cup sent
      BY <2>5, <3>2 DEF IInv, Shapes
    <3> QED BY <2>2, <2>4, <2>5, <3>1, <3>2
  <2> QED BY <2>1, <2>5 DEF Shapes
<1>9. OnePlace'
  <2> SUFFICES ASSUME NEW u \in Ue
               PROVE  /\ Asks(sent', u) => /\ ~Asks(air', u) /\ u \notin racs'
                                           /\ ~Answered(sent', u) /\ ~Answered(air', u)
                      /\ Asks(air', u) => /\ u \notin racs' /\ ~Answered(sent', u)
                                          /\ ~Answered(air', u)
                      /\ u \in racs' => ~Answered(sent', u) /\ ~Answered(air', u)
                      /\ Answered(sent', u) => ~Answered(air', u)
    BY DEF OnePlace, Asks, Answered
  <2> QED BY <1>1, <1>4, <1>5 DEF IInv, OnePlace
<1>10. TimeLeft'
  <2> SUFFICES ASSUME NEW u \in Ue
               PROVE  /\ Asks(sent', u)     => Timer(u)' >= 3
                      /\ Asks(air', u)      => Timer(u)' >= 2
                      /\ u \in racs'        => Timer(u)' >= 1
                      /\ Answered(sent', u) => Timer(u)' >= 1
    BY <1>1 DEF TimeLeft, Asks, Answered, Timer
  <2>1. /\ Asks(sent, u) => Timer(u) >= 3
        /\ Asks(air, u)  => Timer(u) >= 2
        /\ u \in racs    => Timer(u) >= 1
    BY <1>1 DEF IInv, TimeLeft
  <2> QED BY <1>1, <1>4, <1>5, <1>6, <2>1
<1> QED BY <1>7, <1>8, <1>9, <1>10 DEF IInv

LEMMA ArriveKeeps ==
  ASSUME IInv, NEW lost, NEW backoff, Arrive(lost, backoff)
  PROVE  IInv'
<1>1. /\ part = "air" /\ part' = "ue" /\ air' = sent /\ sent' = {} /\ racs = {}
      /\ racs' = racs \cup {f.ue : f \in {g \in air : g.type = "rac"}}
      /\ \A u \in Ue : DOMAIN ue'[u] = DOMAIN UeReset /\ ue'[u].raRespTimer = Timer(u)
  BY ArriveDoes DEF IInv, Parts
<1>2. \A u \in Ue : Timer(u)' = Timer(u) /\ Timer(u) \in Nat
  BY <1>1 DEF IInv, Typed, Timer
<1>3. \A u \in Ue : u \in racs' <=> Asks(air, u)
  BY <1>1 DEF Asks
<1>4. \A u \in Ue : ~Asks(sent', u) /\ ~Answered(sent', u)
  BY <1>1 DEF Asks, Answered
<1>5. Parts' /\ Shapes' /\ FromUes'
  BY <1>1, <1>4 DEF IInv, Parts, Shapes, FromUes, Answered
<1>6. Typed'
  <2>1. racs' \subseteq Ue
    BY <1>1 DEF IInv, FromUes
  <2> QED BY <1>1, <1>2, <2>1 DEF Typed
<1>7. OnePlace'
  <2> SUFFICES ASSUME NEW u \in Ue
               PROVE  /\ Asks(sent', u) => /\ ~Asks(air', u) /\ u \notin racs'
                                           /\ ~Answered(sent', u) /\ ~Answered(air', u)
                      /\ Asks(air', u) => /\ u \notin racs' /\ ~Answered(sent', u)
                                          /\ ~Answered(air', u)
                      /\ u \in racs' => ~Answered(sent', u) /\ ~Answered(air', u)
                      /\ Answered(sent', u) => ~Answered(air', u)
    BY DEF OnePlace, Asks, Answered
  <2> QED BY <1>1, <1>3, <1>4 DEF IInv, OnePlace
<1>8. TimeLeft'
  <2> SUFFICES ASSUME NEW u \in Ue
               PROVE  /\ Asks(sent', u)     => Timer(u)' >= 3
                      /\ Asks(air', u)      => Timer(u)' >= 3
                      /\ u \in racs'        => Timer(u)' >= 2
                      /\ Answered(sent', u) => Timer(u)' >= 1
                      /\ Answered(air', u)  => Timer(u)' >= 1
    BY <1>1 DEF TimeLeft, Asks, Answered, Timer
  <2>1. /\ Asks(sent, u)     => Timer(u) >= 3
        /\ Asks(air, u)      => Timer(u) >= 2
        /\ Answered(sent, u) => Timer(u) >= 1
    BY <1>1 DEF IInv, TimeLeft
  <2> QED BY <1>1, <1>2, <1>3, <1>4, <2>1
<1> QED BY <1>5, <1>6, <1>7, <1>8 DEF IInv

LEMMA Invariance ==
  ASSUME CoversRoundTrip
  PROVE  Spec => []IInv
<1>1. IInv /\ [Next]_vars => IInv'
  <2> SUFFICES ASSUME IInv, [Next]_vars PROVE IInv'
    OBVIOUS
  <2>1. CASE UeLoops
    BY <2>1, UeLoopsKeep
  <2>2. ASSUME NEW collided, NEW order, GnbLoop(collided, order) PROVE IInv'
    BY <2>2, GnbLoopKeeps
  <2>3. ASSUME NEW lost, NEW backoff, Arrive(lost, backoff) PROVE IInv'
    BY <2>3, ArriveKeeps
  <2>4. ASSUME NEW u \in Ue, NEW size, NewData(u, size) PROVE IInv'
    BY <2>4, NewDataKeeps
  <2>5. CASE UNCHANGED vars
    BY <2>5 DEF vars, IInv, Typed, Shapes, Parts, OnePlace, TimeLeft, FromUes,
                Asks, Answered, Timer
  <2> QED BY <2>1, <2>2, <2>3, <2>4, <2>5 DEF Next, Tti
<1> QED BY <1>1, InitHolds, PTL DEF Spec

\* checkRAC never starts an attempt while the last one is on its way to the
\* gNB, is kept there or is being answered, if raResponseWindow covers three TTIs.
THEOREM OneAttemptAtATime ==
  ASSUME CoversRoundTrip
  PROVE  Spec => []OneAttempt
<1>1. IInv => OneAttempt
  <2> SUFFICES ASSUME IInv, NEW u \in Ue PROVE Cardinality(Attempts(u)) <= 1
    BY DEF OneAttempt
  <2>1. ASSUME NEW x \in Attempts(u), NEW y \in Attempts(u) PROVE x = y
    <3> DEFINE Place(z) == \/ z \in air \cup sent /\ z.type = "rac" /\ z.ue = u
                           \/ z \in air \cup sent /\ z.type = "racResponse" /\ z.ue = u
                           \/ z = [type |-> "atGnb", ue |-> u] /\ u \in racs
    <3>1. Place(x) /\ Place(y)
      BY <2>1 DEF Attempts
    <3>2. /\ Asks(air, u) \/ Asks(sent, u) =>
               u \notin racs /\ ~Answered(air, u) /\ ~Answered(sent, u)
          /\ u \in racs => ~Answered(air, u) /\ ~Answered(sent, u)
      BY DEF IInv, OnePlace
    <3>3. \A f, g \in air \cup sent :
            /\ f.type = "rac" /\ g.type = "rac" /\ f.ue = u /\ g.ue = u => f = g
            /\ f.type = "racResponse" /\ g.type = "racResponse" /\ f.ue = u /\ g.ue = u => f = g
      BY DEF IInv, Shapes
    <3> QED BY <3>1, <3>2, <3>3 DEF Asks, Answered
  <2>2. CASE Attempts(u) = {}
    BY <2>2, FS_EmptySet
  <2>3. ASSUME NEW x \in Attempts(u) PROVE Cardinality(Attempts(u)) = 1
    <3>1. Attempts(u) = {x}
      BY <2>1, <2>3
    <3> QED BY <3>1, FS_Singleton
  <2> QED BY <2>2, <2>3
<1> QED BY <1>1, Invariance, PTL
=============================================================================
