-------------------------- MODULE ProvisionProofs --------------------------
(* Proofs that a conn carrying a secret comes up with the right machine    *)
(* only, and that neither end drops authentication, for any addresses, any *)
(* lease database, any number of secrets and any number of faults.  What   *)
(* the resolver returns plays no part: the proofs do not look into it.     *)
EXTENDS Transport, Installer, Lifecycle, TLAPS

-----------------------------------------------------------------------------
(* What the peer is. *)

(* The variables the two invariants are about.                             *)
authVars == <<require, files, latches, conns>>

(* Nothing is provisioned and nothing is dialled at first.                 *)
LEMMA InitPeer == Init => PeerInv
<1> SUFFICES ASSUME Init PROVE PeerInv
  OBVIOUS
<1> USE DEF Init, VM, Conn, None, Absent, Bad
<1>1. TypeOK
  <2>1. daemon \in BOOLEAN /\ require \in BOOLEAN /\ macLatch \in BOOLEAN /\ macKnown \in BOOLEAN
    OBVIOUS
  <2>2. agentLatch \in [VM -> BOOLEAN] /\ agentKnown \in [VM -> BOOLEAN] /\ began \in [Conn -> BOOLEAN]
    OBVIOUS
  <2>3. /\ macFile \in [VM -> Nat] /\ guestFile \in [VM -> Nat]
        /\ upVM \in VM \cup {None} /\ made \in Nat
    OBVIOUS
  <2> QED
    BY <2>1, <2>2, <2>3 DEF TypeOK
<1>2. Generated /\ Apart
  BY DEF Generated, Apart, OfA, OfB
<1>3. Handshake /\ RightPeer
  BY DEF Handshake, RightPeer
<1> QED
  BY <1>1, <1>2, <1>3 DEF PeerInv

(* A conn that ends forgets everything it had.                             *)
LEMMA EndedPeer ==
  ASSUME PeerInv, NEW k \in Conn, Ended(k), UNCHANGED <<require, files>>,
         macLatch' \in BOOLEAN, macKnown' \in BOOLEAN, UNCHANGED <<daemon, agentLatch, agentKnown>>
  PROVE  PeerInv'
<1> USE DEF PeerInv, Ended, Goto, files, VM, Conn, None, Absent, Bad
<1>1. TypeOK'
  BY DEF TypeOK
<1>2. Generated' /\ Apart'
  BY DEF TypeOK, Generated, Apart, OfA, OfB
<1>3. Handshake' /\ RightPeer'
  BY DEF TypeOK, Handshake, RightPeer
<1> QED
  BY <1>1, <1>2, <1>3

(* A machine that goes away takes its conns with it, one by one.           *)
LEMMA CutConn ==
  ASSUME NEW v \in VM, Cut(v), NEW k \in Conn
  PROVE  IF peer[k] = v
         THEN /\ pc'[k] = "end" /\ peer'[k] = None /\ answer'[k] = None /\ proof'[k] = Absent
              /\ seen'[k] = Absent /\ sec'[k] = Absent /\ began'[k] = FALSE
         ELSE /\ pc'[k] = pc[k] /\ peer'[k] = peer[k] /\ answer'[k] = answer[k]
              /\ proof'[k] = proof[k] /\ seen'[k] = seen[k] /\ sec'[k] = sec[k]
              /\ began'[k] = began[k]
  BY DEF Cut

(* The conns that are left are as right as they were.                      *)
LEMMA CutPeer ==
  ASSUME PeerInv, NEW v \in VM, Cut(v), UNCHANGED <<require, files, latches>>
  PROVE  PeerInv'
<1> USE DEF PeerInv, Cut, files, latches, VM, Conn, None, Absent, Bad
<1>1. TypeOK'
  BY DEF TypeOK
<1>2. Generated' /\ Apart'
  BY DEF TypeOK, Generated, Apart, OfA, OfB
<1>3. Handshake' /\ RightPeer'
  BY DEF TypeOK, Handshake, RightPeer
<1> QED
  BY <1>1, <1>2, <1>3

(* Every step keeps the machines' secrets apart and the peer right.        *)
LEMMA StepPeer == PeerInv /\ [Next]_vars => PeerInv'
<1> SUFFICES ASSUME PeerInv, [Next]_vars PROVE PeerInv'
  OBVIOUS
<1> USE DEF PeerInv, VM, Conn, None, Absent, Bad, files, latches, conns, choices
<1>1. ASSUME UNCHANGED authVars PROVE PeerInv'
  BY <1>1 DEF authVars, TypeOK, Generated, Apart, OfA, OfB, Handshake, RightPeer
<1>2. ASSUME NEW v \in VM, Stop(v) \/ AgentExits(v) PROVE PeerInv'
  BY <1>2, CutPeer DEF Stop, AgentExits
<1>3. ASSUME NEW v \in VM, ListenTransport(v) PROVE PeerInv'
  BY <1>3 DEF ListenTransport, BootLatches, Latches, TypeOK, Generated, Apart, OfA, OfB, Handshake, RightPeer
<1>4. ASSUME NEW v \in VM, UpMacSecret(v) PROVE PeerInv'
  <2>1. TypeOK'
    BY <1>4 DEF UpMacSecret, FileName, TypeOK
  <2>2. Generated' /\ Apart'
    BY <1>4 DEF UpMacSecret, FileName, TypeOK, Generated, Apart, OfA, OfB
  <2>3. Handshake' /\ RightPeer'
    BY <1>4 DEF UpMacSecret, Handshake, RightPeer
  <2> QED
    BY <2>1, <2>2, <2>3
<1>5. ASSUME UpSecret PROVE PeerInv'
  <2>1. TypeOK'
    BY <1>5 DEF UpSecret, FileName, TypeOK
  <2>2. Generated' /\ Apart'
    BY <1>5 DEF UpSecret, FileName, TypeOK, Generated, Apart, OfA, OfB
  <2>3. Handshake' /\ RightPeer'
    BY <1>5 DEF UpSecret, Handshake, RightPeer
  <2> QED
    BY <2>1, <2>2, <2>3
<1>6. ASSUME NEW f \in {Absent, Bad}, FileFault(f) PROVE PeerInv'
  <2>1. TypeOK'
    BY <1>6 DEF FileFault, TypeOK
  <2>2. Generated' /\ Apart'
    BY <1>6 DEF FileFault, TypeOK, Generated, Apart, OfA, OfB
  <2>3. Handshake' /\ RightPeer'
    BY <1>6 DEF FileFault, Handshake, RightPeer
  <2> QED
    BY <2>1, <2>2, <2>3
<1>7. ASSUME pc["E"] = "end", pc' = [pc EXCEPT !["E"] = "idle"],
             UNCHANGED <<require, files, latches, seen, sec, began, peer, answer, proof>>
      PROVE  PeerInv'
  BY <1>7 DEF TypeOK, Generated, Apart, OfA, OfB, Handshake, RightPeer
<1>8. ASSUME NEW k \in Conn, Dial(k) PROVE PeerInv'
  <2>1. CASE Ended(k)
    BY <1>8, <2>1, EndedPeer DEF Dial, TypeOK
  <2>2. ASSUME NEW v \in Answers(addr), peer' = [peer EXCEPT ![k] = v],
               Goto(k, IF k = "E" THEN "dialed" ELSE "sent"),
               UNCHANGED <<require, files, latches, seen, sec, began, answer, proof>>
        PROVE  PeerInv'
    <3>1. v \in VM
      BY DEF Answers
    <3>2. answer[k] = None
      BY <1>8 DEF Dial, TypeOK, Handshake
    <3>3. TypeOK'
      BY <2>2, <3>1 DEF Goto, TypeOK
    <3>4. Generated' /\ Apart'
      BY <2>2 DEF Generated, Apart, OfA, OfB
    <3>5. Handshake' /\ RightPeer'
      BY <1>8, <2>2, <3>1, <3>2 DEF Dial, Goto, TypeOK, Handshake, RightPeer
    <3> QED
      BY <3>3, <3>4, <3>5
  <2> QED
    BY <1>8, <2>1, <2>2 DEF Dial
<1>9. ASSUME ClientConnects PROVE PeerInv'
  BY <1>9 DEF ClientConnects, Goto, TypeOK, Generated, Apart, OfA, OfB, Handshake, RightPeer
<1>10. ASSUME NEW k \in Conn, LoadRead(k) PROVE PeerInv'
  <2>1. TypeOK'
    BY <1>10 DEF LoadRead, Goto, FileName, TypeOK
  <2>2. Generated' /\ Apart'
    BY <1>10 DEF LoadRead, FileName, TypeOK, Generated, Apart, OfA, OfB
  <2>3. Handshake' /\ RightPeer'
    BY <1>10 DEF LoadRead, Goto, TypeOK, Handshake, RightPeer
  <2> QED
    BY <2>1, <2>2, <2>3
<1>11. ASSUME NEW k \in Conn, LoadReturn(k) PROVE PeerInv'
  <2>1. macLatch' \in BOOLEAN /\ macKnown' \in BOOLEAN
    BY <1>11 DEF LoadReturn, TypeOK, Latches
  <2>2. CASE Ended(k)
    BY <1>11, <2>1, <2>2, EndedPeer DEF LoadReturn
  <2>3. CASE /\ sec' = [sec EXCEPT ![k] = seen[k]] /\ UNCHANGED <<seen, began, peer, answer, proof>>
             /\ Goto(k, IF k = "E" THEN "sent" ELSE "dial")
    <3>1. TypeOK'
      BY <1>11, <2>1, <2>3 DEF LoadReturn, Goto, TypeOK
    <3>2. Generated' /\ Apart'
      BY <1>11, <2>3 DEF LoadReturn, TypeOK, Generated, Apart, OfA, OfB
    <3>3. Handshake' /\ RightPeer'
      BY <1>11, <2>3 DEF LoadReturn, Goto, TypeOK, Handshake, RightPeer
    <3> QED
      BY <3>1, <3>2, <3>3
  <2> QED
    BY <1>11, <2>2, <2>3 DEF LoadReturn
<1>12. ASSUME NEW k \in Conn, handleTransportConn(k) PROVE PeerInv'
  <2> DEFINE v == peer[k]
             own == LoadLatched(guestFile[v], agentLatch[v])
  <2>1. /\ v \in VM /\ pc[k] \in {"sent", "up"} /\ answer[k] = None
        /\ answer' = [answer EXCEPT ![k] = Verdict(own, sec[k])]
        /\ UNCHANGED <<require, files, daemon, macLatch, macKnown, pc, seen, sec, began, peer>>
    BY <1>12 DEF handleTransportConn, Handshake
  <2>2. own \in Nat /\ proof' = [proof EXCEPT ![k] = IF answer'[k] = "auth" THEN own ELSE Absent]
    BY <1>12, <2>1 DEF handleTransportConn, LoadLatched, TypeOK
  <2>3. agentLatch' \in [VM -> BOOLEAN] /\ agentKnown' \in [VM -> BOOLEAN]
    BY <1>12 DEF handleTransportConn, TypeOK, Latches
  <2>4. Verdict(own, sec[k]) = "auth" => v = "A"
    BY <2>1 DEF Verdict, LoadLatched, Apart, OfA, OfB, TypeOK
  <2>5. Verdict(own, sec[k]) \in {"closed", "plain", "auth"}
    BY DEF Verdict
  <2> HIDE DEF own
  <2>6. TypeOK'
    BY <2>1, <2>2, <2>3, <2>5 DEF TypeOK
  <2>7. Generated' /\ Apart'
    BY <2>1 DEF Generated, Apart, OfA, OfB
  <2>8. Handshake' /\ RightPeer'
    BY <2>1, <2>4 DEF TypeOK, Handshake, RightPeer
  <2> QED
    BY <2>6, <2>7, <2>8
<1>13. ASSUME NEW k \in Conn, AwaitAgentProof(k) PROVE PeerInv'
  <2>1. TypeOK' /\ Generated' /\ Apart'
    BY <1>13 DEF AwaitAgentProof, Goto, TypeOK, Generated, Apart, OfA, OfB
  <2>2. Handshake' /\ RightPeer'
    BY <1>13 DEF AwaitAgentProof, Proven, Goto, TypeOK, Handshake, RightPeer
  <2> QED
    BY <2>1, <2>2
<1>14. ASSUME NEW k \in Conn, Refused(k) \/ HandshakeTimeout(k) PROVE PeerInv'
  BY <1>14, EndedPeer DEF Refused, HandshakeTimeout, TypeOK
<1>15. ASSUME StreamDone PROVE PeerInv'
  BY <1>15, EndedPeer DEF StreamDone, TypeOK
<1>16. ASSUME DaemonExits PROVE PeerInv'
  <2>1. TypeOK'
    <3>1. daemon' \in BOOLEAN /\ macLatch' \in BOOLEAN /\ macKnown' \in BOOLEAN
      BY <1>16 DEF DaemonExits
    <3> QED
      BY <1>16, <3>1 DEF DaemonExits, TypeOK
  <2>2. Generated' /\ Apart'
    BY <1>16 DEF DaemonExits, TypeOK, Generated, Apart, OfA, OfB
  <2>3. Handshake' /\ RightPeer'
    BY <1>16 DEF DaemonExits, TypeOK, Handshake, RightPeer
  <2> QED
    BY <2>1, <2>2, <2>3
<1>21. ASSUME DaemonBoots PROVE PeerInv'
  <2>1. /\ daemon' \in BOOLEAN /\ macLatch' \in BOOLEAN /\ macKnown' \in BOOLEAN
        /\ UNCHANGED <<require, files, agentLatch, agentKnown, conns>>
    BY <1>21 DEF DaemonBoots, BootLatches, Latches, TypeOK
  <2> QED
    BY <2>1 DEF TypeOK, Generated, Apart, OfA, OfB, Handshake, RightPeer
<1>17. ASSUME NEW v \in VM, autoVZNAT(v) \/ \E i \in IP : Boot(v, i) PROVE UNCHANGED authVars
  BY <1>17 DEF autoVZNAT, Boot, authVars
<1>18. ASSUME Publish \/ UNCHANGED vars PROVE UNCHANGED authVars
  BY <1>18 DEF Publish, vars, authVars
<1>20. ASSUME DeleteMalformed PROVE PeerInv'
  <2>1. TypeOK'
    BY <1>20 DEF DeleteMalformed, TypeOK
  <2>2. Generated' /\ Apart'
    BY <1>20 DEF DeleteMalformed, TypeOK, Generated, Apart, OfA, OfB
  <2>3. Handshake' /\ RightPeer'
    BY <1>20 DEF DeleteMalformed, Handshake, RightPeer
  <2> QED
    BY <2>1, <2>2, <2>3
<1>19. ASSUME (\E g \in GuestIP : refresh(g)) \/ refreshCoalesced PROVE PeerInv'
  BY <1>7, <1>19 DEF refresh, refreshCoalesced
<1> QED
  BY <1>1, <1>2, <1>3, <1>4, <1>5, <1>6, <1>8, <1>9, <1>10, <1>11, <1>12, <1>13, <1>14,
     <1>15, <1>16, <1>17, <1>18, <1>19, <1>20, <1>21
  DEF Next, Dialling

-----------------------------------------------------------------------------
(* The latches. *)

(* No daemon runs at first and no read has finished.                       *)
LEMMA InitLatch == Init => LatchInv
  BY DEF Init, LatchInv, VM, Conn

(* Every step keeps what is known latched.                                 *)
LEMMA StepLatch == PeerInv /\ LatchInv /\ [Next]_vars => LatchInv'
<1> SUFFICES ASSUME PeerInv, LatchInv, [Next]_vars PROVE LatchInv'
  OBVIOUS
<1>0. TypeOK
  BY DEF PeerInv
<1> USE <1>0 DEF TypeOK, LatchInv, VM, Conn, None, Absent, files, latches, conns, choices
<1>1. ASSUME UNCHANGED authVars PROVE LatchInv'
  BY <1>1 DEF authVars
<1>2. ASSUME NEW v \in VM, Stop(v) \/ AgentExits(v) PROVE LatchInv'
  <2>1. UNCHANGED latches
    BY <1>2 DEF Stop, AgentExits
  <2>2. \A k \in Conn : /\ began'[k] => began[k] /\ pc'[k] = pc[k] /\ sec'[k] = sec[k]
                        /\ pc'[k] = "end" \/ pc'[k] = pc[k]
    BY <1>2, CutConn DEF Stop, AgentExits
  <2> QED
    BY <2>1, <2>2
<1>3. ASSUME NEW v \in VM, ListenTransport(v) PROVE LatchInv'
  BY <1>3 DEF ListenTransport, BootLatches, Latches
<1>4. ASSUME UNCHANGED <<latches, conns>> PROVE LatchInv'
  BY <1>4
<1>5. ASSUME NEW k \in Conn, Ended(k), macKnown => macKnown', macKnown' => macLatch',
             macKnown' => daemon, UNCHANGED <<daemon, agentLatch, agentKnown>>
      PROVE  LatchInv'
  BY <1>5 DEF Ended, Goto
<1>6. ASSUME NEW k \in Conn, NEW at, Goto(k, at), at \notin {"dial", "sent"}, daemon,
             UNCHANGED <<latches, sec, began>>
      PROVE  LatchInv'
  BY <1>6 DEF Goto
<1>7. ASSUME NEW k \in Conn, Dial(k) PROVE LatchInv'
  <2>1. CASE Ended(k)
    BY <1>5, <1>7, <2>1 DEF Dial
  <2>2. CASE Goto(k, IF k = "E" THEN "dialed" ELSE "sent") /\ UNCHANGED <<sec, began>>
    BY <1>7, <2>2 DEF Dial, Goto
  <2> QED
    BY <1>7, <2>1, <2>2 DEF Dial
<1>8. ASSUME ClientConnects PROVE LatchInv'
  BY <1>6, <1>8 DEF ClientConnects
<1>9. ASSUME NEW k \in Conn, LoadRead(k) PROVE LatchInv'
  BY <1>9 DEF LoadRead, Goto
<1>10. ASSUME NEW k \in Conn, LoadReturn(k) PROVE LatchInv'
  <2>1. /\ macKnown => macKnown'
        /\ macKnown' => macLatch' /\ daemon
        /\ UNCHANGED <<daemon, agentLatch, agentKnown>>
    BY <1>10 DEF LoadReturn, Latches
  <2>2. CASE Ended(k)
    BY <1>5, <2>1, <2>2
  <2>3. CASE /\ LoadLatched(seen[k], macLatch) # Bad
             /\ sec' = [sec EXCEPT ![k] = seen[k]] /\ UNCHANGED began
             /\ Goto(k, IF k = "E" THEN "sent" ELSE "dial")
    <3>1. began[k] => seen[k] # Absent
      BY <2>3 DEF LoadLatched, Bad
    <3>2. daemon
      BY <1>10 DEF LoadReturn
    <3> QED
      BY <2>1, <2>3, <3>1, <3>2 DEF Goto
  <2> QED
    BY <1>10, <2>2, <2>3 DEF LoadReturn
<1>11. ASSUME NEW k \in Conn, handleTransportConn(k) PROVE LatchInv'
  BY <1>11 DEF handleTransportConn, Latches
<1>12. ASSUME NEW k \in Conn, AwaitAgentProof(k) PROVE LatchInv'
  BY <1>6, <1>12 DEF AwaitAgentProof
<1>13. ASSUME NEW k \in Conn, Refused(k) \/ HandshakeTimeout(k) PROVE LatchInv'
  BY <1>5, <1>13 DEF Refused, HandshakeTimeout
<1>14. ASSUME StreamDone PROVE LatchInv'
  BY <1>5, <1>14 DEF StreamDone
<1>15. ASSUME DaemonExits PROVE LatchInv'
  BY <1>15 DEF DaemonExits
<1>18. ASSUME DaemonBoots PROVE LatchInv'
  <2>1. /\ macKnown' => daemon' /\ macLatch'
        /\ ~daemon /\ UNCHANGED <<agentLatch, agentKnown, conns>>
    BY <1>18 DEF DaemonBoots, BootLatches, Latches
  <2>2. \A k \in Conn : pc[k] = "end" /\ ~began[k]
    BY <2>1
  <2> QED
    BY <2>1, <2>2
<1>16. ASSUME (\E g \in GuestIP : refresh(g)) \/ refreshCoalesced PROVE LatchInv'
  BY <1>6, <1>16 DEF refresh, refreshCoalesced, Goto
<1>17. ASSUME \/ UpSecret \/ DeleteMalformed \/ Publish \/ FileFault(Absent) \/ FileFault(Bad) \/ UNCHANGED vars
              \/ \E v \in VM : UpMacSecret(v) \/ autoVZNAT(v) \/ \E i \in IP : Boot(v, i)
       PROVE  UNCHANGED <<latches, conns>>
  BY <1>17 DEF UpSecret, DeleteMalformed, Publish, FileFault, UpMacSecret, autoVZNAT, Boot, vars
<1> QED
  BY <1>2, <1>3, <1>4, <1>7, <1>8, <1>9, <1>10, <1>11, <1>12, <1>13, <1>14, <1>15, <1>16, <1>17, <1>18
  DEF Next, Dialling

-----------------------------------------------------------------------------
(* The inductive invariant holds in every reachable state.                 *)
THEOREM Invariance == Spec => []IInv
<1>1. Init => IInv
  BY InitPeer, InitLatch DEF IInv
<1>2. IInv /\ [Next]_vars => IInv'
  BY StepPeer, StepLatch DEF IInv
<1> QED
  BY <1>1, <1>2, PTL DEF Spec

(* A conn that carries a secret never comes up with any machine but the    *)
(* daemon's own, wherever the resolver sent the dial (handshake.go         *)
(* AwaitAgentProof, ServerHandshake): the two machines share no secret,    *)
(* because each file is named after its machine and each is generated.     *)
THEOREM PeerIsRight == Spec => []RightPeer
<1>1. IInv => RightPeer
  BY DEF IInv, PeerInv
<1> QED
  BY <1>1, Invariance, PTL

(* Once a read, the one at boot included, found a file, no dial whose read *)
(* starts later says hello without a proof and no agent serves a peer      *)
(* without one, whatever happens to the files meanwhile (latch.go          *)
(* LoadLatched; main.go and main_linux.go at boot).                        *)
THEOREM NeverDowngrades == Spec => NoDowngrade
<1> DEFINE Step ==
      \A k \in Conn :
        /\ pc[k] # "sent" /\ pc'[k] = "sent" /\ sec'[k] = Absent => ~began[k]
        /\ answer[k] = None /\ answer'[k] = "plain" => ~agentKnown[peer[k]]
<1>1. IInv /\ [Next]_vars => [Step]_vars
  <2> SUFFICES ASSUME IInv, Next, NEW k \in Conn
               PROVE  /\ pc[k] # "sent" /\ pc'[k] = "sent" /\ sec'[k] = Absent => ~began[k]
                      /\ answer[k] = None /\ answer'[k] = "plain" => ~agentKnown[peer[k]]
    OBVIOUS
  <2>0. TypeOK /\ LatchInv /\ Handshake /\ IInv'
    BY StepPeer, StepLatch DEF IInv, PeerInv
  <2> USE <2>0 DEF TypeOK, VM, Conn, None, Absent, files, latches, conns, choices
  <2>1. pc[k] # "sent" /\ pc'[k] = "sent" => began'[k] = began[k]
    <3>1. ASSUME \E v \in VM : Stop(v) \/ AgentExits(v), pc'[k] = "sent" PROVE began'[k] = began[k]
      BY <3>1, CutConn DEF Stop, AgentExits
    <3>2. ASSUME NEW j \in Conn, Dialling(j) \/ HandshakeTimeout(j), pc'[k] = "sent", pc[k] # "sent"
          PROVE  began'[k] = began[k]
      BY <3>2 DEF Dialling, Dial, LoadRead, LoadReturn, handleTransportConn, AwaitAgentProof,
                  Refused, HandshakeTimeout, Ended, Goto
    <3>3. ASSUME \/ (\E g \in GuestIP : refresh(g)) \/ refreshCoalesced \/ ClientConnects
          PROVE  began'[k] = began[k]
      BY <3>3 DEF refresh, refreshCoalesced, ClientConnects
    <3>4. ASSUME StreamDone \/ DaemonExits, pc'[k] = "sent", pc[k] # "sent" PROVE FALSE
      BY <3>4 DEF StreamDone, DaemonExits, Ended, Goto
    <3>5. ASSUME \/ UpSecret \/ DeleteMalformed \/ DaemonBoots \/ Publish \/ FileFault(Absent) \/ FileFault(Bad)
                 \/ \E v \in VM : \/ ListenTransport(v) \/ UpMacSecret(v) \/ autoVZNAT(v)
                                  \/ \E i \in IP : Boot(v, i)
          PROVE  began'[k] = began[k]
      BY <3>5 DEF UpSecret, DeleteMalformed, DaemonBoots, Publish, FileFault, ListenTransport, UpMacSecret, autoVZNAT, Boot
    <3> QED
      BY <3>1, <3>2, <3>3, <3>4, <3>5 DEF Next
  <2>2. pc'[k] = "sent" /\ sec'[k] = Absent => ~began'[k]
    BY DEF IInv, LatchInv
  <2>3. ASSUME answer[k] = None, answer'[k] = "plain" PROVE ~agentKnown[peer[k]]
    <3>1. handleTransportConn(k)
      <4>1. ASSUME \E v \in VM : Stop(v) \/ AgentExits(v) PROVE FALSE
        BY <2>3, <4>1, CutConn DEF Stop, AgentExits
      <4>2. ASSUME NEW j \in Conn, Dialling(j) \/ HandshakeTimeout(j) PROVE handleTransportConn(k)
        BY <2>3, <4>2 DEF Dialling, Dial, LoadRead, LoadReturn, handleTransportConn, AwaitAgentProof,
                          Refused, HandshakeTimeout, Ended
      <4>3. ~((\E g \in GuestIP : refresh(g)) \/ refreshCoalesced \/ ClientConnects)
        BY <2>3 DEF refresh, refreshCoalesced, ClientConnects
      <4>4. ~(StreamDone \/ DaemonExits)
        BY <2>3 DEF StreamDone, DaemonExits, Ended
      <4>5. ~ \/ UpSecret \/ DeleteMalformed \/ DaemonBoots \/ Publish \/ FileFault(Absent) \/ FileFault(Bad)
              \/ \E v \in VM : \/ ListenTransport(v) \/ UpMacSecret(v) \/ autoVZNAT(v)
                               \/ \E i \in IP : Boot(v, i)
        BY <2>3 DEF UpSecret, DeleteMalformed, DaemonBoots, Publish, FileFault, ListenTransport, UpMacSecret, autoVZNAT, Boot
      <4> QED
        BY <4>1, <4>2, <4>3, <4>4, <4>5 DEF Next
    <3>2. peer[k] \in VM
      BY <3>1 DEF handleTransportConn, Handshake
    <3>3. LoadLatched(guestFile[peer[k]], agentLatch[peer[k]]) = Absent
      BY <2>3, <3>1 DEF handleTransportConn, Verdict
    <3> QED
      BY <3>2, <3>3 DEF LoadLatched, Bad, LatchInv
  <2> QED
    BY <2>1, <2>2, <2>3
<1> QED
  BY <1>1, Invariance, PTL DEF Spec, NoDowngrade

-----------------------------------------------------------------------------
(* The installed daemon. *)

(* Nothing is installed at first.                                          *)
LEMMA InitInstaller == InstallerInit => InstallerInv
<1> SUFFICES ASSUME InstallerInit PROVE InstallerInv
  OBVIOUS
<1>1. NoPlist \in Args
  BY InstallerAssumption DEF Nothing, NoPlist, Args
<1> QED
  BY <1>1 DEF InstallerInit, InstallerInv, InstallerTypeOK, Labels, NoCommand, Out, Replacing, JobIsInstalled

(* The arguments a re-install settles on pin their own VM, whichever VM    *)
(* the plist it replaces was for.                                          *)
LEMMA InheritsOwn ==
  ASSUME InstallerInv, NEW f \in Flags
  PROVE  inheritInstall(f) \in Args /\ OwnPins(inheritInstall(f))
<1> DEFINE vm == IF f.vm # "unset" THEN f.vm
                 ELSE IF plist # NoPlist /\ plist.vm # Nothing THEN plist.vm ELSE DefaultVM
           hw == CASE f.mac = "given" -> vm
                   [] f.mac = Nothing -> Nothing
                   [] OTHER -> IF plist # NoPlist /\ vm = PrevTarget THEN plist.mac ELSE Nothing
           u == keepSetting(f.udp, plist.udp)
           port == IF vm \in Podman THEN record[vm].port ELSE 0
<1>1. vm \in VMs
  BY InstallerAssumption DEF Nothing, InstallerInv, InstallerTypeOK, Args, Flags
<1>2. plist # NoPlist => PrevTarget = plist.vm /\ OwnPins(plist)
  BY InstallerAssumption DEF Nothing, InstallerInv, PrevTarget, OwnPins
<1>3. u \in UDPSets
  BY InstallerAssumption DEF Nothing, keepSetting, Flags, InstallerInv, InstallerTypeOK, Args
<1>4. port \in Nat
  BY DEF InstallerInv, InstallerTypeOK
<1>5. inheritSecret(vm) = vm
  BY <1>2 DEF inheritSecret, OwnPins
<1> HIDE DEF vm, u, port
<1>6. hw \in {Nothing, vm}
  BY <1>2 DEF OwnPins, Flags
<1>7. inheritInstall(f) = [vm |-> vm, mac |-> hw, udp |-> u, secretFile |-> inheritSecret(vm), agent |-> port]
  BY DEF inheritInstall, vm, u, port
<1> QED
  BY <1>1, <1>3, <1>4, <1>5, <1>6, <1>7 DEF Args, OwnPins

(* Every step keeps the invariant.                                         *)
LEMMA StepInstaller == InstallerInv /\ [InstallerNext]_installerVars => InstallerInv'
<1> SUFFICES ASSUME InstallerInv, [InstallerNext]_installerVars PROVE InstallerInv'
  OBVIOUS
<1> USE InstallerAssumption DEF Nothing, InstallerInv, InstallerTypeOK, Labels, JobIsInstalled, Replacing, mac
<1>n. NoPlist \in Args
  BY DEF NoPlist, Args
<1>1. ASSUME NEW f \in Flags, NEW readable, InstallBegin(f, readable) PROVE InstallerInv'
  <2>1. inheritInstall(f) \in Args /\ OwnPins(inheritInstall(f))
    BY InheritsOwn
  <2> QED
    BY <1>1, <1>n, <2>1 DEF InstallBegin, Begin, Resting, NoCommand
<1>2. ASSUME InstallBootout \/ UninstallBootout PROVE InstallerInv'
  <2>0. PICK next \in {"binary", "files"} : Bootout(next)
    BY <1>2 DEF InstallBootout, UninstallBootout
  <2>1. UNCHANGED <<plist, bin, mac, spent>> /\ run.at = "bootout"
    BY <1>2 DEF InstallBootout, UninstallBootout, At
  <2>2. CASE job' = Out /\ misread' = FALSE /\ Proceed(next)
    BY <1>n, <2>1, <2>2 DEF Proceed, Out
  <2>3. CASE run' = NoCommand /\ UNCHANGED <<job, misread>>
    BY <1>n, <2>1, <2>3 DEF NoCommand
  <2>4. CASE misread' = TRUE /\ Proceed(next) /\ UNCHANGED job
    BY <2>1, <2>4 DEF Proceed
  <2> QED
    BY <2>0, <2>2, <2>3, <2>4 DEF Bootout
<1>3. ASSUME InstallBinary \/ InstallPlist PROVE InstallerInv'
  BY <1>3, <1>n DEF InstallBinary, InstallPlist, At, Proceed, Out
<1>4. ASSUME InstallBootstrap PROVE InstallerInv'
  <2>1. CASE Load /\ Proceed("wait")
    BY <1>4, <2>1 DEF InstallBootstrap, At, Proceed, Load
  <2>2. CASE run' = NoCommand /\ UNCHANGED <<job, misread>>
    BY <1>4, <1>n, <2>2 DEF InstallBootstrap, NoCommand
  <2> QED
    BY <1>4, <2>1, <2>2 DEF InstallBootstrap
<1>5. ASSUME InstallWait \/ UninstallBegin PROVE InstallerInv'
  <2>1. CASE InstallWait
    BY <1>n, <2>1 DEF InstallWait, At, Proceed, NoCommand
  <2>2. CASE UninstallBegin
    <3>1. run' = [cmd |-> "uninstall", at |-> "bootout", cfg |-> NoPlist]
      BY <2>2 DEF UninstallBegin, NoCommand
    <3> QED
      BY <1>n, <2>2, <3>1 DEF UninstallBegin, Begin
  <2> QED
    BY <1>5, <2>1, <2>2
<1>6. ASSUME UninstallFiles PROVE InstallerInv'
  BY <1>6, <1>n DEF UninstallFiles, At, Proceed, Out
<1>7. ASSUME DaemonBoot \/ KeepAlive PROVE InstallerInv'
  <2>1. job # Out /\ (Replacing => misread) /\ UNCHANGED <<plist, bin, misread, run, mac, spent>>
    BY <1>7 DEF DaemonBoot, KeepAlive, Out
  <2>2. job'.args = job.args /\ (job'.state = "running" => job'.bin = bin)
    BY <1>7 DEF DaemonBoot, KeepAlive
  <2>3. job' \in [state : {"out", "starting", "running", "exited"}, args : Args, bin : Nat]
    BY <1>7 DEF DaemonBoot, KeepAlive
  <2>4. job.state # "out"
    BY <1>7 DEF DaemonBoot, KeepAlive
  <2> QED
    BY <2>1, <2>2, <2>3, <2>4
<1>8. ASSUME Interrupt \/ MacReboot PROVE InstallerInv'
  <2>1. UNCHANGED <<plist, bin, mac>> /\ run' = NoCommand /\ spent' \in [commands : Nat, events : Nat]
    BY <1>8 DEF Interrupt, MacReboot, Event
  <2>2. CASE UNCHANGED <<job, misread>>
    BY <1>n, <2>1, <2>2 DEF NoCommand
  <2>3. CASE Load
    BY <1>n, <2>1, <2>3 DEF Load, NoCommand
  <2>4. CASE job' = Out /\ misread' = FALSE
    BY <1>n, <2>1, <2>4 DEF Out, NoCommand
  <2> QED
    BY <1>8, <2>2, <2>3, <2>4 DEF Interrupt, MacReboot
<1>9. ASSUME NEW v \in VMs, UpOnMac(v) \/ DownOnMac(v) \/ Rotate(v) \/ Damage(v) \/ Recreate(v)
      PROVE  InstallerInv'
  BY <1>9 DEF UpOnMac, DownOnMac, Rotate, Damage, Recreate, Event
<1>10. ASSUME UNCHANGED installerVars PROVE InstallerInv'
  BY <1>10 DEF installerVars
<1> QED
  BY <1>1, <1>2, <1>3, <1>4, <1>5, <1>6, <1>7, <1>8, <1>9, <1>10
  DEF InstallerNext, Install, Uninstall, Daemon, Environment

(* What an install is about to write pins its own VM and nothing is loaded *)
(* while files are replaced, in every reachable state.                     *)
THEOREM InstallerInvariance == InstallerSpec => []InstallerInv
  BY InitInstaller, StepInstaller, PTL DEF InstallerSpec

(* For any VMs and any number of installs, interruptions and reboots: the  *)
(* installed arguments pin nothing of another VM (inherit.go               *)
(* inheritInstall).                                                        *)
THEOREM OwnVMPinned == InstallerSpec => []PinsOwnVM
<1>1. InstallerInv => PinsOwnVM
  BY DEF InstallerInv, PinsOwnVM, OwnPins
<1> QED
  BY <1>1, InstallerInvariance, PTL

(* What launchd runs is what the disk has, whatever interrupts an install  *)
(* or an uninstall and whichever bootout or bootstrap fails (install.go    *)
(* Install, Uninstall), unless launchctl could not say that it was loaded. *)
THEOREM JobsInstalled == InstallerSpec => []JobIsInstalled
<1>1. InstallerInv => JobIsInstalled
  BY DEF InstallerInv
<1> QED
  BY <1>1, InstallerInvariance, PTL

-----------------------------------------------------------------------------
(* The commands.  First what their operators return. *)

(* The words of the commands' own files.                                   *)
LEMMA OwnWords ==
  /\ {"none", "empty", "dropin", "edited", "norm", "drawbridge", "runc", Nothing} \subseteq Words
  /\ NoFile \in File /\ Dropin \in File /\ NoState \in States
<1>1. {"none", "empty", "dropin", "edited", "norm", "drawbridge", "runc", Nothing} \subseteq Words
  BY DEF Words
<1>2. NoFile \in File /\ Dropin \in File
  BY <1>1 DEF NoFile, Dropin, File
<1> QED
  BY <1>1, <1>2 DEF NoState, States, Owner

(* A merge returns a file and a record of it; both keep the user's keys.   *)
LEMMA MergeResult ==
  ASSUME NEW f \in File
  PROVE  /\ Merged(f) \in File /\ Merge(f).conf \in File /\ Merge(f).changed \in BOOLEAN
         /\ Merge(f).st \in States /\ Merge(f).st.ver = 1 /\ Merge(f).st.before = f
         /\ Merge(f).conf = IF Merge(f).changed THEN Merged(f) ELSE f
         /\ Merge(f).st.added <=> f.rt = "no"
         /\ Merge(f).st.setdef <=> f.dflt # "drawbridge"
         /\ Merge(f).st.setdef => Merge(f).st.prev = f.dflt
         /\ Merge(f).st.after = Merge(f).conf
         /\ Merge(f).changed <=> f # Merged(f) /\ (f.rt = "no" \/ f.dflt # "drawbridge")
<1>1. Base(f) \in Words /\ f.dflt \in Words /\ Merged(f) \in File
  BY OwnWords DEF Base, Merged, File
<1> DEFINE ch == f # Merged(f) /\ (f.rt = "no" \/ f.dflt # "drawbridge")
           s == [ver |-> 1, before |-> f, added |-> f.rt = "no", setdef |-> f.dflt # "drawbridge",
                 prev |-> IF f.dflt # "drawbridge" THEN f.dflt ELSE Nothing,
                 after |-> IF ch THEN Merged(f) ELSE f, owner |-> Nothing]
<1>2. s \in States
  BY <1>1, OwnWords DEF States, Owner
<1>3. Merge(f) = [conf |-> IF ch THEN Merged(f) ELSE f, changed |-> ch, st |-> s]
  BY DEF Merge
<1>4. Merge(f).conf = (IF ch THEN Merged(f) ELSE f) /\ Merge(f).changed = ch /\ Merge(f).st = s
  BY <1>3
<1>5. /\ s.ver = 1 /\ s.before = f /\ s.added = (f.rt = "no") /\ s.setdef = (f.dflt # "drawbridge")
      /\ s.prev = (IF f.dflt # "drawbridge" THEN f.dflt ELSE Nothing) /\ s.after = IF ch THEN Merged(f) ELSE f
  OBVIOUS
<1>6. ch \in BOOLEAN
  OBVIOUS
<1> HIDE DEF s, ch
<1>7. ch <=> f # Merged(f) /\ (f.rt = "no" \/ f.dflt # "drawbridge")
  BY DEF ch
<1> QED
  BY <1>1, <1>2, <1>4, <1>5, <1>6, <1>7

(* A revert returns a file.                                                *)
LEMMA RevertResult ==
  ASSUME NEW f \in File, NEW s \in States
  PROVE  Revert(f, s) \in File /\ RevertDropin(f, s) \in File
<1> USE OwnWords
<1>1. RevertDropin(f, s) \in File
  BY DEF RevertDropin
<1>2. s.before \in File /\ s.prev \in Words
  BY DEF States
<1>3. [base |-> f.base, rt |-> IF s.added THEN "no" ELSE f.rt,
       dflt |-> IF s.setdef /\ f.dflt = "drawbridge" THEN s.prev ELSE f.dflt, fmt |-> "norm"] \in File
  BY <1>2 DEF File
<1> QED
  BY <1>1, <1>2, <1>3 DEF Revert

(* No command, and the commands that start.                                *)
LEMMA IdleRun == Idle \in Runs /\ Idle.cmd = "none" /\ Idle.at = "none"
<1>1. "none" \in RoundTrips
  BY DEF RoundTrips
<1> QED
  BY <1>1, OwnWords DEF Idle, Runs, Owner

LEMMA StartRun ==
  ASSUME NEW oci \in BOOLEAN, NEW has
  PROVE  /\ Starting(oci, has) \in Runs /\ Starting(oci, has).cmd = "up" /\ Starting(oci, has).oci = oci
         /\ Starting(oci, has).refresh = (~oci /\ installedWrappers /\ "runc" \in has)
         /\ Starting(oci, has).noted = (~oci /\ LeavesWrapper(has))
         /\ Starting(oci, has).at = (IF PodmanMachine THEN "record" ELSE "agent")
         /\ Starting(oci, has).owner = Nothing
<1>1. "record" \in RoundTrips /\ "agent" \in RoundTrips
  BY DEF RoundTrips
<1> DEFINE re == ~oci /\ installedWrappers /\ "runc" \in has
           no == ~oci /\ LeavesWrapper(has)
           at == IF PodmanMachine THEN "record" ELSE "agent"
<1>2. re \in BOOLEAN /\ no \in BOOLEAN /\ at \in RoundTrips /\ Idle.owner = Nothing
  BY <1>1 DEF Idle, LeavesWrapper
<1>3. Starting(oci, has) = [Idle EXCEPT !.cmd = "up", !.oci = oci, !.at = at, !.refresh = re, !.noted = no]
  BY DEF Starting
<1>4. re = (~oci /\ installedWrappers /\ "runc" \in has) /\ no = (~oci /\ LeavesWrapper(has))
      /\ at = (IF PodmanMachine THEN "record" ELSE "agent")
  OBVIOUS
<1> HIDE DEF re, no, at
<1> QED
  BY <1>2, <1>3, <1>4, IdleRun DEF Runs

LEMMA StopRun ==
  ASSUME NEW d, d = [Idle EXCEPT !.cmd = "down", !.at = "unit"]
  PROVE  d \in Runs /\ d.cmd = "down" /\ d.at = "unit"
<1>1. "unit" \in RoundTrips
  BY DEF RoundTrips, Placing
<1> QED
  BY <1>1, IdleRun DEF Runs

(* What the user can do to a file.                                         *)
LEMMA EditResult ==
  ASSUME NEW f \in File, NEW how
  PROVE  EmptyFile \in File /\ Edited(f, how) \in File
<1>1. [NoFile EXCEPT !.base = "empty"] \in File
  BY OwnWords DEF File
<1>2. [f EXCEPT !.base = "edited", !.fmt = "edited"] \in File
  BY OwnWords DEF File
<1>3. [f EXCEPT !.dflt = "runc", !.fmt = "edited"] \in File
  BY OwnWords DEF File
<1> QED
  BY <1>1, <1>2, <1>3 DEF EmptyFile, Edited

(* A restart that was missed is one at which an `up' was cut.              *)
LEMMA CutMissed ==
  ASSUME CutShort, lapses' \cap NotRestarted = {}
  PROVE  lapses \cap NotRestarted = {} /\ ~(run.cmd = "up" /\ run.at \in Placing)
<1>1. lapses' = lapses \cup {<<run.cmd, run.at>>}
  BY DEF CutShort
<1>2. lapses \cap NotRestarted = {} /\ <<run.cmd, run.at>> \notin NotRestarted
  BY <1>1
<1>3. run.cmd = "up" /\ run.at \in Placing => <<run.cmd, run.at>> \in NotRestarted
  BY DEF NotRestarted, Cuts, Placing
<1> QED
  BY <1>2, <1>3

-----------------------------------------------------------------------------
(* What an `up' leaves. *)

(* The labels a command proceeds to.                                       *)
LEMMA Labelled ==
  {"none", "record", "agent", "revert", "binaries", "stateDir", "done", "macSecret", "secret", "unit",
   "enable", "restart", "refresh", "merge", "state", "script", "engine", "podmanWrapper", "dropin",
   "podmanState", "podmanApi"} \subseteq RoundTrips
BY DEF RoundTrips, Placing, Late

(* The state stays typed.                                                  *)
LEMMA StepLifecycleType == LifecycleTypeOK /\ [LifecycleNext]_lifecycleVars => LifecycleTypeOK'
<1> SUFFICES ASSUME LifecycleTypeOK, [LifecycleNext]_lifecycleVars PROVE LifecycleTypeOK'
  OBVIOUS
<1> USE LifecycleAssumption, OwnWords, IdleRun, Labelled DEF LifecycleTypeOK, Runs, Proceed, onDisk, procs, ghost
<1>t. pf \in Facts /\ cli \in Nat /\ pf.user \in Owner /\ NoUnit \in UnitFile /\ NoProcess \in [bin : Nat, unit : UnitFile]
  BY DEF Facts, NoUnit, NoProcess, UnitFile, Owner
<1>1. ASSUME NEW oci \in BOOLEAN, NEW has, UpBegin(oci, has) PROVE LifecycleTypeOK'
  <2>1. run' \in Runs
    BY <1>1, StartRun DEF UpBegin
  <2> QED
    BY <1>1, <2>1 DEF UpBegin, Begin
<1>2. ASSUME UpRecord PROVE LifecycleTypeOK'
  <2>1. ociSockOwner(run.oci) \in Owner
    BY <1>t DEF ociSockOwner, States, Owner
  <2>2. recorded' \in Nat
    BY <1>2 DEF UpRecord
  <2> DEFINE w == ociSockOwner(run.oci)
  <2>w. w \in Owner /\ run' = [run EXCEPT !.at = "agent", !.owner = w]
    BY <1>2, <2>1 DEF UpRecord
  <2> HIDE DEF w
  <2>3. run' \in Runs
    BY <2>w
  <2> QED
    BY <1>2, <2>2, <2>3 DEF UpRecord
<1>3. ASSUME UpAgent PROVE LifecycleTypeOK'
  <2>1. CASE checkKernelFeatures(pf)
    <3> DEFINE c == agentBin # cli
    <3>1. c \in BOOLEAN /\ run' = [run EXCEPT !.at = "macSecret", !.changed = c] /\ agentBin' = cli
      BY <1>3, <2>1 DEF UpAgent
    <3> HIDE DEF c
    <3>2. run' \in Runs
      BY <3>1
    <3> QED
      BY <1>3, <1>t, <3>1, <3>2 DEF UpAgent
  <2>2. CASE ~checkKernelFeatures(pf)
    <3>1. run' = Idle /\ UNCHANGED agentBin
      BY <1>3, <2>2 DEF UpAgent
    <3> QED
      BY <1>3, <3>1 DEF UpAgent
  <2> QED
    BY <2>1, <2>2
<1>4. ASSUME EnsureMacSecret PROVE LifecycleTypeOK'
  BY <1>4, <1>t DEF EnsureMacSecret
<1>5. ASSUME EnsureSecret PROVE LifecycleTypeOK'
  BY <1>5, <1>t DEF EnsureSecret
<1>6. ASSUME UpUnit PROVE LifecycleTypeOK'
  BY <1>6, <1>t DEF UpUnit, Unit, Runs, UnitFile
<1>7. ASSUME UpEnable PROVE LifecycleTypeOK'
  BY <1>7, <1>t DEF UpEnable, Process, Transient, Runs
<1>8. ASSUME UpRestart PROVE LifecycleTypeOK'
  <2>1. run' \in Runs
    BY <1>8, Labelled DEF UpRestart, Runs, Proceed
  <2> QED
    BY <1>8, <2>1 DEF UpRestart, Process
<1>9. ASSUME UpRefresh PROVE LifecycleTypeOK'
  BY <1>9, <1>t DEF UpRefresh, Finish
<1>10. ASSUME UpMerge PROVE LifecycleTypeOK'
  <2> DEFINE m == Merge(conf)
  <2>1. m.conf \in File /\ m.changed \in BOOLEAN /\ m.st \in States
    BY MergeResult
  <2>2. conf' = m.conf /\ run' = [run EXCEPT !.at = "state", !.merged = m.changed, !.st = m.st]
    BY <1>10 DEF UpMerge
  <2> HIDE DEF m
  <2>3. run' \in Runs
    BY <2>1, <2>2, Labelled DEF Runs
  <2> QED
    BY <1>10, <2>1, <2>2, <2>3 DEF UpMerge
<1>11. ASSUME UpState PROVE LifecycleTypeOK'
  BY <1>11, <1>t DEF UpState, Runs
<1>12. ASSUME UpScriptWrapper PROVE LifecycleTypeOK'
  BY <1>12, <1>t DEF UpScriptWrapper
<1>13. ASSUME UpScriptEngine PROVE LifecycleTypeOK'
  <2>1. run' \in Runs
    BY <1>13, Labelled, IdleRun DEF UpScriptEngine, Runs, Finish
  <2> QED
    BY <1>13, <2>1 DEF UpScriptEngine
<1>14. ASSUME UpPodmanWrapper PROVE LifecycleTypeOK'
  BY <1>14, <1>t DEF UpPodmanWrapper
<1>15. ASSUME UpDropin PROVE LifecycleTypeOK'
  BY <1>15, <1>t DEF UpDropin, Runs
<1>16. ASSUME UpPodmanState PROVE LifecycleTypeOK'
  <2>1. PodmanState(run.owner) \in States
    BY DEF PodmanState, States, Runs
  <2>2. run' \in Runs
    BY <1>16, Labelled DEF UpPodmanState, Runs, Proceed
  <2> QED
    BY <1>16, <2>1, <2>2 DEF UpPodmanState
<1>17. ASSUME UpPodmanApi PROVE LifecycleTypeOK'
  BY <1>17, <1>t DEF UpPodmanApi, Finish, Runs
<1>18. ASSUME DownBegin PROVE LifecycleTypeOK'
  <2>1. run' \in Runs
    BY <1>18, StopRun DEF DownBegin
  <2>2. spent' \in [commands : Nat, cuts : Nat, events : Nat]
    BY <1>18 DEF DownBegin, Begin
  <2>3. enabled' \in BOOLEAN /\ running' \in [bin : Nat, unit : UnitFile]
    BY <1>18, <1>t DEF DownBegin
  <2> QED
    BY <1>18, <1>t, <2>1, <2>2, <2>3 DEF DownBegin
<1>19. ASSUME DownUnit PROVE LifecycleTypeOK'
  BY <1>19, <1>t DEF DownUnit
<1>20. ASSUME DownRevert PROVE LifecycleTypeOK'
  <2>1. revertOCI \in File
    BY RevertResult DEF revertOCI, revertOCIPodman
  <2>2. run' \in Runs
    BY <1>20, Labelled DEF DownRevert, Runs, Proceed
  <2> QED
    BY <1>20, <2>1, <2>2 DEF DownRevert
<1>21. ASSUME DownEngine PROVE LifecycleTypeOK'
  BY <1>21, <1>t DEF DownEngine, Runs
<1>22. ASSUME DownBinaries PROVE LifecycleTypeOK'
  BY <1>22, <1>t DEF DownBinaries
<1>23. ASSUME DownStateDir PROVE LifecycleTypeOK'
  BY <1>23, <1>t DEF DownStateDir
<1>24. ASSUME DownRecord PROVE LifecycleTypeOK'
  BY <1>24, <1>t DEF DownRecord, Finish
<1>25. ASSUME CutShort PROVE LifecycleTypeOK'
  BY <1>25, <1>t DEF CutShort
<1>26. ASSUME UserEdit PROVE LifecycleTypeOK'
  <2>4. conf' \in File /\ mine' \in File
    BY <1>26, EditResult DEF UserEdit
  <2> QED
    BY <1>26, <2>4 DEF UserEdit, Event
<1>27. ASSUME RotateSecret PROVE LifecycleTypeOK'
  BY <1>27, <1>t DEF RotateSecret, Event
<1>28. ASSUME Upgrade PROVE LifecycleTypeOK'
  BY <1>28, <1>t DEF Upgrade
<1>29. ASSUME Reboot PROVE LifecycleTypeOK'
  BY <1>29, <1>t DEF Reboot, Event, Process
<1>30. ASSUME UNCHANGED lifecycleVars PROVE LifecycleTypeOK'
  BY <1>30 DEF lifecycleVars
<1> QED
  BY <1>1, <1>2, <1>3, <1>4, <1>5, <1>6, <1>7, <1>8, <1>9, <1>10, <1>11, <1>12, <1>13, <1>14,
     <1>15, <1>16, <1>17, <1>18, <1>19, <1>20, <1>21, <1>22, <1>23, <1>24, <1>25, <1>26, <1>27,
     <1>28, <1>29, <1>30 DEF LifecycleNext, Up, Down

(* A command keeps to its round trips.                                     *)
LEMMA StepTrips == LifecycleTypeOK /\ Trips /\ [LifecycleNext]_lifecycleVars => Trips'
<1> SUFFICES ASSUME LifecycleTypeOK, Trips, [LifecycleNext]_lifecycleVars PROVE Trips'
  OBVIOUS
<1> USE IdleRun DEF LifecycleTypeOK, Runs, Trips, Upping, At, PodmanEngine, Proceed, onDisk, procs, ghost
<1>1. ASSUME NEW oci \in BOOLEAN, NEW has, UpBegin(oci, has) PROVE Trips'
  <2>1. CASE run' = Starting(oci, has)
    <3>1. run'.cmd = "up" /\ run'.at \in {"record", "agent"}
      BY <2>1, StartRun
    <3> QED
      BY <1>1, <3>1 DEF UpBegin, Begin, Resting
  <2>2. CASE run' = Idle
    BY <1>1, <2>2 DEF UpBegin, Begin, Resting
  <2> QED
    BY <1>1, <2>1, <2>2 DEF UpBegin
<1>2. ASSUME UpRecord PROVE Trips'
  BY <1>2 DEF UpRecord
<1>3. ASSUME UpAgent PROVE Trips'
  <2>1. CASE checkKernelFeatures(pf)
    <3> DEFINE c == agentBin # cli
    <3>1. c \in BOOLEAN /\ run' = [run EXCEPT !.at = "macSecret", !.changed = c] /\ agentBin' = cli
      BY <1>3, <2>1 DEF UpAgent
    <3>2. ~c => agentBin' = agentBin
      BY <3>1
    <3> HIDE DEF c
    <3> QED
      BY <1>3, <3>1, <3>2 DEF UpAgent
  <2>2. CASE ~checkKernelFeatures(pf)
    <3>1. run' = Idle /\ UNCHANGED agentBin
      BY <1>3, <2>2 DEF UpAgent
    <3> QED
      BY <1>3, <3>1 DEF UpAgent
  <2> QED
    BY <2>1, <2>2
<1>4. ASSUME EnsureMacSecret PROVE Trips'
  BY <1>4 DEF EnsureMacSecret
<1>5. ASSUME EnsureSecret PROVE Trips'
  BY <1>5 DEF EnsureSecret
<1>6. ASSUME UpUnit PROVE Trips'
  BY <1>6 DEF UpUnit
<1>7. ASSUME UpEnable PROVE Trips'
  BY <1>7 DEF UpEnable
<1>8. ASSUME UpRestart PROVE Trips'
  BY <1>8 DEF UpRestart
<1>9. ASSUME UpRefresh PROVE Trips'
  BY <1>9 DEF UpRefresh, Finish
<1>10. ASSUME UpMerge PROVE Trips'
  <2>1. Merge(conf).st.ver = 1
    BY MergeResult
  <2> DEFINE m == Merge(conf)
  <2>2. run' = [run EXCEPT !.at = "state", !.merged = m.changed, !.st = m.st] /\ m.st.ver = 1
    BY <1>10, <2>1 DEF UpMerge
  <2> HIDE DEF m
  <2> QED
    BY <1>10, <2>2 DEF UpMerge
<1>11. ASSUME UpState PROVE Trips'
  BY <1>11 DEF UpState
<1>12. ASSUME UpScriptWrapper PROVE Trips'
  BY <1>12 DEF UpScriptWrapper
<1>13. ASSUME UpScriptEngine PROVE Trips'
  BY <1>13 DEF UpScriptEngine, Finish
<1>14. ASSUME UpPodmanWrapper PROVE Trips'
  BY <1>14 DEF UpPodmanWrapper
<1>15. ASSUME UpDropin PROVE Trips'
  BY <1>15 DEF UpDropin
<1>16. ASSUME UpPodmanState PROVE Trips'
  BY <1>16 DEF UpPodmanState, PodmanState
<1>17. ASSUME UpPodmanApi PROVE Trips'
  BY <1>17 DEF UpPodmanApi, Finish
<1>18. ASSUME DownBegin PROVE Trips'
  <2>1. run'.cmd = "down" /\ run'.at = "unit"
    BY <1>18, StopRun DEF DownBegin
  <2> QED
    BY <1>18, <2>1 DEF DownBegin, Begin, Resting
<1>19. ASSUME DownUnit PROVE Trips'
  BY <1>19 DEF DownUnit
<1>20. ASSUME DownRevert PROVE Trips'
  BY <1>20 DEF DownRevert
<1>21. ASSUME DownEngine PROVE Trips'
  BY <1>21 DEF DownEngine
<1>22. ASSUME DownBinaries PROVE Trips'
  BY <1>22 DEF DownBinaries
<1>23. ASSUME DownStateDir PROVE Trips'
  BY <1>23 DEF DownStateDir
<1>24. ASSUME DownRecord PROVE Trips'
  BY <1>24 DEF DownRecord, Finish
<1>25. ASSUME CutShort PROVE Trips'
  BY <1>25 DEF CutShort, Resting
<1>26. ASSUME UserEdit PROVE Trips'
  BY <1>26 DEF UserEdit, Event, Resting
<1>27. ASSUME RotateSecret PROVE Trips'
  BY <1>27 DEF RotateSecret, Event
<1>28. ASSUME Upgrade PROVE Trips'
  BY <1>28 DEF Upgrade
<1>29. ASSUME Reboot PROVE Trips'
  BY <1>29 DEF Reboot, Event
<1>30. ASSUME UNCHANGED lifecycleVars PROVE Trips'
  BY <1>30 DEF lifecycleVars
<1> QED
  BY <1>1, <1>2, <1>3, <1>4, <1>5, <1>6, <1>7, <1>8, <1>9, <1>10, <1>11, <1>12, <1>13, <1>14,
     <1>15, <1>16, <1>17, <1>18, <1>19, <1>20, <1>21, <1>22, <1>23, <1>24, <1>25, <1>26, <1>27,
     <1>28, <1>29, <1>30 DEF LifecycleNext, Up, Down

(* What an `up' has put in place stays there until it ends.                 *)
LEMMA StepInPlace == LifecycleTypeOK /\ Trips /\ InPlace /\ [LifecycleNext]_lifecycleVars => InPlace'
<1> SUFFICES ASSUME LifecycleTypeOK, Trips, InPlace, [LifecycleNext]_lifecycleVars PROVE InPlace'
  OBVIOUS
<1> USE LifecycleAssumption, IdleRun DEF LifecycleTypeOK, Runs, InPlace, Unit, Upping, At, Proceed, Placing, Late, onDisk, procs, ghost
<1>1. ASSUME NEW oci \in BOOLEAN, NEW has, UpBegin(oci, has) PROVE InPlace'
  <2>1. CASE run' = Starting(oci, has)
    <3>1. run'.cmd = "up" /\ run'.at \in {"record", "agent"} /\ (~run'.oci /\ ~run'.refresh => wrapper = 0 \/ run'.noted)
      BY <2>1, StartRun DEF installedWrappers, LeavesWrapper, Trips
    <3> QED
      BY <1>1, <3>1 DEF UpBegin, Begin, Resting
  <2>2. CASE run' = Idle
    BY <1>1, <2>2 DEF UpBegin, Begin, Resting
  <2> QED
    BY <1>1, <2>1, <2>2 DEF UpBegin
<1>2. ASSUME UpRecord PROVE InPlace'
  BY <1>2 DEF UpRecord
<1>3. ASSUME UpAgent PROVE InPlace'
  <2>1. CASE checkKernelFeatures(pf)
    <3> DEFINE c == agentBin # cli
    <3>1. c \in BOOLEAN /\ run' = [run EXCEPT !.at = "macSecret", !.changed = c] /\ agentBin' = cli
      BY <1>3, <2>1 DEF UpAgent
    <3>2. ~c => agentBin' = agentBin
      BY <3>1
    <3> HIDE DEF c
    <3> QED
      BY <1>3, <3>1, <3>2 DEF UpAgent
  <2>2. CASE ~checkKernelFeatures(pf)
    <3>1. run' = Idle /\ UNCHANGED agentBin
      BY <1>3, <2>2 DEF UpAgent
    <3> QED
      BY <1>3, <3>1 DEF UpAgent
  <2> QED
    BY <2>1, <2>2
<1>4. ASSUME EnsureMacSecret PROVE InPlace'
  BY <1>4 DEF EnsureMacSecret
<1>5. ASSUME EnsureSecret PROVE InPlace'
  BY <1>5 DEF EnsureSecret
<1>6. ASSUME UpUnit PROVE InPlace'
  BY <1>6 DEF UpUnit
<1>7. ASSUME UpEnable PROVE InPlace'
  BY <1>7 DEF UpEnable
<1>8. ASSUME UpRestart PROVE InPlace'
  BY <1>8 DEF UpRestart
<1>9. ASSUME UpRefresh PROVE InPlace'
  BY <1>9 DEF UpRefresh, Finish
<1>10. ASSUME UpMerge PROVE InPlace'
  BY <1>10 DEF UpMerge
<1>11. ASSUME UpState PROVE InPlace'
  BY <1>11 DEF UpState
<1>12. ASSUME UpScriptWrapper PROVE InPlace'
  BY <1>12 DEF UpScriptWrapper
<1>13. ASSUME UpScriptEngine PROVE InPlace'
  BY <1>13 DEF UpScriptEngine, Finish
<1>14. ASSUME UpPodmanWrapper PROVE InPlace'
  BY <1>14 DEF UpPodmanWrapper
<1>15. ASSUME UpDropin PROVE InPlace'
  BY <1>15 DEF UpDropin
<1>16. ASSUME UpPodmanState PROVE InPlace'
  BY <1>16 DEF UpPodmanState
<1>17. ASSUME UpPodmanApi PROVE InPlace'
  BY <1>17 DEF UpPodmanApi, Finish
<1>18. ASSUME DownBegin PROVE InPlace'
  <2>1. run'.cmd = "down" /\ run'.at = "unit"
    BY <1>18, StopRun DEF DownBegin
  <2> QED
    BY <1>18, <2>1 DEF DownBegin, Begin, Resting
<1>19. ASSUME DownUnit PROVE InPlace'
  BY <1>19 DEF DownUnit
<1>20. ASSUME DownRevert PROVE InPlace'
  BY <1>20 DEF DownRevert
<1>21. ASSUME DownEngine PROVE InPlace'
  BY <1>21 DEF DownEngine
<1>22. ASSUME DownBinaries PROVE InPlace'
  BY <1>22 DEF DownBinaries
<1>23. ASSUME DownStateDir PROVE InPlace'
  BY <1>23 DEF DownStateDir
<1>24. ASSUME DownRecord PROVE InPlace'
  BY <1>24 DEF DownRecord, Finish
<1>25. ASSUME CutShort PROVE InPlace'
  BY <1>25 DEF CutShort, Resting
<1>26. ASSUME UserEdit PROVE InPlace'
  BY <1>26 DEF UserEdit, Event, Resting
<1>27. ASSUME RotateSecret PROVE InPlace'
  BY <1>27 DEF RotateSecret, Event, Resting
<1>28. ASSUME Upgrade PROVE InPlace'
  BY <1>28 DEF Upgrade, Resting
<1>29. ASSUME Reboot PROVE InPlace'
  BY <1>29 DEF Reboot, Event, Resting
<1>30. ASSUME UNCHANGED lifecycleVars PROVE InPlace'
  BY <1>30 DEF lifecycleVars
<1> QED
  BY <1>1, <1>2, <1>3, <1>4, <1>5, <1>6, <1>7, <1>8, <1>9, <1>10, <1>11, <1>12, <1>13, <1>14,
     <1>15, <1>16, <1>17, <1>18, <1>19, <1>20, <1>21, <1>22, <1>23, <1>24, <1>25, <1>26, <1>27,
     <1>28, <1>29, <1>30 DEF LifecycleNext, Up, Down

(* The agent runs what is installed, or the `up' restarts it.              *)
LEMMA StepCurrent == LifecycleTypeOK /\ InPlace /\ Current /\ [LifecycleNext]_lifecycleVars => Current'
<1> SUFFICES ASSUME LifecycleTypeOK, InPlace, Current, [LifecycleNext]_lifecycleVars PROVE Current'
  OBVIOUS
<1> USE IdleRun DEF LifecycleTypeOK, Runs, InPlace, Current, Unit, Process, Upping, At, Proceed, Placing, Late, onDisk, procs, ghost
<1>1. ASSUME NEW oci \in BOOLEAN, NEW has, UpBegin(oci, has) PROVE Current'
  <2>1. CASE run' = Starting(oci, has)
    <3>1. run'.cmd = "up" /\ run'.at \in {"record", "agent"}
      BY <2>1, StartRun
    <3> QED
      BY <1>1, <3>1 DEF UpBegin, Begin, Resting
  <2>2. CASE run' = Idle
    BY <1>1, <2>2 DEF UpBegin, Begin, Resting
  <2> QED
    BY <1>1, <2>1, <2>2 DEF UpBegin
<1>2. ASSUME UpRecord PROVE Current'
  BY <1>2 DEF UpRecord
<1>3. ASSUME UpAgent PROVE Current'
  <2>1. CASE checkKernelFeatures(pf)
    <3> DEFINE c == agentBin # cli
    <3>1. c \in BOOLEAN /\ run' = [run EXCEPT !.at = "macSecret", !.changed = c] /\ agentBin' = cli
      BY <1>3, <2>1 DEF UpAgent
    <3>2. ~c => agentBin' = agentBin
      BY <3>1
    <3> HIDE DEF c
    <3> QED
      BY <1>3, <3>1, <3>2 DEF UpAgent
  <2>2. CASE ~checkKernelFeatures(pf)
    <3>1. run' = Idle /\ UNCHANGED agentBin
      BY <1>3, <2>2 DEF UpAgent
    <3> QED
      BY <1>3, <3>1 DEF UpAgent
  <2> QED
    BY <2>1, <2>2
<1>4. ASSUME EnsureMacSecret PROVE Current'
  BY <1>4 DEF EnsureMacSecret
<1>5. ASSUME EnsureSecret PROVE Current'
  BY <1>5 DEF EnsureSecret
<1>6. ASSUME UpUnit PROVE Current'
  BY <1>6 DEF UpUnit
<1>7. ASSUME UpEnable PROVE Current'
  BY <1>7 DEF UpEnable, Transient
<1>8. ASSUME UpRestart PROVE Current'
  BY <1>8 DEF UpRestart
<1>9. ASSUME UpRefresh PROVE Current'
  BY <1>9 DEF UpRefresh, Finish
<1>10. ASSUME UpMerge PROVE Current'
  BY <1>10 DEF UpMerge, NotRestarted, Cuts
<1>11. ASSUME UpState PROVE Current'
  BY <1>11 DEF UpState
<1>12. ASSUME UpScriptWrapper PROVE Current'
  BY <1>12 DEF UpScriptWrapper
<1>13. ASSUME UpScriptEngine PROVE Current'
  BY <1>13 DEF UpScriptEngine, Finish, NotRestarted, Cuts
<1>14. ASSUME UpPodmanWrapper PROVE Current'
  BY <1>14 DEF UpPodmanWrapper
<1>15. ASSUME UpDropin PROVE Current'
  BY <1>15 DEF UpDropin
<1>16. ASSUME UpPodmanState PROVE Current'
  BY <1>16 DEF UpPodmanState
<1>17. ASSUME UpPodmanApi PROVE Current'
  BY <1>17 DEF UpPodmanApi, Finish, NotRestarted, Cuts
<1>18. ASSUME DownBegin PROVE Current'
  <2>1. run'.cmd = "down" /\ run'.at = "unit"
    BY <1>18, StopRun DEF DownBegin
  <2> QED
    BY <1>18, <2>1 DEF DownBegin, Begin, Resting
<1>19. ASSUME DownUnit PROVE Current'
  BY <1>19 DEF DownUnit
<1>20. ASSUME DownRevert PROVE Current'
  BY <1>20 DEF DownRevert
<1>21. ASSUME DownEngine PROVE Current'
  BY <1>21 DEF DownEngine, NotRestarted, Cuts
<1>22. ASSUME DownBinaries PROVE Current'
  BY <1>22 DEF DownBinaries
<1>23. ASSUME DownStateDir PROVE Current'
  BY <1>23 DEF DownStateDir
<1>24. ASSUME DownRecord PROVE Current'
  BY <1>24 DEF DownRecord, Finish
<1>25. ASSUME CutShort PROVE Current'
  <2> SUFFICES ASSUME lapses' \cap NotRestarted = {} PROVE Current'
    OBVIOUS
  <2>1. lapses \cap NotRestarted = {} /\ ~Upping(Placing)
    BY <1>25, CutMissed
  <2> QED
    BY <1>25, <2>1 DEF CutShort
<1>26. ASSUME UserEdit PROVE Current'
  BY <1>26 DEF UserEdit, Event, Resting
<1>27. ASSUME RotateSecret PROVE Current'
  BY <1>27 DEF RotateSecret, Event, Resting
<1>28. ASSUME Upgrade PROVE Current'
  BY <1>28 DEF Upgrade, Resting
<1>29. ASSUME Reboot PROVE Current'
  <2>1. Upping({"restart"} \cup Late) => enabled /\ unit # NoUnit /\ agentBin # 0
    BY LifecycleAssumption DEF NoUnit, Owner, Nothing
  <2>2. running' = running \/ running' = NoProcess \/ running' = Process
    BY <1>29 DEF Reboot
  <2>3. enabled /\ unit # NoUnit /\ agentBin # 0 => running' \in {running, Process}
    BY <1>29 DEF Reboot
  <2> QED
    BY <1>29, <2>1, <2>2, <2>3 DEF Reboot
<1>30. ASSUME UNCHANGED lifecycleVars PROVE Current'
  BY <1>30 DEF lifecycleVars
<1> QED
  BY <1>1, <1>2, <1>3, <1>4, <1>5, <1>6, <1>7, <1>8, <1>9, <1>10, <1>11, <1>12, <1>13, <1>14,
     <1>15, <1>16, <1>17, <1>18, <1>19, <1>20, <1>21, <1>22, <1>23, <1>24, <1>25, <1>26, <1>27,
     <1>28, <1>29, <1>30 DEF LifecycleNext, Up, Down

(* Every step keeps what an `up' has put in place.                          *)
LEMMA StepUp == UpInv /\ [LifecycleNext]_lifecycleVars => UpInv'
BY StepLifecycleType, StepTrips, StepInPlace, StepCurrent DEF UpInv

(* Nothing is in place at first.                                           *)
LEMMA InitUp == LifecycleInit => UpInv
<1> SUFFICES ASSUME LifecycleInit PROVE UpInv
  OBVIOUS
<1> USE LifecycleAssumption, OwnWords, IdleRun DEF LifecycleInit
<1>1. LifecycleTypeOK
  <2>1. conf \in File /\ wrapper \in Nat /\ state \in States
    BY DEF NewerState, States
  <2>2. NoUnit \in UnitFile /\ running \in [bin : Nat, unit : UnitFile]
    BY DEF NoUnit, UnitFile, NoProcess, DevProcess, DevBuild
  <2> QED
    BY <2>1, <2>2 DEF LifecycleTypeOK
<1>2. state = NoState \/ (state.ver = 3 /\ ~PodmanEngine)
  BY DEF NewerState, NoState
<1>3. Trips /\ InPlace /\ Current
  BY <1>2 DEF Trips, InPlace, Current, Upping, At
<1> QED
  BY <1>1, <1>3 DEF UpInv

(* LifecycleInvariance: at every moment of an `up', cut or not, what it has
   already put in place is there, and the agent runs what is installed or
   this `up' is going to restart it.                                        *)
THEOREM LifecycleInvariance == LifecycleSpec => []UpInv
BY InitUp, StepUp, PTL DEF LifecycleSpec

(* The round trips an `up' and a `down' can end with.                        *)
LEMMA CommandEnds == LifecycleTypeOK /\ [LifecycleNext]_lifecycleVars => LastTrip
<1> SUFFICES ASSUME LifecycleTypeOK, [LifecycleNext]_lifecycleVars PROVE LastTrip
  OBVIOUS
<1> USE IdleRun DEF LifecycleTypeOK, Runs, Completes, LastTrip, At, Proceed, onDisk, procs, ghost
<1>1. ASSUME NEW oci \in BOOLEAN, NEW has, UpBegin(oci, has) PROVE LastTrip
  <2>1. run' = Starting(oci, has) \/ run' = Idle
    BY <1>1 DEF UpBegin
  <2> QED
    BY <2>1, StartRun
<1>2. ASSUME UpRecord PROVE LastTrip
  BY <1>2 DEF UpRecord
<1>3. ASSUME UpAgent PROVE LastTrip
  <2>1. CASE checkKernelFeatures(pf)
    <3> DEFINE c == agentBin # cli
    <3>1. c \in BOOLEAN /\ run' = [run EXCEPT !.at = "macSecret", !.changed = c] /\ agentBin' = cli
      BY <1>3, <2>1 DEF UpAgent
    <3>2. ~c => agentBin' = agentBin
      BY <3>1
    <3> HIDE DEF c
    <3> QED
      BY <1>3, <3>1, <3>2 DEF UpAgent
  <2>2. CASE ~checkKernelFeatures(pf)
    <3>1. run' = Idle /\ UNCHANGED agentBin
      BY <1>3, <2>2 DEF UpAgent
    <3> QED
      BY <1>3, <3>1 DEF UpAgent
  <2> QED
    BY <2>1, <2>2
<1>4. ASSUME EnsureMacSecret PROVE LastTrip
  BY <1>4 DEF EnsureMacSecret
<1>5. ASSUME EnsureSecret PROVE LastTrip
  BY <1>5 DEF EnsureSecret
<1>6. ASSUME UpUnit PROVE LastTrip
  BY <1>6 DEF UpUnit
<1>7. ASSUME UpEnable PROVE LastTrip
  BY <1>7 DEF UpEnable
<1>8. ASSUME UpRestart PROVE LastTrip
  BY <1>8 DEF UpRestart
<1>9. ASSUME UpRefresh PROVE LastTrip
  BY <1>9 DEF UpRefresh, Finish
<1>10. ASSUME UpMerge PROVE LastTrip
  <2> DEFINE m == Merge(conf)
  <2>1. run' = [run EXCEPT !.at = "state", !.merged = m.changed, !.st = m.st]
    BY <1>10 DEF UpMerge
  <2> HIDE DEF m
  <2> QED
    BY <2>1
<1>11. ASSUME UpState PROVE LastTrip
  BY <1>11 DEF UpState
<1>12. ASSUME UpScriptWrapper PROVE LastTrip
  BY <1>12 DEF UpScriptWrapper
<1>13. ASSUME UpScriptEngine PROVE LastTrip
  BY <1>13 DEF UpScriptEngine, Finish
<1>14. ASSUME UpPodmanWrapper PROVE LastTrip
  BY <1>14 DEF UpPodmanWrapper
<1>15. ASSUME UpDropin PROVE LastTrip
  BY <1>15 DEF UpDropin
<1>16. ASSUME UpPodmanState PROVE LastTrip
  BY <1>16 DEF UpPodmanState
<1>17. ASSUME UpPodmanApi PROVE LastTrip
  BY <1>17 DEF UpPodmanApi, Finish
<1>18. ASSUME DownBegin PROVE LastTrip
  BY <1>18, StopRun DEF DownBegin, Begin
<1>19. ASSUME DownUnit PROVE LastTrip
  BY <1>19 DEF DownUnit
<1>20. ASSUME DownRevert PROVE LastTrip
  BY <1>20 DEF DownRevert
<1>21. ASSUME DownEngine PROVE LastTrip
  BY <1>21 DEF DownEngine
<1>22. ASSUME DownBinaries PROVE LastTrip
  BY <1>22 DEF DownBinaries
<1>23. ASSUME DownStateDir PROVE LastTrip
  BY <1>23 DEF DownStateDir
<1>24. ASSUME DownRecord PROVE LastTrip
  BY <1>24 DEF DownRecord, Finish
<1>25. ASSUME CutShort PROVE LastTrip
  BY <1>25 DEF CutShort
<1>26. ASSUME UserEdit PROVE LastTrip
  BY <1>26 DEF UserEdit, Event, Resting
<1>27. ASSUME RotateSecret PROVE LastTrip
  BY <1>27 DEF RotateSecret, Event
<1>28. ASSUME Upgrade PROVE LastTrip
  BY <1>28 DEF Upgrade
<1>29. ASSUME Reboot PROVE LastTrip
  BY <1>29 DEF Reboot, Event
<1>30. ASSUME UNCHANGED lifecycleVars PROVE LastTrip
  BY <1>30 DEF lifecycleVars
<1> QED
  BY <1>1, <1>2, <1>3, <1>4, <1>5, <1>6, <1>7, <1>8, <1>9, <1>10, <1>11, <1>12, <1>13, <1>14,
     <1>15, <1>16, <1>17, <1>18, <1>19, <1>20, <1>21, <1>22, <1>23, <1>24, <1>25, <1>26, <1>27,
     <1>28, <1>29, <1>30 DEF LifecycleNext, Up, Down

(* UpConverges for every step: whatever was cut before, short of a cut
   between the agent's install and its restart, an `up' that completes
   leaves one consistent installation, on every machine and for every number
   of commands, cuts and events.                                           *)
THEOREM UpLeavesConsistent == LifecycleSpec => UpConverges
<1>1. ASSUME UpInv, [LifecycleNext]_lifecycleVars, Completes("up"), lapses \cap NotRestarted = {}
      PROVE  Consistent'
  <2> USE <1>1 DEF UpInv, LifecycleTypeOK, Runs, InPlace, Current, Consistent, Upping, At, Late, Placing,
        Proceed, Finish, Process, Unit, Completes, onDisk, procs, ghost
  <2>1. unit = Unit => unit # NoUnit
    BY DEF NoUnit, Owner, Nothing
  <2>2. CASE UpRestart
    BY <2>1, <2>2 DEF UpRestart
  <2>3. CASE UpRefresh
    BY <2>1, <2>3 DEF UpRefresh
  <2>4. CASE UpScriptEngine
    BY <2>1, <2>4, IdleRun DEF UpScriptEngine
  <2>5. CASE UpPodmanApi
    BY <2>1, <2>5 DEF UpPodmanApi
  <2> QED
    BY <2>2, <2>3, <2>4, <2>5, CommandEnds DEF LastTrip
<1>2. UpInv /\ [LifecycleNext]_lifecycleVars
        => [Completes("up") /\ lapses \cap NotRestarted = {} => Consistent']_lifecycleVars
  BY <1>1
<1> QED
  BY <1>2, LifecycleInvariance, PTL DEF LifecycleSpec, UpConverges

(* Only on a podman machine is an owner looked up.                         *)
LEMMA StepUnowned == UpInv /\ Unowned /\ [LifecycleNext]_lifecycleVars => Unowned'
<1> SUFFICES ASSUME UpInv, Unowned, [LifecycleNext]_lifecycleVars PROVE Unowned'
  OBVIOUS
<1> USE IdleRun DEF UpInv, LifecycleTypeOK, Runs, Unowned, PodmanMachine, At, Proceed
<1>0. Idle.owner = Nothing
  BY DEF Idle
<1>1. ASSUME NEW oci \in BOOLEAN, NEW has, UpBegin(oci, has) PROVE Unowned'
  <2>1. run'.owner = Nothing /\ (~PodmanMachine => run'.at # "record")
    BY <1>0, <1>1, StartRun DEF UpBegin
  <2> QED
    BY <1>1, <2>1 DEF UpBegin
<1>2. ASSUME UpRecord PROVE Unowned'
  BY <1>2 DEF UpRecord
<1>3. ASSUME UpAgent PROVE Unowned'
  BY <1>0, <1>3 DEF UpAgent
<1>4. ASSUME EnsureMacSecret \/ EnsureSecret \/ UpUnit \/ UpEnable \/ UpRestart PROVE Unowned'
  BY <1>4 DEF EnsureMacSecret, EnsureSecret, UpUnit, UpEnable, UpRestart
<1>5. ASSUME UpMerge PROVE Unowned'
  <2> DEFINE m == Merge(conf)
  <2>1. run' = [run EXCEPT !.at = "state", !.merged = m.changed, !.st = m.st]
    BY <1>5 DEF UpMerge
  <2> HIDE DEF m
  <2> QED
    BY <1>5, <2>1 DEF UpMerge
<1>6. ASSUME UpRefresh \/ UpState \/ UpScriptWrapper PROVE Unowned'
  BY <1>6 DEF UpRefresh, UpState, UpScriptWrapper, Finish
<1>7. ASSUME UpScriptEngine PROVE Unowned'
  BY <1>0, <1>7 DEF UpScriptEngine, Finish
<1>8. ASSUME UpPodmanWrapper \/ UpDropin \/ UpPodmanState \/ UpPodmanApi PROVE Unowned'
  BY <1>8 DEF UpPodmanWrapper, UpDropin, UpPodmanState, UpPodmanApi, Finish
<1>9. ASSUME DownBegin PROVE Unowned'
  <2>1. run'.cmd = "down" /\ run'.owner = Nothing
    BY <1>0, <1>9, StopRun DEF DownBegin
  <2> QED
    BY <1>9, <2>1 DEF DownBegin
<1>10. ASSUME DownRevert \/ CutShort PROVE Unowned'
  BY <1>0, <1>10 DEF DownRevert, CutShort
<1>11. ASSUME DownUnit \/ DownEngine \/ DownBinaries \/ DownStateDir \/ DownRecord PROVE Unowned'
  BY <1>11 DEF DownUnit, DownEngine, DownBinaries, DownStateDir, DownRecord, Finish
<1>12. ASSUME UserEdit \/ RotateSecret \/ Upgrade \/ Reboot \/ UNCHANGED lifecycleVars PROVE Unowned'
  BY <1>12 DEF UserEdit, RotateSecret, Upgrade, Reboot, lifecycleVars
<1> QED
  BY <1>1, <1>2, <1>3, <1>4, <1>5, <1>6, <1>7, <1>8, <1>9, <1>10, <1>11, <1>12
  DEF LifecycleNext, Up, Down

(* The owner of the socket is remembered.                                  *)
LEMMA StepOwner == UpInv /\ OwnerInv /\ [LifecycleNext]_lifecycleVars => OwnerInv'
<1> SUFFICES ASSUME UpInv, OwnerInv, [LifecycleNext]_lifecycleVars PROVE OwnerInv'
  OBVIOUS
<1> USE IdleRun DEF UpInv, LifecycleTypeOK, Runs, Trips, OwnerInv, Rootless, PodmanMachine, PodmanEngine, Upping, At, Placing, Late, Reverted, Proceed, onDisk, procs, ghost
<1>1. ASSUME NEW oci \in BOOLEAN, NEW has, UpBegin(oci, has) PROVE OwnerInv'
  <2>1. CASE run' = Starting(oci, has)
    <3>1. run'.cmd = "up" /\ run'.at \in {"record", "agent"} /\ (PodmanMachine => run'.at = "record")
      BY <2>1, StartRun
    <3> QED
      BY <1>1, <3>1 DEF UpBegin, Begin, Resting
  <2>2. CASE run' = Idle
    BY <1>1, <2>2 DEF UpBegin, Begin, Resting
  <2> QED
    BY <1>1, <2>1, <2>2 DEF UpBegin
<1>2. ASSUME UpRecord PROVE OwnerInv'
  BY <1>2 DEF UpRecord, ociSockOwner
<1>3. ASSUME UpAgent PROVE OwnerInv'
  <2>1. CASE checkKernelFeatures(pf)
    <3> DEFINE c == agentBin # cli
    <3>1. c \in BOOLEAN /\ run' = [run EXCEPT !.at = "macSecret", !.changed = c] /\ agentBin' = cli
      BY <1>3, <2>1 DEF UpAgent
    <3>2. ~c => agentBin' = agentBin
      BY <3>1
    <3> HIDE DEF c
    <3> QED
      BY <1>3, <3>1, <3>2 DEF UpAgent
  <2>2. CASE ~checkKernelFeatures(pf)
    <3>1. run' = Idle /\ UNCHANGED agentBin
      BY <1>3, <2>2 DEF UpAgent
    <3> QED
      BY <1>3, <3>1 DEF UpAgent
  <2> QED
    BY <2>1, <2>2
<1>4. ASSUME EnsureMacSecret PROVE OwnerInv'
  BY <1>4 DEF EnsureMacSecret
<1>5. ASSUME EnsureSecret PROVE OwnerInv'
  BY <1>5 DEF EnsureSecret
<1>6. ASSUME UpUnit PROVE OwnerInv'
  BY <1>6 DEF UpUnit
<1>7. ASSUME UpEnable PROVE OwnerInv'
  BY <1>7 DEF UpEnable
<1>8. ASSUME UpRestart PROVE OwnerInv'
  BY <1>8 DEF UpRestart
<1>9. ASSUME UpRefresh PROVE OwnerInv'
  BY <1>9 DEF UpRefresh, Finish
<1>10. ASSUME UpMerge PROVE OwnerInv'
  <2> DEFINE m == Merge(conf)
  <2>1. run' = [run EXCEPT !.at = "state", !.merged = m.changed, !.st = m.st]
    BY <1>10 DEF UpMerge
  <2> HIDE DEF m
  <2> QED
    BY <1>10, <2>1 DEF UpMerge
<1>11. ASSUME UpState PROVE OwnerInv'
  BY <1>11 DEF UpState
<1>12. ASSUME UpScriptWrapper PROVE OwnerInv'
  BY <1>12 DEF UpScriptWrapper
<1>13. ASSUME UpScriptEngine PROVE OwnerInv'
  BY <1>13 DEF UpScriptEngine, Finish
<1>14. ASSUME UpPodmanWrapper PROVE OwnerInv'
  BY <1>14 DEF UpPodmanWrapper
<1>15. ASSUME UpDropin PROVE OwnerInv'
  BY <1>15 DEF UpDropin
<1>16. ASSUME UpPodmanState PROVE OwnerInv'
  <2>1. state'.after = Dropin /\ state'.owner = run.owner /\ state'.ver = 2
    BY <1>16 DEF UpPodmanState, PodmanState
  <2>2. state' # NoState
    BY <2>1 DEF NoState
  <2> QED
    BY <1>16, <2>1, <2>2 DEF UpPodmanState
<1>17. ASSUME UpPodmanApi PROVE OwnerInv'
  BY <1>17 DEF UpPodmanApi, Finish
<1>18. ASSUME DownBegin PROVE OwnerInv'
  <2>1. run'.cmd = "down" /\ run'.at = "unit"
    BY <1>18, StopRun DEF DownBegin
  <2> QED
    BY <1>18, <2>1 DEF DownBegin, Begin, Resting
<1>19. ASSUME DownUnit PROVE OwnerInv'
  BY <1>19 DEF DownUnit
<1>20. ASSUME DownRevert PROVE OwnerInv'
  BY <1>20 DEF DownRevert, revertOCI, revertOCIPodman, RevertDropin, NoFile, Dropin
<1>21. ASSUME DownEngine PROVE OwnerInv'
  BY <1>21 DEF DownEngine
<1>22. ASSUME DownBinaries PROVE OwnerInv'
  BY <1>22 DEF DownBinaries
<1>23. ASSUME DownStateDir PROVE OwnerInv'
  BY <1>23 DEF DownStateDir
<1>24. ASSUME DownRecord PROVE OwnerInv'
  BY <1>24 DEF DownRecord, Finish
<1>25. ASSUME CutShort PROVE OwnerInv'
  BY <1>25 DEF CutShort
<1>26. ASSUME UserEdit PROVE OwnerInv'
  <2>1. conf'.fmt = "edited"
    BY <1>26 DEF UserEdit, Edited, File
  <2>2. conf' # Dropin
    BY <2>1 DEF Dropin
  <2> QED
    BY <1>26, <2>2 DEF UserEdit, Resting
<1>27. ASSUME RotateSecret PROVE OwnerInv'
  BY <1>27 DEF RotateSecret, Event
<1>28. ASSUME Upgrade PROVE OwnerInv'
  BY <1>28 DEF Upgrade
<1>29. ASSUME Reboot PROVE OwnerInv'
  BY <1>29 DEF Reboot, Event
<1>30. ASSUME UNCHANGED lifecycleVars PROVE OwnerInv'
  BY <1>30 DEF lifecycleVars
<1> QED
  BY <1>1, <1>2, <1>3, <1>4, <1>5, <1>6, <1>7, <1>8, <1>9, <1>10, <1>11, <1>12, <1>13, <1>14,
     <1>15, <1>16, <1>17, <1>18, <1>19, <1>20, <1>21, <1>22, <1>23, <1>24, <1>25, <1>26, <1>27,
     <1>28, <1>29, <1>30 DEF LifecycleNext, Up, Down

(* Nobody owns the socket at first.                                        *)
LEMMA InitOwner == LifecycleInit => Unowned /\ OwnerInv
<1>0. LifecycleInit => Unowned
  BY IdleRun DEF LifecycleInit, Unowned, Idle, At
<1> SUFFICES ASSUME LifecycleInit, Rootless PROVE OwnerInv
  BY <1>0 DEF OwnerInv
<1>1. conf = NoFile /\ state = NoState /\ NoFile # Dropin
  BY DEF LifecycleInit, Rootless, PodmanEngine, NoFile, Dropin
<1> QED
  BY <1>1, IdleRun DEF LifecycleInit, OwnerInv, Upping, Reverted

(* OwnerKept for every step: on a rootless podman machine an `up' that
   completes while the drop-in is there leaves the socket to the login user,
   unless an `up' was cut between the drop-in and its record; a rootless
   podman under another provider has the drop-in and no owner.             *)
THEOREM OwnerIsKept == LifecycleSpec => OwnerKept
<1>1. ASSUME UpInv, Unowned, OwnerInv, [LifecycleNext]_lifecycleVars, Completes("up"), PodmanEngine, ~pf.rootful,
             conf' = Dropin, lapses \cap Cuts("up", {"podmanState"}) = {}
      PROVE  unit'.owner = IF PodmanMachine THEN pf.user ELSE Nothing
  <2> USE <1>1 DEF UpInv, LifecycleTypeOK, Runs, Trips, InPlace, Unowned, OwnerInv, Rootless, Upping, At, Late, Placing,
        Unit, onDisk, procs, ghost
  <2>1. <<"up", "podmanState">> \notin lapses
    BY DEF Cuts
  <2>2. CASE UpRestart
    BY <2>1, <2>2 DEF UpRestart
  <2>3. CASE UpRefresh
    BY <2>1, <2>3 DEF UpRefresh
  <2>4. CASE UpScriptEngine
    BY <2>4 DEF UpScriptEngine
  <2>5. CASE UpPodmanApi
    BY <2>1, <2>5 DEF UpPodmanApi
  <2> QED
    BY <2>2, <2>3, <2>4, <2>5, CommandEnds DEF LastTrip
<1>2. UpInv /\ Unowned /\ OwnerInv /\ [LifecycleNext]_lifecycleVars
        => [Completes("up") /\ PodmanEngine /\ ~pf.rootful /\ conf' = Dropin
              /\ lapses \cap Cuts("up", {"podmanState"}) = {}
            => unit'.owner = IF PodmanMachine THEN pf.user ELSE Nothing]_lifecycleVars
  BY <1>1
<1> QED
  BY <1>2, InitUp, StepUp, InitOwner, StepUnowned, StepOwner, PTL DEF LifecycleSpec, OwnerKept

-----------------------------------------------------------------------------
(* What a `down' gives back. *)

(* A file that no drawbridge has touched is merged, and the record says so. *)
LEMMA MergeFresh ==
  ASSUME NEW f \in File, Untouched(f)
  PROVE  /\ Merge(f).conf = Merged(f) /\ Merge(f).st # NoState
         /\ Merge(f).st.added /\ Merge(f).st.setdef /\ Merge(f).st.before = f
         /\ Merge(f).st.prev = f.dflt /\ Merge(f).st.after = Merged(f)
<1>1. Merged(f).rt = "ours" /\ f.rt = "no" /\ f.dflt # "drawbridge"
  BY DEF Merged, Untouched
<1>2. f # Merged(f)
  BY <1>1
<1>3. Merge(f).st # NoState
  BY MergeResult DEF NoState
<1> QED
  BY <1>1, <1>2, <1>3, MergeResult

(* What is merged keeps the base; nothing else is `no file'.                *)
LEMMA MergedKeys ==
  ASSUME NEW f \in File
  PROVE  /\ Merged(f).rt = "ours" /\ Merged(f).dflt = "drawbridge" /\ Merged(f) # NoFile
         /\ Base(Merged(f)) = Base(f)
<1>1. Merged(f).rt = "ours" /\ Merged(f).dflt = "drawbridge" /\ Merged(f).base = Base(f)
  BY DEF Merged
<1>2. NoFile.rt = "no"
  BY DEF NoFile
<1>3. Merged(f) # NoFile
  BY <1>1, <1>2
<1> QED
  BY <1>1, <1>3 DEF Base

(* Undoing what a truthful record says.                                    *)
LEMMA RevertFresh ==
  ASSUME NEW f \in File, NEW s \in States, s.added, s.setdef, Untouched(s.before),
         s.prev = s.before.dflt, s.after = Merged(s.before)
  PROVE  /\ Untouched(Revert(f, s)) /\ Base(Revert(f, s)) = Base(f)
         /\ Revert(f, s).dflt = IF f.dflt = "drawbridge" THEN s.prev ELSE f.dflt
         /\ f = s.after => Revert(f, s) = s.before
<1>1. s.before \in File /\ s.prev \in Words
  BY DEF States
<1>2. Untouched(NoFile) /\ NoFile.dflt # "drawbridge" /\ NoFile.dflt = Nothing
  BY DEF Untouched, NoFile, Nothing
<1>3. CASE f = NoFile
  <2>1. Revert(f, s) = NoFile /\ f # s.after
    BY <1>1, <1>3, MergedKeys DEF Revert
  <2> QED
    BY <1>2, <1>3, <2>1
<1>4. CASE f # NoFile /\ f = s.after
  <2>1. Revert(f, s) = s.before
    BY <1>4 DEF Revert
  <2>2. Base(f) = Base(s.before) /\ f.dflt = "drawbridge"
    BY <1>1, <1>4, MergedKeys
  <2> QED
    BY <2>1, <2>2
<1>5. CASE f # NoFile /\ f # s.after
  <2> DEFINE g == Revert(f, s)
  <2>1. g = [base |-> f.base, rt |-> "no", dflt |-> IF f.dflt = "drawbridge" THEN s.prev ELSE f.dflt, fmt |-> "norm"]
    BY <1>5 DEF Revert
  <2>2. g.base = f.base /\ g.rt = "no" /\ g.fmt = "norm" /\ g.dflt = IF f.dflt = "drawbridge" THEN s.prev ELSE f.dflt
    BY <2>1
  <2> HIDE DEF g
  <2>3. g # NoFile
    BY <2>2 DEF NoFile
  <2>4. Base(g) = Base(f)
    BY <1>5, <2>2, <2>3 DEF Base
  <2>5. Untouched(g)
    BY <2>2 DEF Untouched
  <2> QED
    BY <1>5, <2>2, <2>4, <2>5 DEF g
<1> QED
  BY <1>3, <1>4, <1>5

(* The record of what to undo stays truthful.                              *)
LEMMA StepTruthful == UpInv /\ Truthful /\ [LifecycleNext]_lifecycleVars => Truthful'
<1> SUFFICES ASSUME UpInv, Truthful, [LifecycleNext]_lifecycleVars PROVE Truthful'
  OBVIOUS
<1> USE IdleRun DEF UpInv, LifecycleTypeOK, Runs, Trips, Truthful, Undo, PodmanEngine, Upping, At, Reverted, Proceed, onDisk, procs, ghost
<1>1. ASSUME NEW oci \in BOOLEAN, NEW has, UpBegin(oci, has) PROVE Truthful'
  <2>1. CASE run' = Starting(oci, has)
    <3>1. run'.cmd = "up" /\ run'.at \in {"record", "agent"}
      BY <2>1, StartRun
    <3> QED
      BY <1>1, <3>1 DEF UpBegin, Begin, Resting
  <2>2. CASE run' = Idle
    BY <1>1, <2>2 DEF UpBegin, Begin, Resting
  <2> QED
    BY <1>1, <2>1, <2>2 DEF UpBegin
<1>2. ASSUME UpRecord PROVE Truthful'
  BY <1>2 DEF UpRecord
<1>3. ASSUME UpAgent PROVE Truthful'
  <2>1. CASE checkKernelFeatures(pf)
    <3> DEFINE c == agentBin # cli
    <3>1. c \in BOOLEAN /\ run' = [run EXCEPT !.at = "macSecret", !.changed = c] /\ agentBin' = cli
      BY <1>3, <2>1 DEF UpAgent
    <3>2. ~c => agentBin' = agentBin
      BY <3>1
    <3> HIDE DEF c
    <3> QED
      BY <1>3, <3>1, <3>2 DEF UpAgent
  <2>2. CASE ~checkKernelFeatures(pf)
    <3>1. run' = Idle /\ UNCHANGED agentBin
      BY <1>3, <2>2 DEF UpAgent
    <3> QED
      BY <1>3, <3>1 DEF UpAgent
  <2> QED
    BY <2>1, <2>2
<1>4. ASSUME EnsureMacSecret PROVE Truthful'
  BY <1>4 DEF EnsureMacSecret
<1>5. ASSUME EnsureSecret PROVE Truthful'
  BY <1>5 DEF EnsureSecret
<1>6. ASSUME UpUnit PROVE Truthful'
  BY <1>6 DEF UpUnit
<1>7. ASSUME UpEnable PROVE Truthful'
  BY <1>7 DEF UpEnable
<1>8. ASSUME UpRestart PROVE Truthful'
  BY <1>8 DEF UpRestart
<1>9. ASSUME UpRefresh PROVE Truthful'
  BY <1>9 DEF UpRefresh, Finish
<1>10. ASSUME UpMerge PROVE Truthful'
  <2> DEFINE m == Merge(conf)
  <2>1. /\ run' = [run EXCEPT !.at = "state", !.merged = m.changed, !.st = m.st]
        /\ <<"up", "state">> \in lapses => <<"up", "state">> \in lapses'
    BY <1>10 DEF UpMerge
  <2>2. Untouched(conf) => /\ m.st # NoState /\ m.st.added /\ m.st.setdef /\ Untouched(m.st.before)
                           /\ m.st.prev = m.st.before.dflt /\ m.st.after = Merged(m.st.before)
    BY MergeFresh
  <2> HIDE DEF m
  <2> QED
    BY <1>10, <2>1, <2>2 DEF UpMerge
<1>11. ASSUME UpState PROVE Truthful'
  BY <1>11 DEF UpState
<1>12. ASSUME UpScriptWrapper PROVE Truthful'
  BY <1>12 DEF UpScriptWrapper
<1>13. ASSUME UpScriptEngine PROVE Truthful'
  <2>1. <<"up", "state">> \in lapses => <<"up", "state">> \in lapses'
    BY <1>13 DEF UpScriptEngine
  <2> QED
    BY <1>13, <2>1 DEF UpScriptEngine, Finish
<1>14. ASSUME UpPodmanWrapper PROVE Truthful'
  BY <1>14 DEF UpPodmanWrapper
<1>15. ASSUME UpDropin PROVE Truthful'
  BY <1>15 DEF UpDropin
<1>16. ASSUME UpPodmanState PROVE Truthful'
  BY <1>16 DEF UpPodmanState
<1>17. ASSUME UpPodmanApi PROVE Truthful'
  BY <1>17 DEF UpPodmanApi, Finish
<1>18. ASSUME DownBegin PROVE Truthful'
  <2>1. run'.cmd = "down" /\ run'.at = "unit"
    BY <1>18, StopRun DEF DownBegin
  <2> QED
    BY <1>18, <2>1 DEF DownBegin, Begin, Resting
<1>19. ASSUME DownUnit PROVE Truthful'
  BY <1>19 DEF DownUnit
<1>20. ASSUME DownRevert PROVE Truthful'
  <2>1. ~PodmanEngine /\ <<"up", "state">> \notin lapses => Untouched(revertOCI)
    <3> SUFFICES ASSUME ~PodmanEngine, <<"up", "state">> \notin lapses PROVE Untouched(revertOCI)
      OBVIOUS
    <3>1. CASE state = NoState
      <4>1. revertOCI = conf
        BY <3>1 DEF revertOCI, NoState
      <4> QED
        BY <1>20, <3>1, <4>1 DEF DownRevert
    <3>2. CASE state # NoState
      <4>1. revertOCI = Revert(conf, state)
        BY <3>2 DEF revertOCI
      <4>2. Undo = state
        BY <1>20 DEF DownRevert
      <4> QED
        BY <1>20, <3>2, <4>1, <4>2, RevertFresh
    <3> QED
      BY <3>1, <3>2
  <2> QED
    BY <1>20, <2>1 DEF DownRevert
<1>21. ASSUME DownEngine PROVE Truthful'
  BY <1>21 DEF DownEngine
<1>22. ASSUME DownBinaries PROVE Truthful'
  BY <1>22 DEF DownBinaries
<1>23. ASSUME DownStateDir PROVE Truthful'
  BY <1>23 DEF DownStateDir
<1>24. ASSUME DownRecord PROVE Truthful'
  BY <1>24 DEF DownRecord, Finish
<1>25. ASSUME CutShort PROVE Truthful'
  <2> SUFFICES ASSUME ~PodmanEngine, <<"up", "state">> \notin lapses' PROVE Truthful'
    BY <1>25 DEF CutShort
  <2>1. <<"up", "state">> \notin lapses /\ ~At("up", "state")
    BY <1>25 DEF CutShort
  <2> QED
    BY <1>25, <2>1 DEF CutShort
<1>26. ASSUME UserEdit PROVE Truthful'
  <2>1. Untouched(conf) => Untouched(conf')
    BY <1>26 DEF UserEdit, Edited, Untouched, File
  <2> QED
    BY <1>26, <2>1 DEF UserEdit, Resting
<1>27. ASSUME RotateSecret PROVE Truthful'
  BY <1>27 DEF RotateSecret, Event
<1>28. ASSUME Upgrade PROVE Truthful'
  BY <1>28 DEF Upgrade
<1>29. ASSUME Reboot PROVE Truthful'
  BY <1>29 DEF Reboot, Event
<1>30. ASSUME UNCHANGED lifecycleVars PROVE Truthful'
  BY <1>30 DEF lifecycleVars
<1> QED
  BY <1>1, <1>2, <1>3, <1>4, <1>5, <1>6, <1>7, <1>8, <1>9, <1>10, <1>11, <1>12, <1>13, <1>14,
     <1>15, <1>16, <1>17, <1>18, <1>19, <1>20, <1>21, <1>22, <1>23, <1>24, <1>25, <1>26, <1>27,
     <1>28, <1>29, <1>30 DEF LifecycleNext, Up, Down

(* The lapses that the promises except, one by one.                        *)
LEMMA Lapses ==
  ASSUME NEW S
  PROVE  /\ S \cap Unrecorded = {} <=> <<"up", "state">> \notin S /\ <<"up", "remerged">> \notin S
         /\ S \cap Rerun = {} <=> /\ <<"down", "engine">> \notin S /\ <<"down", "binaries">> \notin S
                                  /\ <<"down", "stateDir">> \notin S
         /\ S \cap Stranding = {} <=> /\ <<"up", "state">> \notin S /\ <<"up", "script">> \notin S
                                      /\ <<"down", "engine">> \notin S /\ <<"down", "warned">> \notin S
<1>1. Unrecorded = {<<"up", "state">>, <<"up", "remerged">>}
  BY DEF Unrecorded, Cuts
<1>2. Rerun = {<<"down", "engine">>, <<"down", "binaries">>, <<"down", "stateDir">>}
  BY DEF Rerun, Cuts
<1>3. Stranding = {<<"up", "state">>, <<"up", "script">>, <<"down", "engine">>, <<"down", "warned">>}
  BY DEF Stranding, Cuts
<1> QED
  BY <1>1, <1>2, <1>3

(* The file stays the user's, but for what the record undoes.               *)
LEMMA StepTheirs == UpInv /\ Truthful /\ Theirs /\ [LifecycleNext]_lifecycleVars => Theirs'
<1> SUFFICES ASSUME UpInv, Truthful, Theirs, [LifecycleNext]_lifecycleVars PROVE Theirs'
  OBVIOUS
<1> USE IdleRun DEF UpInv, LifecycleTypeOK, Runs, Trips, Truthful, Theirs, Undo, PodmanEngine, Upping, At, Reverted, Proceed, onDisk, procs, ghost
<1>1. ASSUME NEW oci \in BOOLEAN, NEW has, UpBegin(oci, has) PROVE Theirs'
  <2>1. CASE run' = Starting(oci, has)
    <3>1. run'.cmd = "up" /\ run'.at \in {"record", "agent"}
      BY <2>1, StartRun
    <3> QED
      BY <1>1, <3>1 DEF UpBegin, Begin, Resting
  <2>2. CASE run' = Idle
    BY <1>1, <2>2 DEF UpBegin, Begin, Resting
  <2> QED
    BY <1>1, <2>1, <2>2 DEF UpBegin
<1>2. ASSUME UpRecord PROVE Theirs'
  BY <1>2 DEF UpRecord
<1>3. ASSUME UpAgent PROVE Theirs'
  <2>1. CASE checkKernelFeatures(pf)
    <3> DEFINE c == agentBin # cli
    <3>1. c \in BOOLEAN /\ run' = [run EXCEPT !.at = "macSecret", !.changed = c] /\ agentBin' = cli
      BY <1>3, <2>1 DEF UpAgent
    <3>2. ~c => agentBin' = agentBin
      BY <3>1
    <3> HIDE DEF c
    <3> QED
      BY <1>3, <3>1, <3>2 DEF UpAgent
  <2>2. CASE ~checkKernelFeatures(pf)
    <3>1. run' = Idle /\ UNCHANGED agentBin
      BY <1>3, <2>2 DEF UpAgent
    <3> QED
      BY <1>3, <3>1 DEF UpAgent
  <2> QED
    BY <2>1, <2>2
<1>4. ASSUME EnsureMacSecret PROVE Theirs'
  BY <1>4 DEF EnsureMacSecret
<1>5. ASSUME EnsureSecret PROVE Theirs'
  BY <1>5 DEF EnsureSecret
<1>6. ASSUME UpUnit PROVE Theirs'
  BY <1>6 DEF UpUnit
<1>7. ASSUME UpEnable PROVE Theirs'
  BY <1>7 DEF UpEnable
<1>8. ASSUME UpRestart PROVE Theirs'
  BY <1>8 DEF UpRestart
<1>9. ASSUME UpRefresh PROVE Theirs'
  BY <1>9 DEF UpRefresh, Finish
<1>10. ASSUME UpMerge PROVE Theirs'
  <2> SUFFICES ASSUME ~PodmanEngine, lapses' \cap Unrecorded = {} PROVE Theirs'
    BY <1>10 DEF UpMerge
  <2> DEFINE m == Merge(conf)
  <2>1. /\ run' = [run EXCEPT !.at = "state", !.merged = m.changed, !.st = m.st] /\ conf' = m.conf
        /\ lapses' = IF m.changed /\ state # NoState /\ m.st.setdef /\ m.st.prev # state.prev
                     THEN lapses \cup {<<"up", "remerged">>} ELSE lapses
        /\ UNCHANGED <<mine, state>>
    BY <1>10 DEF UpMerge
  <2>2. lapses' = lapses /\ ~(m.changed /\ state # NoState /\ m.st.setdef /\ m.st.prev # state.prev)
    BY <2>1, Lapses
  <2>3. ~Reverted /\ ~Reverted' /\ ~At("up", "state") /\ At("up", "state")' /\ <<"up", "state">> \notin lapses
    BY <1>10, <2>1, <2>2, Lapses DEF UpMerge
  <2>4. CASE state = NoState
    <3>1. Untouched(conf) /\ Undo = NoState /\ Undo' = m.st
      BY <2>1, <2>3, <2>4
    <3>2. /\ m.conf = Merged(conf) /\ m.st # NoState /\ m.st.before = conf
          /\ m.st.prev = conf.dflt /\ m.st.after = Merged(conf)
      BY <3>1, MergeFresh
    <3>3. conf'.dflt = "drawbridge" /\ Base(conf') = Base(conf) /\ conf.dflt # "drawbridge"
      BY <2>1, <3>1, <3>2, MergedKeys DEF Untouched
    <3> HIDE DEF m
    <3> QED
      BY <2>1, <2>2, <2>3, <3>1, <3>2, <3>3
  <2>5. CASE state # NoState
    <3>1. Undo = state /\ Undo' = state
      BY <2>1, <2>3, <2>5
    <3>2. /\ m.conf = IF m.changed THEN Merged(conf) ELSE conf
          /\ m.st.setdef <=> conf.dflt # "drawbridge"
          /\ m.st.setdef => m.st.prev = conf.dflt
          /\ m.changed => conf.rt = "no" \/ conf.dflt # "drawbridge"
      BY MergeResult
    <3>3. Merged(conf).dflt = "drawbridge" /\ Base(Merged(conf)) = Base(conf)
      BY MergedKeys
    <3>4. conf = state.after => conf.rt = "ours" /\ conf.dflt = "drawbridge"
      <4>1. state.before \in File /\ state.after = Merged(state.before)
        BY <2>3, <2>5, <3>1 DEF States
      <4> QED
        BY <4>1, MergedKeys
    <3> HIDE DEF m
    <3>5. CASE m.changed
      BY <2>1, <2>2, <2>3, <2>5, <3>1, <3>2, <3>3, <3>4, <3>5
    <3>6. CASE ~m.changed
      BY <2>1, <2>2, <2>3, <2>5, <3>1, <3>2, <3>6
    <3> QED
      BY <3>5, <3>6
  <2> QED
    BY <2>4, <2>5
<1>11. ASSUME UpState PROVE Theirs'
  BY <1>11 DEF UpState
<1>12. ASSUME UpScriptWrapper PROVE Theirs'
  BY <1>12 DEF UpScriptWrapper
<1>13. ASSUME UpScriptEngine PROVE Theirs'
  BY <1>13 DEF UpScriptEngine, Finish
<1>14. ASSUME UpPodmanWrapper PROVE Theirs'
  BY <1>14 DEF UpPodmanWrapper
<1>15. ASSUME UpDropin PROVE Theirs'
  BY <1>15 DEF UpDropin
<1>16. ASSUME UpPodmanState PROVE Theirs'
  BY <1>16 DEF UpPodmanState
<1>17. ASSUME UpPodmanApi PROVE Theirs'
  BY <1>17 DEF UpPodmanApi, Finish
<1>18. ASSUME DownBegin PROVE Theirs'
  <2>1. run'.cmd = "down" /\ run'.at = "unit"
    BY <1>18, StopRun DEF DownBegin
  <2> QED
    BY <1>18, <2>1 DEF DownBegin, Begin, Resting
<1>19. ASSUME DownUnit PROVE Theirs'
  BY <1>19 DEF DownUnit
<1>20. ASSUME DownRevert PROVE Theirs'
  <2> SUFFICES ASSUME ~PodmanEngine, lapses \cap Unrecorded = {} PROVE Theirs'
    BY <1>20 DEF DownRevert
  <2>1. <<"up", "state">> \notin lapses /\ ~Reverted /\ Undo = state /\ Undo' = state
    BY <1>20, Lapses DEF DownRevert
  <2>0. CASE state.ver = 3
    BY <1>20, <2>0, <2>1 DEF DownRevert
  <2>2. state.ver # 3 => Reverted' /\ conf' = revertOCI /\ UNCHANGED <<mine, state, lapses>>
    BY <1>20 DEF DownRevert
  <2> SUFFICES ASSUME state.ver # 3 PROVE Theirs'
    BY <2>0
  <2>3. CASE state = NoState
    <3>1. revertOCI = conf
      BY <2>3 DEF revertOCI, NoState
    <3> QED
      BY <2>1, <2>2, <2>3, <3>1
  <2>4. CASE state # NoState
    <3>1. revertOCI = Revert(conf, state)
      BY <2>4 DEF revertOCI
    <3>2. /\ state.added /\ state.setdef /\ Untouched(state.before)
          /\ state.prev = state.before.dflt /\ state.after = Merged(state.before)
      BY <2>1, <2>4
    <3>3. /\ Base(conf') = Base(conf) /\ Untouched(conf')
          /\ conf'.dflt = IF conf.dflt = "drawbridge" THEN state.prev ELSE conf.dflt
          /\ conf = state.after => conf' = state.before
      BY <2>2, <3>1, <3>2, RevertFresh
    <3> QED
      BY <2>1, <2>2, <2>4, <3>3 DEF Untouched
  <2> QED
    BY <2>3, <2>4
<1>21. ASSUME DownEngine PROVE Theirs'
  BY <1>21 DEF DownEngine
<1>22. ASSUME DownBinaries PROVE Theirs'
  BY <1>22 DEF DownBinaries
<1>23. ASSUME DownStateDir PROVE Theirs'
  <2> SUFFICES ASSUME ~PodmanEngine, lapses \cap Unrecorded = {} PROVE Theirs'
    BY <1>23 DEF DownStateDir
  <2>1. <<"up", "state">> \notin lapses /\ Reverted
    BY <1>23, Lapses DEF DownStateDir
  <2>2. conf.dflt # "drawbridge"
    BY <2>1 DEF Untouched
  <2> QED
    BY <1>23, <2>1, <2>2 DEF DownStateDir
<1>24. ASSUME DownRecord PROVE Theirs'
  BY <1>24 DEF DownRecord, Finish
<1>25. ASSUME CutShort PROVE Theirs'
  <2> SUFFICES ASSUME ~PodmanEngine, lapses' \cap Unrecorded = {} PROVE Theirs'
    BY <1>25 DEF CutShort
  <2>1. lapses' = lapses \cup {<<run.cmd, run.at>>} /\ ~Reverted' /\ UNCHANGED <<conf, mine, state>>
    BY <1>25 DEF CutShort
  <2>2. lapses \cap Unrecorded = {} /\ ~At("up", "state")
    BY <2>1, Lapses
  <2>3. Undo' = Undo
    BY <1>25, <2>2 DEF CutShort
  <2>4. lapses' \cap Rerun = {} => lapses \cap Rerun = {} /\ ~Reverted
    BY <2>1, Lapses
  <2> QED
    BY <2>1, <2>2, <2>3, <2>4
<1>26. ASSUME UserEdit PROVE Theirs'
  <2> SUFFICES ASSUME ~PodmanEngine, lapses \cap Unrecorded = {} PROVE Theirs'
    BY <1>26 DEF UserEdit
  <2> DEFINE f == IF mine = NoFile THEN EmptyFile ELSE mine
  <2>1. PICK how \in {"base", "default"} : conf' = Edited(conf, how) /\ mine' = Edited(f, how)
    BY <1>26 DEF UserEdit
  <2>2. f \in File /\ f.base = Base(mine) /\ f.rt = mine.rt /\ f.dflt = mine.dflt
    BY OwnWords, EditResult DEF Base, EmptyFile, NoFile
  <2> HIDE DEF f
  <2>3. conf # NoFile /\ UNCHANGED <<run, state, lapses>>
    BY <1>26 DEF UserEdit
  <2>4. /\ conf'.fmt = "edited" /\ mine'.fmt = "edited" /\ mine'.rt = mine.rt
        /\ conf'.base = IF how = "base" THEN "edited" ELSE conf.base
        /\ mine'.base = IF how = "base" THEN "edited" ELSE Base(mine)
        /\ conf'.dflt = IF how = "base" THEN conf.dflt ELSE "runc"
        /\ mine'.dflt = IF how = "base" THEN mine.dflt ELSE "runc"
    BY <2>1, <2>2 DEF Edited, File
  <2>5. Base(conf') = conf'.base /\ Base(mine') = mine'.base /\ Base(conf) = conf.base
    BY <2>3, <2>4 DEF Base, NoFile
  <2> QED
    BY <2>3, <2>4, <2>5
<1>27. ASSUME RotateSecret PROVE Theirs'
  BY <1>27 DEF RotateSecret, Event
<1>28. ASSUME Upgrade PROVE Theirs'
  BY <1>28 DEF Upgrade
<1>29. ASSUME Reboot PROVE Theirs'
  BY <1>29 DEF Reboot, Event
<1>30. ASSUME UNCHANGED lifecycleVars PROVE Theirs'
  BY <1>30 DEF lifecycleVars
<1> QED
  BY <1>1, <1>2, <1>3, <1>4, <1>5, <1>6, <1>7, <1>8, <1>9, <1>10, <1>11, <1>12, <1>13, <1>14,
     <1>15, <1>16, <1>17, <1>18, <1>19, <1>20, <1>21, <1>22, <1>23, <1>24, <1>25, <1>26, <1>27,
     <1>28, <1>29, <1>30 DEF LifecycleNext, Up, Down

(* The engine and its file do not name a wrapper that is not there.        *)
LEMMA StepServed == UpInv /\ Truthful /\ Served /\ [LifecycleNext]_lifecycleVars => Served'
<1> SUFFICES ASSUME UpInv, Truthful, Served, [LifecycleNext]_lifecycleVars PROVE Served'
  OBVIOUS
<1> USE LifecycleAssumption, IdleRun DEF UpInv, LifecycleTypeOK, Runs, Trips, InPlace, Served, PodmanEngine, Upping, At, Placing, Late, Proceed, onDisk, procs, ghost
<1>1. ASSUME NEW oci \in BOOLEAN, NEW has, UpBegin(oci, has) PROVE Served'
  <2>1. CASE run' = Starting(oci, has)
    <3>1. run'.cmd = "up" /\ run'.at \in {"record", "agent"}
      BY <2>1, StartRun
    <3> QED
      BY <1>1, <3>1 DEF UpBegin, Begin, Resting
  <2>2. CASE run' = Idle
    BY <1>1, <2>2 DEF UpBegin, Begin, Resting
  <2> QED
    BY <1>1, <2>1, <2>2 DEF UpBegin
<1>2. ASSUME UpRecord PROVE Served'
  BY <1>2 DEF UpRecord
<1>3. ASSUME UpAgent PROVE Served'
  <2>1. CASE checkKernelFeatures(pf)
    <3> DEFINE c == agentBin # cli
    <3>1. c \in BOOLEAN /\ run' = [run EXCEPT !.at = "macSecret", !.changed = c] /\ agentBin' = cli
      BY <1>3, <2>1 DEF UpAgent
    <3>2. ~c => agentBin' = agentBin
      BY <3>1
    <3> HIDE DEF c
    <3> QED
      BY <1>3, <3>1, <3>2 DEF UpAgent
  <2>2. CASE ~checkKernelFeatures(pf)
    <3>1. run' = Idle /\ UNCHANGED agentBin
      BY <1>3, <2>2 DEF UpAgent
    <3> QED
      BY <1>3, <3>1 DEF UpAgent
  <2> QED
    BY <2>1, <2>2
<1>4. ASSUME EnsureMacSecret PROVE Served'
  BY <1>4 DEF EnsureMacSecret
<1>5. ASSUME EnsureSecret PROVE Served'
  BY <1>5 DEF EnsureSecret
<1>6. ASSUME UpUnit PROVE Served'
  BY <1>6 DEF UpUnit
<1>7. ASSUME UpEnable PROVE Served'
  BY <1>7 DEF UpEnable
<1>8. ASSUME UpRestart PROVE Served'
  BY <1>8 DEF UpRestart
<1>9. ASSUME UpRefresh PROVE Served'
  BY <1>9 DEF UpRefresh, Finish
<1>10. ASSUME UpMerge PROVE Served'
  <2>1. conf'.rt = "ours" \/ conf' = conf
    BY <1>10, MergeResult, MergedKeys DEF UpMerge
  <2>2. lapses' \cap Stranding = {} => lapses \cap Stranding = {}
    BY <1>10 DEF UpMerge
  <2>3. At("up", "state")'
    <3> DEFINE m == Merge(conf)
    <3>1. run' = [run EXCEPT !.at = "state", !.merged = m.changed, !.st = m.st]
      BY <1>10 DEF UpMerge
    <3> HIDE DEF m
    <3> QED
      BY <1>10, <3>1 DEF UpMerge
  <2> QED
    BY <1>10, <2>1, <2>2, <2>3 DEF UpMerge
<1>11. ASSUME UpState PROVE Served'
  BY <1>11 DEF UpState
<1>12. ASSUME UpScriptWrapper PROVE Served'
  BY <1>12 DEF UpScriptWrapper
<1>13. ASSUME UpScriptEngine PROVE Served'
  BY <1>13 DEF UpScriptEngine, Finish
<1>14. ASSUME UpPodmanWrapper PROVE Served'
  BY <1>14 DEF UpPodmanWrapper
<1>15. ASSUME UpDropin PROVE Served'
  BY <1>15 DEF UpDropin
<1>16. ASSUME UpPodmanState PROVE Served'
  BY <1>16 DEF UpPodmanState
<1>17. ASSUME UpPodmanApi PROVE Served'
  BY <1>17 DEF UpPodmanApi, Finish
<1>18. ASSUME DownBegin PROVE Served'
  <2>1. run'.cmd = "down" /\ run'.at = "unit"
    BY <1>18, StopRun DEF DownBegin
  <2> QED
    BY <1>18, <2>1 DEF DownBegin, Begin, Resting
<1>19. ASSUME DownUnit PROVE Served'
  BY <1>19 DEF DownUnit
<1>20. ASSUME DownRevert PROVE Served'
  <2> SUFFICES ASSUME ~PodmanEngine, lapses \cap Stranding = {} PROVE Served'
    BY <1>20 DEF DownRevert
  <2>0. CASE state.ver = 3
    BY <1>20, <2>0 DEF DownRevert
  <2> SUFFICES ASSUME state.ver # 3 PROVE Served'
    BY <2>0
  <2>1. Truthful'
    BY <1>20, StepTruthful DEF LifecycleNext, Down
  <2>2. <<"up", "state">> \notin lapses' /\ Reverted' /\ ~PodmanEngine'
    BY <1>20, Lapses DEF DownRevert, Reverted
  <2>3. conf'.rt = "no"
    BY <2>1, <2>2 DEF Truthful, Untouched
  <2> QED
    BY <1>20, <2>3 DEF DownRevert
<1>21. ASSUME DownEngine PROVE Served'
  <2> SUFFICES ASSUME ~PodmanEngine, lapses' \cap Stranding = {} PROVE Served'
    BY <1>21 DEF DownEngine
  <2>1. loaded' = conf /\ lapses' = lapses
    BY <1>21, Lapses DEF DownEngine
  <2> QED
    BY <1>21, <2>1 DEF DownEngine
<1>22. ASSUME DownBinaries PROVE Served'
  <2> SUFFICES ASSUME ~PodmanEngine, lapses \cap Stranding = {} PROVE Served'
    BY <1>22 DEF DownBinaries
  <2>1. <<"up", "state">> \notin lapses /\ Reverted
    BY <1>22, Lapses DEF DownBinaries, Reverted
  <2>2. conf.rt = "no"
    BY <2>1 DEF Truthful, Untouched
  <2> QED
    BY <1>22, <2>2 DEF DownBinaries
<1>23. ASSUME DownStateDir PROVE Served'
  BY <1>23 DEF DownStateDir
<1>24. ASSUME DownRecord PROVE Served'
  BY <1>24 DEF DownRecord, Finish
<1>25. ASSUME CutShort PROVE Served'
  <2> SUFFICES ASSUME ~PodmanEngine, lapses' \cap Stranding = {} PROVE Served'
    BY <1>25 DEF CutShort
  <2>1. lapses' = lapses \cup {<<run.cmd, run.at>>}
    BY <1>25 DEF CutShort
  <2>2. lapses \cap Stranding = {} /\ ~Upping({"state", "script"}) /\ ~At("down", "engine")
    BY <2>1, Lapses
  <2> QED
    BY <1>25, <2>2 DEF CutShort
<1>26. ASSUME UserEdit PROVE Served'
  <2>1. conf'.rt = conf.rt
    BY <1>26 DEF UserEdit, Edited, File
  <2> QED
    BY <1>26, <2>1 DEF UserEdit, Resting
<1>27. ASSUME RotateSecret PROVE Served'
  BY <1>27 DEF RotateSecret, Event
<1>28. ASSUME Upgrade PROVE Served'
  BY <1>28 DEF Upgrade
<1>29. ASSUME Reboot PROVE Served'
  BY <1>29 DEF Reboot, Event
<1>30. ASSUME UNCHANGED lifecycleVars PROVE Served'
  BY <1>30 DEF lifecycleVars
<1> QED
  BY <1>1, <1>2, <1>3, <1>4, <1>5, <1>6, <1>7, <1>8, <1>9, <1>10, <1>11, <1>12, <1>13, <1>14,
     <1>15, <1>16, <1>17, <1>18, <1>19, <1>20, <1>21, <1>22, <1>23, <1>24, <1>25, <1>26, <1>27,
     <1>28, <1>29, <1>30 DEF LifecycleNext, Up, Down

(* On guests drawbridge has never been on, there is nothing to undo.       *)
LEMMA InitDown ==
  ASSUME FreshGuests
  PROVE  LifecycleInit => DownInv
<1> SUFFICES ASSUME LifecycleInit PROVE DownInv
  OBVIOUS
<1>1. UpInv
  BY InitUp
<1>2. ~PodmanEngine => Untouched(conf)
  BY DEF LifecycleInit, FreshGuests, PodmanEngine
<1>3. mine = conf /\ loaded = conf /\ state = NoState /\ run = Idle
  BY DEF LifecycleInit, FreshGuests
<1>4. Undo = NoState /\ ~Reverted /\ ~At("down", "record")
  BY <1>3, IdleRun DEF Undo, Reverted, At
<1>5. Truthful
  BY <1>2, <1>4 DEF Truthful
<1>6. Theirs
  BY <1>2, <1>3, <1>4 DEF Theirs, Untouched
<1>7. Served
  BY <1>2, <1>3 DEF Served, Untouched
<1> QED
  BY <1>1, <1>5, <1>6, <1>7 DEF DownInv

(* Every step keeps what a `down' needs.                                   *)
LEMMA StepDown == DownInv /\ [LifecycleNext]_lifecycleVars => DownInv'
BY StepUp, StepTruthful, StepTheirs, StepServed DEF DownInv

(* DownInvariance: on guests drawbridge has never been on, the record of what
   there is to undo is truthful, the engine's file is the user's but for the
   keys the record undoes, and no file or engine names a wrapper that is not
   there, short of the lapses each of them excepts.                        *)
THEOREM DownInvariance ==
  ASSUME FreshGuests
  PROVE  LifecycleSpec => []DownInv
BY InitDown, StepDown, PTL DEF LifecycleSpec

(* DownRestores for every step: a `down' that completes gives the user their
   daemon.json back, for every number of commands, cuts, edits and reboots. *)
THEOREM DownGivesBack ==
  ASSUME FreshGuests
  PROVE  LifecycleSpec => DownRestores
<1>1. ASSUME DownInv, [LifecycleNext]_lifecycleVars, Completes("down"), ~PodmanEngine,
             lapses \cap Unrecorded = {}
      PROVE  /\ SameMeaning(conf', mine)
             /\ mine.fmt # "edited" /\ lapses \cap Rerun = {} => conf' = mine
  <2>1. DownRecord
    BY <1>1, CommandEnds DEF DownInv, UpInv, LastTrip
  <2>2. conf' = conf /\ At("down", "record") /\ <<"up", "state">> \notin lapses
    BY <1>1, <2>1, Lapses DEF DownRecord
  <2>3. state = NoState /\ Undo = NoState
    BY <1>1, <2>2 DEF DownInv, Truthful, Undo, At
  <2>4. Untouched(conf)
    BY <1>1, <2>2, <2>3 DEF DownInv, Truthful
  <2>5. Base(conf) = Base(mine) /\ conf.rt = mine.rt /\ conf.dflt = mine.dflt
    BY <1>1, <2>4 DEF DownInv, Theirs, Untouched
  <2>6. mine.fmt # "edited" /\ lapses \cap Rerun = {} => conf = mine
    BY <1>1, <2>3 DEF DownInv, Theirs
  <2> QED
    BY <2>2, <2>5, <2>6 DEF SameMeaning
<1>2. DownInv /\ [LifecycleNext]_lifecycleVars
        => [Completes("down") /\ ~PodmanEngine /\ lapses \cap Unrecorded = {}
              => /\ SameMeaning(conf', mine)
                 /\ mine.fmt # "edited" /\ lapses \cap Rerun = {} => conf' = mine]_lifecycleVars
  BY <1>1
<1> QED
  BY <1>2, InitDown, StepDown, PTL DEF LifecycleSpec, DownRestores

(* EngineStarts in every state: while no command runs, a docker engine whose
   loaded default runtime is the wrapper finds the wrapper on disk, short of
   the lapses that strand it.                                              *)
THEOREM EngineAlwaysStarts ==
  ASSUME FreshGuests
  PROVE  LifecycleSpec => []EngineStarts
<1>1. DownInv => EngineStarts
  BY DEF DownInv, Served, EngineStarts, Starts, Resting, At, Upping
<1> QED
  BY <1>1, DownInvariance, PTL
=============================================================================
