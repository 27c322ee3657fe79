----------------------------- MODULE BfdProofs -----------------------------
(***************************************************************************)
(* Type correctness of a BFD session, for any parameters, any bounds on    *)
(* the packets under way and any number of faults and commands: above all, *)
(* a session in init or up knows the discriminator of its peer.            *)
(*                                                                         *)
(* That is not inductive. A packet gives the session the discriminator it  *)
(* carries, so no packet on the way may carry a zero one; and the timeout  *)
(* forgets the peer and then leaves init and up by bfd_set_state, which    *)
(* goes through recalculations that must not touch either field.           *)
(***************************************************************************)
EXTENDS Bfd, FiniteSetTheorems, TLAPS

Sessions ==
  [ local_state : States, remote_state : States,
    local_discr : Nat \ {0}, remote_discr : Nat,
    tx : Nat \ {0}, rx : Nat, mult : Nat \ {0},
    effective_tx : Nat, effective_rx : Nat,
    remote_tx : Nat, remote_min_rx : Nat, remote_detect_mult : Nat,
    detection_time : Nat, silent : BOOLEAN, echo : BOOLEAN,
    poll_state : PollStates, poll_delayed : BOOLEAN ]

Packets ==
  [ state : States, my_disc : Nat \ {0}, your_disc : Nat, mult : Nat \ {0},
    des_min_tx : Nat \ {0}, req_min_rx : Nat,
    poll : BOOLEAN, final : BOOLEAN ]

\* A session that hears its peer knows its discriminator.
Knows(s) == s.local_state \in {"init", "up"} => s.remote_discr # 0

\* The inductive invariant.
IInv ==
  /\ bs \in [Peers -> Sessions]
  /\ \A p \in Peers : Knows(bs[p])
  /\ net \in [Peers -> Seq(Packets)]
  /\ \A p \in Peers : Len(net[p]) + Len(net[Other(p)]) <= MaxFlight
  /\ changed \in [Peers -> BOOLEAN]
  /\ events \in 0..MaxEvents

\* r is a session in the state of s, with the same peer.
Keeps(s, r) ==
  /\ r \in Sessions
  /\ r.local_state = s.local_state
  /\ r.remote_discr = s.remote_discr
-----------------------------------------------------------------------------
(* What the handlers are built from.                                       *)

LEMMA OtherPeer ==
  ASSUME NEW p \in Peers
  PROVE  Other(p) \in Peers /\ Other(p) # p
<1>1. IsFiniteSet(Peers) /\ Cardinality(Peers) = 2
  BY BfdAssumption
<1>2. \E q \in Peers : q # p
  <2>1. SUFFICES ASSUME Peers = {p}
                 PROVE  FALSE
    OBVIOUS
  <2>2. Cardinality({p}) = 1
    BY FS_Singleton
  <2> QED BY <1>1, <2>1, <2>2
<1> QED BY <1>2 DEF Other

\* There is no third peer.
LEMMA TwoPeers ==
  ASSUME NEW p \in Peers
  PROVE  Peers = {p, Other(p)} /\ Other(Other(p)) = p
<1>1. Other(p) \in Peers /\ Other(p) # p
  BY OtherPeer
<1>2. IsFiniteSet(Peers) /\ Cardinality(Peers) = 2
  BY BfdAssumption
<1>3. IsFiniteSet({p}) /\ Cardinality({p}) = 1
  BY FS_Singleton
<1>4. Cardinality({p} \cup {Other(p)}) = 2
  BY <1>1, <1>3, FS_AddElement
<1>5. {p, Other(p)} = {p} \cup {Other(p)}
  OBVIOUS
<1>6. {p, Other(p)} = Peers
  <2>1. {p, Other(p)} \subseteq Peers
    BY <1>1
  <2> QED BY <1>2, <1>4, <1>5, <2>1, FS_Subset
<1>7. Other(Other(p)) \in Peers /\ Other(Other(p)) # Other(p)
  BY <1>1, OtherPeer
<1> QED BY <1>6, <1>7

LEMMA LargerNat ==
  ASSUME NEW m \in Nat, NEW n \in Nat
  PROVE  Larger(m, n) \in Nat
BY DEF Larger

LEMMA TimesNat ==
  ASSUME NEW m \in Nat, NEW n \in Nat
  PROVE  m * n \in Nat
BY SMT

LEMMA RecalcKeeps ==
  ASSUME NEW s \in Sessions
  PROVE  Keeps(s, bfd_recalc_detection_time(s))
<1>1. s.remote_detect_mult * Larger(s.effective_rx, s.remote_tx) \in Nat
  BY LargerNat, TimesNat DEF Sessions
<1> QED BY <1>1 DEF Keeps, bfd_recalc_detection_time, Sessions

LEMMA EffectiveTxKeeps ==
  ASSUME NEW s \in Sessions, NEW tx \in Nat
  PROVE  Keeps(s, bfd_set_effective_desired_min_tx(s, tx))
<1>1. Keeps(s, [s EXCEPT !.effective_tx = tx])
  BY DEF Keeps, Sessions
<1> QED BY <1>1, RecalcKeeps DEF Keeps, bfd_set_effective_desired_min_tx

LEMMA EffectiveRxKeeps ==
  ASSUME NEW s \in Sessions, NEW rx \in Nat
  PROVE  Keeps(s, bfd_set_effective_required_min_rx(s, rx))
<1>1. Keeps(s, [s EXCEPT !.effective_rx = rx])
  BY DEF Keeps, Sessions
<1> QED BY <1>1, RecalcKeeps DEF Keeps, bfd_set_effective_required_min_rx

LEMMA SetEffectiveKeeps ==
  ASSUME NEW s \in Sessions, NEW tx \in Nat, NEW rx \in Nat
  PROVE  Keeps(s, SetEffective(s, tx, rx))
<1>1. Keeps(s, [s EXCEPT !.effective_tx = tx, !.effective_rx = rx])
  BY DEF Keeps, Sessions
<1> QED BY <1>1, RecalcKeeps DEF Keeps, SetEffective

LEMMA RemoteRxKeeps ==
  ASSUME NEW s \in Sessions, NEW rx \in Nat
  PROVE  Keeps(s, bfd_set_remote_required_min_rx(s, rx))
<1>1. Keeps(s, [s EXCEPT !.remote_min_rx = rx])
  BY DEF Keeps, Sessions
<1> QED BY <1>1, RecalcKeeps DEF Keeps, bfd_set_remote_required_min_rx

LEMMA StateChangeKeeps ==
  ASSUME NEW s \in Sessions
  PROVE  Keeps(s, bfd_on_state_change(s))
<1>1. Keeps(s, [s EXCEPT !.echo = FALSE])
  BY DEF Keeps, Sessions
<1>2. s.tx \in Nat /\ s.rx \in Nat /\ Larger(s.tx, DefaultTx) \in Nat
  BY LargerNat, BfdAssumption DEF Sessions
<1>3. CASE s.local_state \in {"admin_down", "down"}
  <2>1. bfd_on_state_change(s)
          = SetEffective([s EXCEPT !.echo = FALSE], Larger(s.tx, DefaultTx), s.rx)
    BY <1>3 DEF bfd_on_state_change
  <2> DEFINE e == [s EXCEPT !.echo = FALSE]
  <2>2. e \in Sessions
    BY <1>1 DEF Keeps
  <2> HIDE DEF e
  <2>3. Keeps(e, SetEffective(e, Larger(s.tx, DefaultTx), s.rx))
    BY <1>2, <2>2, SetEffectiveKeeps, Zenon
  <2> QED BY <1>1, <2>1, <2>3 DEF Keeps, e
<1>4. CASE s.local_state = "init"
  <2>1. bfd_on_state_change(s)
          = bfd_set_effective_desired_min_tx([s EXCEPT !.echo = FALSE], s.tx)
    BY <1>4 DEF bfd_on_state_change
  <2> DEFINE e == [s EXCEPT !.echo = FALSE]
  <2>2. e \in Sessions
    BY <1>1 DEF Keeps
  <2> HIDE DEF e
  <2>3. Keeps(e, bfd_set_effective_desired_min_tx(e, s.tx))
    BY <1>2, <2>2, EffectiveTxKeeps, Zenon
  <2> QED BY <1>1, <2>1, <2>3 DEF Keeps, e
<1>5. CASE s.local_state = "up" /\ s.poll_state = "NOT_NEEDED"
  <2>1. bfd_on_state_change(s) = SetEffective(s, s.tx, s.rx)
    BY <1>5 DEF bfd_on_state_change
  <2>2. Keeps(s, SetEffective(s, s.tx, s.rx))
    BY <1>2, SetEffectiveKeeps, Zenon
  <2> QED BY <2>1, <2>2
<1>6. CASE s.local_state = "up" /\ s.poll_state # "NOT_NEEDED"
  <2>1. bfd_on_state_change(s) = bfd_set_effective_desired_min_tx(s, s.tx)
    BY <1>6 DEF bfd_on_state_change
  <2> QED BY <1>2, <2>1, EffectiveTxKeeps DEF Keeps
<1>7. s.local_state \in {"admin_down", "down", "init", "up"}
  BY DEF Sessions, States
<1> QED BY <1>3, <1>4, <1>5, <1>6, <1>7

LEMMA SetStateSets ==
  ASSUME NEW s \in Sessions, NEW new \in States
  PROVE  /\ bfd_set_state(s, new) \in Sessions
         /\ bfd_set_state(s, new).local_state = new
         /\ bfd_set_state(s, new).remote_discr = s.remote_discr
<1> DEFINE moved == [s EXCEPT !.local_state = new]
<1>1. moved \in Sessions /\ moved.local_state = new
        /\ moved.remote_discr = s.remote_discr
  BY DEF Sessions
<1>2. Keeps(moved, bfd_on_state_change(moved))
  BY <1>1, StateChangeKeeps
<1> QED BY <1>1, <1>2 DEF bfd_set_state, Keeps

LEMMA NewSessionType ==
  ASSUME NEW p \in Peers, NEW discr \in Nat \ {0}
  PROVE  NewSession(p, discr) \in Sessions /\ Knows(NewSession(p, discr))
<1>1. FirstParams[p] \in Params
  BY BfdAssumption
<1>2. /\ FirstParams[p].tx \in Nat \ {0} /\ FirstParams[p].rx \in Nat
      /\ FirstParams[p].mult \in Nat \ {0}
  BY <1>1 DEF Params
<1> QED BY <1>2, BfdAssumption DEF NewSession, Sessions, Knows, States, PollStates

LEMMA FrameType ==
  ASSUME NEW s \in Sessions, NEW poll \in BOOLEAN, NEW final \in BOOLEAN
  PROVE  bfd_init_control_frame(s, poll, final) \in Packets
BY DEF bfd_init_control_frame, Sessions, Packets

LEMMA FinalKeeps ==
  ASSUME NEW s \in Sessions
  PROVE  Keeps(s, FinalReceived(s))
<1> DEFINE e == [s EXCEPT !.poll_state = "NOT_NEEDED"]
           rx == IF s.echo THEN Larger(EchoRx, s.rx) ELSE s.rx
<1>1. Keeps(s, e)
  BY DEF Keeps, Sessions, PollStates
<1>2. s.tx \in Nat /\ rx \in Nat
  BY LargerNat, BfdAssumption DEF Sessions
<1>3. CASE s.poll_state = "IN_PROGRESS" /\ s.local_state = "up"
  <2>1. FinalReceived(s) = SetEffective(e, s.tx, rx)
    BY <1>3 DEF FinalReceived
  <2> HIDE DEF e, rx
  <2>2. Keeps(e, SetEffective(e, s.tx, rx))
    BY <1>1, <1>2, SetEffectiveKeeps, Zenon DEF Keeps
  <2> QED BY <1>1, <2>1, <2>2 DEF Keeps
<1>4. CASE s.poll_state = "IN_PROGRESS" /\ s.local_state # "up"
  BY <1>1, <1>4 DEF FinalReceived
<1>5. CASE s.poll_state = "IN_PROGRESS_AND_QUEUED"
  BY <1>5 DEF FinalReceived, Keeps, Sessions, PollStates
<1>6. CASE s.poll_state \in {"NOT_NEEDED", "NEEDED"}
  BY <1>6 DEF FinalReceived, Keeps
<1>7. s.poll_state \in PollStates
  BY DEF Sessions
<1> QED BY <1>3, <1>4, <1>5, <1>6, <1>7 DEF PollStates

LEMMA NextStateType ==
  ASSUME NEW local \in States, NEW remote \in States
  PROVE  NextState(local, remote) \in States
BY DEF NextState, States

\* The packet's discriminator becomes the peer's.
LEMMA HearType ==
  ASSUME NEW s \in Sessions, NEW pkt \in Packets
  PROVE  /\ Hear(s, pkt) \in Sessions
         /\ Hear(s, pkt).local_state = s.local_state
         /\ Hear(s, pkt).remote_discr = pkt.my_disc
<1> DEFINE e == [s EXCEPT !.remote_discr = pkt.my_disc, !.remote_state = pkt.state,
                          !.remote_tx = pkt.des_min_tx, !.remote_detect_mult = pkt.mult,
                          !.silent = FALSE]
<1>1. e \in Sessions /\ e.local_state = s.local_state /\ e.remote_discr = pkt.my_disc
  BY DEF Sessions, Packets
<1>2. pkt.req_min_rx \in Nat
  BY DEF Packets
<1>3. Hear(s, pkt) = bfd_set_remote_required_min_rx(e, pkt.req_min_rx)
  BY DEF Hear
<1> HIDE DEF e
<1>4. Keeps(e, bfd_set_remote_required_min_rx(e, pkt.req_min_rx))
  BY <1>1, <1>2, RemoteRxKeeps, Zenon
<1> QED BY <1>1, <1>3, <1>4 DEF Keeps

LEMMA ConsumeType ==
  ASSUME IInv, NEW p \in Peers, NEW pkt \in Packets,
         NEW s \in bfd_consume_pkt(p, pkt)
  PROVE  s \in Sessions /\ Knows(s)
<1> DEFINE heard == Hear(bs[p], pkt)
           ended == IF pkt.final THEN FinalReceived(heard) ELSE heard
<1>1. s = bfd_set_state(ended, NextState(ended.local_state, pkt.state))
  BY DEF bfd_consume_pkt
<1>2. bs[p] \in Sessions
  BY DEF IInv
<1>3. heard \in Sessions /\ heard.remote_discr = pkt.my_disc
  BY <1>2, HearType
<1>4. ended \in Sessions /\ ended.remote_discr = pkt.my_disc
  BY <1>3, FinalKeeps DEF Keeps
<1>5. NextState(ended.local_state, pkt.state) \in States
  <2>1. ended.local_state \in States /\ pkt.state \in States
    BY <1>4 DEF Sessions, Packets
  <2> QED BY <2>1, NextStateType
<1>6. pkt.my_disc # 0
  BY DEF Packets
<1> HIDE DEF ended
<1> QED BY <1>1, <1>4, <1>5, <1>6, SetStateSets DEF Knows

\* The timeout takes the session down before or after it forgets the peer.
LEMMA TimeoutType ==
  ASSUME NEW s \in Sessions, Knows(s), NEW expired
  PROVE  bfd_check_rx_timeout(s, expired) \in Sessions
         /\ Knows(bfd_check_rx_timeout(s, expired))
<1> DEFINE e == [s EXCEPT !.remote_discr = 0, !.silent = FALSE]
           d == bfd_set_state(e, "down")
<1>1. e \in Sessions
  BY DEF Sessions
<1>2. "down" \in States
  BY DEF States
<1>3. CASE s.local_state \in {"init", "up"} /\ expired = "rx"
  <2>1. bfd_check_rx_timeout(s, expired) = bfd_set_remote_required_min_rx(d, 1)
    BY <1>3 DEF bfd_check_rx_timeout
  <2> HIDE DEF e
  <2>2. d \in Sessions /\ d.local_state = "down"
    BY <1>1, <1>2, SetStateSets
  <2> HIDE DEF d
  <2>3. Keeps(d, bfd_set_remote_required_min_rx(d, 1))
    BY <2>2, RemoteRxKeeps
  <2> QED BY <2>1, <2>2, <2>3 DEF Keeps, Knows
<1>4. CASE s.local_state \in {"init", "up"} /\ expired = "echo" /\ s.echo
  <2>1. bfd_check_rx_timeout(s, expired) = bfd_set_state(s, "down")
    BY <1>4 DEF bfd_check_rx_timeout
  <2>2. bfd_set_state(s, "down") \in Sessions /\ bfd_set_state(s, "down").local_state = "down"
    BY <1>2, SetStateSets
  <2> QED BY <2>1, <2>2 DEF Knows
<1>5. CASE /\ ~(s.local_state \in {"init", "up"} /\ expired = "rx")
           /\ ~(s.local_state \in {"init", "up"} /\ expired = "echo" /\ s.echo)
  <2>1. bfd_check_rx_timeout(s, expired) = s
    BY <1>5 DEF bfd_check_rx_timeout
  <2> QED BY <2>1
<1> QED BY <1>3, <1>4, <1>5

LEMMA SwitchEchoKeeps ==
  ASSUME NEW s \in Sessions, NEW p \in Peers
  PROVE  Keeps(s, SwitchEchoOn(p, s))
<1> DEFINE e == [s EXCEPT !.echo = TRUE]
           r == bfd_set_effective_required_min_rx(e, Larger(EchoRx, s.rx))
<1>1. Keeps(s, e)
  BY DEF Keeps, Sessions
<1>2. Larger(EchoRx, s.rx) \in Nat
  BY LargerNat, BfdAssumption DEF Sessions
<1>3. Keeps(s, r)
  <2> HIDE DEF e
  <2>1. Keeps(e, r)
    BY <1>1, <1>2, EffectiveRxKeeps, Zenon DEF Keeps
  <2> QED BY <1>1, <2>1 DEF Keeps
<1>4. SwitchEchoOn(p, s) = s \/ SwitchEchoOn(p, s) = [r EXCEPT !.poll_state = "NEEDED"]
  BY DEF SwitchEchoOn
<1>5. Keeps(s, s)
  BY DEF Keeps
<1> HIDE DEF r
<1>6. Keeps(s, [r EXCEPT !.poll_state = "NEEDED"])
  BY <1>3 DEF Keeps, Sessions, PollStates
<1> QED BY <1>4, <1>5, <1>6

LEMMA StartPollKeeps ==
  ASSUME NEW s \in Sessions
  PROVE  Keeps(s, StartPoll(s))
BY DEF Keeps, Sessions, PollStates, StartPoll

LEMMA SendEchoKeeps ==
  ASSUME NEW s \in Sessions, NEW p
  PROVE  Keeps(s, bfd_send_echo(p, s))
<1>1. (s.echo /\ bfd_is_echo_possible(p, s)) \in BOOLEAN
  BY DEF bfd_is_echo_possible
<1> QED BY <1>1 DEF Keeps, Sessions, bfd_send_echo

LEMMA PollAfterChangeType ==
  ASSUME NEW s \in Sessions, NEW new
  PROVE  PollAfterChange(s, new) \in PollStates
BY DEF PollAfterChange, Sessions, PollStates
-----------------------------------------------------------------------------
(* The steps. IInv is split by variable; each handler writes one session   *)
(* and at most the two queues of packets.                                  *)

BsInv == bs \in [Peers -> Sessions] /\ \A p \in Peers : Knows(bs[p])
NetInv ==
  /\ net \in [Peers -> Seq(Packets)]
  /\ \A p \in Peers : Len(net[p]) + Len(net[Other(p)]) <= MaxFlight

LEMMA WriteSession ==
  ASSUME BsInv, NEW p \in Peers, NEW s \in Sessions, Knows(s),
         bs' = [bs EXCEPT ![p] = s]
  PROVE  BsInv'
BY DEF BsInv

\* The arithmetic of a queue that loses, keeps or gains a packet.
LEMMA Sums ==
  ASSUME NEW m \in Nat, NEW n \in Nat, NEW max \in Nat
  PROVE  /\ m + n = n + m
         /\ m + n <= max => (m - 1) + n <= max /\ (m - 1) + (n + 1) <= max
                            /\ ((m - 1) + 1) + n <= max
         /\ m + n < max => (m + 1) + n <= max
OBVIOUS

\* A step writes the packets on their way to p, and perhaps the others.
LEMMA WriteBoth ==
  ASSUME NetInv, NEW p \in Peers, NEW q \in Seq(Packets), NEW r \in Seq(Packets),
         Len(q) + Len(r) <= MaxFlight,
         net' = [net EXCEPT ![p] = q, ![Other(p)] = r]
  PROVE  NetInv'
<1>1. Peers = {p, Other(p)} /\ Other(Other(p)) = p /\ Other(p) # p
  BY TwoPeers, OtherPeer
<1>2. net' \in [Peers -> Seq(Packets)] /\ net'[p] = q /\ net'[Other(p)] = r
  BY <1>1 DEF NetInv
<1>3. Len(q) \in Nat /\ Len(r) \in Nat
  OBVIOUS
<1>4. Len(net'[p]) + Len(net'[Other(p)]) <= MaxFlight
  BY <1>2
<1>5. Len(net'[Other(p)]) + Len(net'[Other(Other(p))]) <= MaxFlight
  BY <1>1, <1>2, <1>3
<1>6. \A x \in Peers : Len(net'[x]) + Len(net'[Other(x)]) <= MaxFlight
  BY <1>1, <1>4, <1>5
<1> QED BY <1>2, <1>6 DEF NetInv

LEMMA WritePackets ==
  ASSUME NetInv, NEW p \in Peers, NEW q \in Seq(Packets),
         Len(q) + Len(net[Other(p)]) <= MaxFlight,
         net' = [net EXCEPT ![p] = q]
  PROVE  NetInv'
<1>1. Other(p) \in Peers /\ Other(p) # p
  BY OtherPeer
<1>2. net[Other(p)] \in Seq(Packets)
  BY <1>1 DEF NetInv
<1>3. net' = [net EXCEPT ![p] = q, ![Other(p)] = net[Other(p)]]
  BY <1>1 DEF NetInv
<1> QED BY <1>2, <1>3, WriteBoth

LEMMA TakePacket ==
  ASSUME NetInv, NEW p \in Peers, net[p] # <<>>
  PROVE  /\ net[p] \in Seq(Packets) /\ net[Other(p)] \in Seq(Packets)
         /\ Tail(net[p]) \in Seq(Packets) /\ Len(Tail(net[p])) = Len(net[p]) - 1
         /\ Head(net[p]) \in Packets
         /\ Len(net[p]) \in Nat \ {0} /\ Len(net[Other(p)]) \in Nat /\ MaxFlight \in Nat
         /\ Len(net[p]) + Len(net[Other(p)]) <= MaxFlight
<1>1. net[p] \in Seq(Packets) /\ net[Other(p)] \in Seq(Packets)
  BY OtherPeer DEF NetInv
<1>2. Tail(net[p]) \in Seq(Packets) /\ Len(Tail(net[p])) = Len(net[p]) - 1
      /\ Head(net[p]) \in Packets /\ Len(net[p]) \in Nat \ {0}
  BY <1>1
<1>3. Len(net[Other(p)]) \in Nat /\ MaxFlight \in Nat
  BY <1>1, BfdAssumption
<1>4. Len(net[p]) + Len(net[Other(p)]) <= MaxFlight
  BY DEF NetInv
<1> QED BY <1>1, <1>2, <1>3, <1>4

LEMMA DropHead ==
  ASSUME NetInv, NEW p \in Peers, net[p] # <<>>, net' = [net EXCEPT ![p] = Tail(@)]
  PROVE  NetInv'
<1>1. Tail(net[p]) \in Seq(Packets)
  BY TakePacket
<1>2. Len(Tail(net[p])) + Len(net[Other(p)]) <= MaxFlight
  <2>1. (Len(net[p]) - 1) + Len(net[Other(p)]) <= MaxFlight
    BY TakePacket, Sums
  <2> QED BY <2>1, TakePacket
<1> QED BY <1>1, <1>2, WritePackets

\* A packet more, where there is room for it.
LEMMA AddPacket ==
  ASSUME NetInv, NEW p \in Peers, NEW pkt \in Packets,
         Len(net[p]) + Len(net[Other(p)]) < MaxFlight,
         net' = [net EXCEPT ![p] = Append(@, pkt)]
  PROVE  NetInv'
<1>1. net[p] \in Seq(Packets) /\ net[Other(p)] \in Seq(Packets)
  BY OtherPeer DEF NetInv
<1> DEFINE q == Append(net[p], pkt)
<1>2. q \in Seq(Packets) /\ Len(q) = Len(net[p]) + 1
  BY <1>1
<1>3. net' = [net EXCEPT ![p] = q]
  OBVIOUS
<1> HIDE DEF q
<1>4. Len(net[p]) \in Nat /\ Len(net[Other(p)]) \in Nat /\ MaxFlight \in Nat
  BY <1>1, BfdAssumption
<1>5. (Len(net[p]) + 1) + Len(net[Other(p)]) <= MaxFlight
  BY <1>4, Sums
<1>6. Len(q) + Len(net[Other(p)]) <= MaxFlight
  BY <1>2, <1>5
<1> QED BY <1>2, <1>3, <1>6, WritePackets

LEMMA DeliverKeeps ==
  ASSUME IInv, NEW p \in Peers, Deliver(p)
  PROVE  IInv'
<1> DEFINE pkt == Head(net[p])
<1>1. BsInv /\ NetInv
  BY DEF IInv, BsInv, NetInv
<1>2. net[p] # <<>> /\ changed' = changed /\ events' = events
  BY DEF Deliver
<1>3. pkt \in Packets
  BY <1>1, <1>2, TakePacket
<1>4. Other(p) \in Peers /\ Other(p) # p
  BY OtherPeer
<1>5. CASE Accepts(bs[p], pkt)
  <2>1. Receive(p, pkt)
    BY <1>5 DEF Deliver
  <2> HIDE DEF pkt
  <2>2. PICK s \in bfd_consume_pkt(p, pkt) :
          IF pkt.poll /\ s.local_state # "admin_down"
          THEN /\ bs' = [bs EXCEPT ![p] = AfterFinal(s)]
               /\ net' = [net EXCEPT ![p] = Tail(@), ![Other(p)] =
                             Append(@, bfd_init_control_frame(s, FALSE, TRUE))]
          ELSE /\ bs' = [bs EXCEPT ![p] = s]
               /\ net' = [net EXCEPT ![p] = Tail(@)]
    BY <2>1 DEF Receive
  <2>3. s \in Sessions /\ Knows(s)
    BY <1>3, ConsumeType
  <2>4. AfterFinal(s) \in Sessions /\ Knows(AfterFinal(s))
    BY <2>3 DEF AfterFinal, Sessions, PollStates, Knows
  <2>5. BsInv'
    <3>1. bs' = [bs EXCEPT ![p] = s] \/ bs' = [bs EXCEPT ![p] = AfterFinal(s)]
      BY <2>2
    <3>2. CASE bs' = [bs EXCEPT ![p] = s]
      BY <1>1, <2>3, <3>2, WriteSession
    <3>3. CASE bs' = [bs EXCEPT ![p] = AfterFinal(s)]
      BY <1>1, <2>4, <3>3, WriteSession
    <3> QED BY <3>1, <3>2, <3>3
  <2>6. NetInv'
    <3>1. CASE pkt.poll /\ s.local_state # "admin_down"
      <4> DEFINE frame == bfd_init_control_frame(s, FALSE, TRUE)
                 q == Append(net[Other(p)], frame)
      <4>1. frame \in Packets
        BY <2>3, FrameType
      <4> HIDE DEF frame
      <4>2. net[Other(p)] \in Seq(Packets)
        BY <1>1, <1>2, TakePacket
      <4>3. q \in Seq(Packets) /\ Len(q) = Len(net[Other(p)]) + 1
        BY <4>1, <4>2
      <4>4. net' = [net EXCEPT ![p] = Tail(net[p]), ![Other(p)] = q]
        BY <1>1, <1>4, <2>2, <3>1 DEF NetInv, frame
      <4> HIDE DEF q
      <4>5. Tail(net[p]) \in Seq(Packets) /\ Len(Tail(net[p])) = Len(net[p]) - 1
        BY <1>1, <1>2, TakePacket
      <4>6. (Len(net[p]) - 1) + (Len(net[Other(p)]) + 1) <= MaxFlight
        BY <1>1, <1>2, TakePacket, Sums
      <4>7. Len(Tail(net[p])) + Len(q) <= MaxFlight
        BY <4>3, <4>5, <4>6
      <4> QED BY <1>1, <4>3, <4>4, <4>5, <4>7, WriteBoth
    <3>2. CASE ~(pkt.poll /\ s.local_state # "admin_down")
      BY <1>1, <1>2, <2>2, <3>2, DropHead
    <3> QED BY <3>1, <3>2
  <2> QED BY <1>2, <2>5, <2>6 DEF IInv, BsInv, NetInv
<1>6. CASE ~Accepts(bs[p], pkt)
  <2>1. Refuse(p)
    BY <1>6 DEF Deliver
  <2>2. NetInv'
    BY <1>1, <1>2, <2>1, DropHead DEF Refuse
  <2> DEFINE s == [bs[p] EXCEPT !.silent = bs[p].local_state \in {"init", "up"}]
  <2>3. bs[p] \in Sessions /\ Knows(bs[p])
    BY DEF IInv
  <2>4. (bs[p].local_state \in {"init", "up"}) \in BOOLEAN
    OBVIOUS
  <2>5. s \in Sessions /\ Knows(s)
    BY <2>3, <2>4 DEF Sessions, Knows
  <2>6. bs' = [bs EXCEPT ![p] = s]
    BY <2>1 DEF Refuse
  <2> HIDE DEF s
  <2>7. BsInv'
    BY <1>1, <2>5, <2>6, WriteSession
  <2> QED BY <1>2, <2>2, <2>7 DEF IInv, BsInv, NetInv
<1> QED BY <1>5, <1>6

LEMMA DisturbKeeps ==
  ASSUME IInv, Disturb
  PROVE  events' \in 0..MaxEvents
BY BfdAssumption DEF IInv, Disturb

LEMMA TimeoutKeeps ==
  ASSUME IInv, NEW p \in Peers, NEW expired, NEW due \in BOOLEAN,
         bfd_on_timeout(p, expired, due)
  PROVE  IInv'
<1> DEFINE checked == bfd_check_rx_timeout(bs[p], expired)
           s == SwitchEchoOn(p, checked)
           sent == StartPoll(s)
<1>1. BsInv /\ NetInv
  BY DEF IInv, BsInv, NetInv
<1>2. changed' = changed /\ (events' = events \/ Disturb) /\ Transmit(p, s, due)
  BY DEF bfd_on_timeout
<1>3. checked \in Sessions /\ Knows(checked)
  <2>1. bs[p] \in Sessions /\ Knows(bs[p])
    BY DEF IInv
  <2> QED BY <2>1, TimeoutType
<1> HIDE DEF checked
<1>4. s \in Sessions /\ Knows(s)
  BY <1>3, SwitchEchoKeeps DEF Keeps, Knows
<1> HIDE DEF s
<1>5. sent \in Sessions /\ Knows(sent)
  BY <1>4, StartPollKeeps DEF Keeps, Knows
<1>6. Other(p) \in Peers
  BY OtherPeer
<1>7. events' \in 0..MaxEvents
  BY <1>2, DisturbKeeps DEF IInv
<1>8. CASE due /\ SendsPeriodic(s)
  <2> DEFINE frame == bfd_init_control_frame(sent, sent.poll_state \in Polling, FALSE)
  <2>1. /\ net' = [net EXCEPT ![Other(p)] = Append(@, frame)]
        /\ bs' = [bs EXCEPT ![p] = bfd_send_echo(p, sent)]
    BY <1>2, <1>8 DEF Transmit
  <2> HIDE DEF sent
  <2>2. bfd_send_echo(p, sent) \in Sessions /\ Knows(bfd_send_echo(p, sent))
    BY <1>5, SendEchoKeeps DEF Keeps, Knows
  <2>3. frame \in Packets
    <3> DEFINE poll == sent.poll_state \in Polling
    <3>1. poll \in BOOLEAN
      OBVIOUS
    <3> HIDE DEF poll
    <3>2. bfd_init_control_frame(sent, poll, FALSE) \in Packets
      BY <1>5, <3>1, FrameType
    <3> QED BY <3>2 DEF poll
  <2> HIDE DEF frame
  <2>4. Len(net[Other(p)]) + Len(net[Other(Other(p))]) < MaxFlight
    <3>1. Room(p)
      BY <1>8 DEF bfd_on_timeout
    <3>2. Len(net[p]) \in Nat /\ Len(net[Other(p)]) \in Nat
      BY <1>1, <1>6 DEF NetInv
    <3>3. Len(net[Other(p)]) + Len(net[p]) < MaxFlight
      BY <3>1, <3>2, BfdAssumption, Sums DEF Room
    <3> QED BY <3>3, TwoPeers
  <2>5. NetInv'
    BY <1>1, <1>6, <2>1, <2>3, <2>4, AddPacket
  <2>6. BsInv'
    BY <1>1, <2>1, <2>2, WriteSession
  <2> QED BY <1>2, <1>7, <2>5, <2>6 DEF IInv, BsInv, NetInv
<1>9. CASE ~(due /\ SendsPeriodic(s))
  <2>1. net' = net /\ bs' = [bs EXCEPT ![p] = bfd_send_echo(p, s)]
    BY <1>2, <1>9 DEF Transmit
  <2>2. bfd_send_echo(p, s) \in Sessions /\ Knows(bfd_send_echo(p, s))
    BY <1>4, SendEchoKeeps DEF Keeps, Knows
  <2>3. BsInv'
    BY <1>1, <2>1, <2>2, WriteSession
  <2> QED BY <1>2, <1>7, <2>1, <2>3 DEF IInv, BsInv
<1> QED BY <1>8, <1>9

\* Commands, the event they raise and the end of a poll's delay.
LEMMA SessionStepKeeps ==
  ASSUME IInv, NEW p \in Peers,
         PollDelayOver(p) \/ bfd_on_config_change(p) \/ Commands(p)
  PROVE  IInv'
<1>1. BsInv
  BY DEF IInv, BsInv
<1>2. bs[p] \in Sessions /\ Knows(bs[p])
  BY DEF IInv
<1>3. CASE PollDelayOver(p)
  <2> DEFINE s == [bs[p] EXCEPT !.poll_delayed = FALSE]
  <2>1. s \in Sessions /\ Knows(s)
    BY <1>2 DEF Sessions, Knows
  <2>2. bs' = [bs EXCEPT ![p] = s] /\ net' = net /\ changed' = changed /\ events' = events
    BY <1>3 DEF PollDelayOver
  <2> HIDE DEF s
  <2>3. BsInv'
    BY <1>1, <2>1, <2>2, WriteSession
  <2> QED BY <2>2, <2>3 DEF IInv, BsInv
<1>4. CASE bfd_on_config_change(p)
  <2> DEFINE s == bfd_recalc_detection_time(bs[p])
  <2>1. s \in Sessions /\ Knows(s)
    BY <1>2, RecalcKeeps DEF Keeps, Knows
  <2>2. /\ bs' = [bs EXCEPT ![p] = s] /\ net' = net /\ events' = events
        /\ changed' = [changed EXCEPT ![p] = FALSE]
    BY <1>4 DEF bfd_on_config_change
  <2> HIDE DEF s
  <2>3. BsInv'
    BY <1>1, <2>1, <2>2, WriteSession
  <2> QED BY <2>2, <2>3 DEF IInv, BsInv
<1>5. CASE bfd_session_set_params(p)
  <2>1. PICK new \in ParamChoices[p] :
          /\ Disturb
          /\ bs' = [bs EXCEPT ![p] = [bs[p] EXCEPT
                      !.poll_state = PollAfterChange(bs[p], new),
                      !.tx = new.tx, !.rx = new.rx, !.mult = new.mult]]
          /\ changed' = [changed EXCEPT ![p] = TRUE]
          /\ net' = net
    BY <1>5 DEF bfd_session_set_params
  <2> DEFINE s == [bs[p] EXCEPT !.poll_state = PollAfterChange(bs[p], new),
                     !.tx = new.tx, !.rx = new.rx, !.mult = new.mult]
  <2>2. new \in Params
    BY BfdAssumption
  <2>3. PollAfterChange(bs[p], new) \in PollStates
    BY <1>2, PollAfterChangeType
  <2>4. s \in Sessions /\ Knows(s)
    BY <1>2, <2>2, <2>3 DEF Sessions, Knows, Params
  <2>5. bs' = [bs EXCEPT ![p] = s]
    BY <2>1
  <2> HIDE DEF s
  <2>6. BsInv'
    BY <1>1, <2>4, <2>5, WriteSession
  <2> QED BY <2>1, <2>6, DisturbKeeps DEF IInv, BsInv
<1>6. CASE \E admin_up \in BOOLEAN : bfd_session_set_flags(p, admin_up)
  <2>1. PICK new \in {"down", "admin_down"} :
          /\ Disturb /\ bs' = [bs EXCEPT ![p] = bfd_set_state(bs[p], new)]
          /\ net' = net /\ changed' = changed
    BY <1>6 DEF bfd_session_set_flags
  <2> DEFINE s == bfd_set_state(bs[p], new)
  <2>2. new \in States
    BY DEF States
  <2>3. s \in Sessions /\ Knows(s)
    BY <1>2, <2>2, SetStateSets DEF Knows
  <2>4. bs' = [bs EXCEPT ![p] = s]
    BY <2>1
  <2> HIDE DEF s
  <2>5. BsInv'
    BY <1>1, <2>3, <2>4, WriteSession
  <2> QED BY <2>1, <2>5, DisturbKeeps DEF IInv, BsInv
<1>7. CASE Recreate(p)
  <2> DEFINE s == NewSession(p, bs[p].local_discr + 1)
  <2>1. bs[p].local_discr + 1 \in Nat \ {0}
    BY <1>2 DEF Sessions
  <2>2. s \in Sessions /\ Knows(s)
    BY <2>1, NewSessionType
  <2>3. Disturb /\ bs' = [bs EXCEPT ![p] = s] /\ net' = net /\ changed' = changed
    BY <1>7 DEF Recreate
  <2> HIDE DEF s
  <2>4. BsInv'
    BY <1>1, <2>2, <2>3, WriteSession
  <2> QED BY <2>3, <2>4, DisturbKeeps DEF IInv, BsInv
<1> QED BY <1>3, <1>4, <1>5, <1>6, <1>7 DEF Commands

LEMMA NetworkKeeps ==
  ASSUME IInv, NEW p \in Peers, Lose(p) \/ Duplicate(p) \/ Reorder(p)
  PROVE  IInv'
<1>1. NetInv
  BY DEF IInv, NetInv
<1>2. bs' = bs /\ changed' = changed /\ Disturb
  BY DEF Lose, Duplicate, Reorder
<1>3. net[p] \in Seq(Packets)
  BY <1>1 DEF NetInv
<1>4. net[p] # <<>>
  BY <1>3 DEF Lose, Duplicate, Reorder
<1>7. NetInv'
  <2>1. CASE Lose(p)
    BY <1>1, <1>4, <2>1, DropHead DEF Lose
  <2>2. CASE Duplicate(p)
    <3>1. Head(net[p]) \in Packets
      BY <1>1, <1>4, TakePacket
    <3> QED BY <1>1, <2>2, <3>1, AddPacket DEF Duplicate, Room
  <2>3. CASE Reorder(p)
    <3> DEFINE q == Append(Tail(net[p]), Head(net[p]))
    <3>1. q \in Seq(Packets) /\ Len(q) = Len(Tail(net[p])) + 1
      <4>1. Tail(net[p]) \in Seq(Packets) /\ Head(net[p]) \in Packets
        BY <1>1, <1>4, TakePacket
      <4> QED BY <4>1
    <3>2. net' = [net EXCEPT ![p] = q]
      BY <2>3 DEF Reorder
    <3> HIDE DEF q
    <3>3. ((Len(net[p]) - 1) + 1) + Len(net[Other(p)]) <= MaxFlight
      BY <1>1, <1>4, TakePacket, Sums
    <3>4. Len(q) + Len(net[Other(p)]) <= MaxFlight
      BY <1>1, <1>4, <3>1, <3>3, TakePacket
    <3> QED BY <1>1, <3>1, <3>2, <3>4, WritePackets
  <2> QED BY <2>1, <2>2, <2>3
<1> QED BY <1>2, <1>7, DisturbKeeps DEF IInv, NetInv
-----------------------------------------------------------------------------
\* The handlers of bfd_main.c keep a session well typed, whatever the network
\* and the operator do; one that is init or up, and so judges packets and
\* answers polls by its peer's discriminator, has heard it.
THEOREM TypeCorrect == Spec => []TypeOK
<1>1. Init => IInv
  <2>1. \A p \in Peers : NewSession(p, 1) \in Sessions /\ Knows(NewSession(p, 1))
    BY NewSessionType
  <2> SUFFICES ASSUME Init PROVE IInv
    OBVIOUS
  <2>2. BsInv
    BY <2>1 DEF Init, BsInv
  <2>3. NetInv
    <3>1. \A p \in Peers : net[p] = <<>> /\ net[Other(p)] = <<>>
      BY OtherPeer DEF Init
    <3>2. Len(<<>>) + Len(<<>>) <= MaxFlight
      BY BfdAssumption
    <3> QED BY <3>1, <3>2 DEF Init, NetInv
  <2> QED BY <2>2, <2>3, BfdAssumption DEF Init, IInv, BsInv, NetInv
<1>2. IInv /\ [Next]_vars => IInv'
  <2> SUFFICES ASSUME IInv, [Next]_vars PROVE IInv'
    OBVIOUS
  <2>1. CASE UNCHANGED vars
    BY <2>1 DEF IInv, vars
  <2>2. ASSUME NEW p \in Peers, Deliver(p) PROVE IInv'
    BY <2>2, DeliverKeeps
  <2>3. ASSUME NEW p \in Peers, Timers(p) PROVE IInv'
    BY <2>3, TimeoutKeeps DEF Timers
  <2>4. ASSUME NEW p \in Peers, PollDelayOver(p) \/ bfd_on_config_change(p) \/ Commands(p)
        PROVE IInv'
    BY <2>4, SessionStepKeeps
  <2>5. ASSUME NEW p \in Peers, Lose(p) \/ Duplicate(p) \/ Reorder(p) PROVE IInv'
    BY <2>5, NetworkKeeps
  <2> QED BY <2>1, <2>2, <2>3, <2>4, <2>5 DEF Next
<1>3. IInv => TypeOK
  BY DEF IInv, TypeOK, Sessions, Knows
<1> QED BY <1>1, <1>2, <1>3, PTL DEF Spec
=============================================================================
