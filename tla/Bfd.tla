-------------------------------- MODULE Bfd --------------------------------
(***************************************************************************)
(* Two peers that run a BFD session with each other: the state machine,    *)
(* the poll sequences and the detection time of vnet/bfd/bfd_main.c, and   *)
(* the input path of vnet/bfd/bfd_udp.c, over a network that loses,        *)
(* duplicates and reorders packets.                                        *)
(*                                                                         *)
(* Every handler runs under bfd_lock, so every handler is one action.      *)
(* Time is abstract: a timer may fire at any moment, which includes the    *)
(* moments the clock would allow. The intervals the timers are set from    *)
(* are state, because the properties are about them.                       *)
(*                                                                         *)
(* Left out: authentication, diagnostics, counters, the listeners, and     *)
(* demand mode, which VPP respects but never asks for, so that no peer     *)
(* here sets it.                                                           *)
(***************************************************************************)
EXTENDS Naturals, Sequences, FiniteSets

CONSTANTS
  Peers,          \* the two ends of the session
  DefaultTx,      \* default_desired_min_tx, used while the session is not up
  EchoRx,         \* min_required_min_rx_while_echo
  FirstParams,    \* FirstParams[p]: the parameters p's session is created with
  ParamChoices,   \* ParamChoices[p]: parameters p may be changed to later
  EchoSources,    \* the peers that have a usable echo source
  MaxFlight,      \* bound on the packets on the way, in both directions
  MaxEvents       \* bound on faults and on operator commands, together

Params == [tx : Nat \ {0}, rx : Nat, mult : Nat \ {0}]

ASSUME BfdAssumption ==
  /\ IsFiniteSet(Peers) /\ Cardinality(Peers) = 2
  /\ {DefaultTx, EchoRx, MaxFlight} \subseteq Nat \ {0}
  /\ MaxEvents \in Nat
  /\ FirstParams \in [Peers -> Params]
  /\ \A p \in Peers : ParamChoices[p] \subseteq Params
  /\ EchoSources \subseteq Peers

VARIABLES
  bs,        \* bs[p]: p's bfd_session_t
  net,       \* net[p]: the packets on the way to p
  changed,   \* changed[p]: a BFD_EVENT_CONFIG_CHANGED is pending at p
  events     \* faults and commands so far

vars == <<bs, net, changed, events>>

Other(p) == CHOOSE q \in Peers : q # p

\* The network can carry one more packet. A final takes the place of its poll.
Room(p) == Len(net[p]) + Len(net[Other(p)]) < MaxFlight

\* A fault or a command.
Disturb == events < MaxEvents /\ events' = events + 1

States == {"admin_down", "down", "init", "up"}
PollStates == {"NOT_NEEDED", "NEEDED", "IN_PROGRESS", "IN_PROGRESS_AND_QUEUED"}
Polling == {"IN_PROGRESS", "IN_PROGRESS_AND_QUEUED"}

-----------------------------------------------------------------------------
(* Intervals                                                               *)

Larger(m, n) == IF m > n THEN m ELSE n

bfd_recalc_detection_time(s) ==
  IF s.local_state \in {"init", "up"}
  THEN [s EXCEPT !.detection_time =
          s.remote_detect_mult * Larger(s.effective_rx, s.remote_tx)]
  ELSE s

\* bfd_recalc_tx_interval, called wherever one of the two values changes.
TransmitInterval(s) == Larger(s.effective_tx, s.remote_min_rx)

bfd_set_effective_desired_min_tx(s, tx) ==
  bfd_recalc_detection_time([s EXCEPT !.effective_tx = tx])

bfd_set_effective_required_min_rx(s, rx) ==
  bfd_recalc_detection_time([s EXCEPT !.effective_rx = rx])

\* One after the other; the second recalculation settles the detection time.
SetEffective(s, tx, rx) ==
  bfd_recalc_detection_time([s EXCEPT !.effective_tx = tx, !.effective_rx = rx])

bfd_set_remote_required_min_rx(s, rx) ==
  IF s.remote_min_rx = rx THEN s
  ELSE bfd_recalc_detection_time([s EXCEPT !.remote_min_rx = rx])

-----------------------------------------------------------------------------
(* State changes                                                           *)

bfd_on_state_change(s) ==
  CASE s.local_state \in {"admin_down", "down"} ->
         SetEffective([s EXCEPT !.echo = FALSE], Larger(s.tx, DefaultTx), s.rx)
    [] s.local_state = "init" ->
         bfd_set_effective_desired_min_tx([s EXCEPT !.echo = FALSE], s.tx)
    [] s.local_state = "up" /\ s.poll_state = "NOT_NEEDED" ->
         SetEffective(s, s.tx, s.rx)
    [] s.local_state = "up" /\ s.poll_state # "NOT_NEEDED" ->
         bfd_set_effective_desired_min_tx(s, s.tx)

bfd_set_state(s, new) ==
  IF s.local_state = new THEN s
  ELSE bfd_on_state_change([s EXCEPT !.local_state = new])

\* silent stands for last_rx: a packet of the peer has gone by unconsumed since
\* the last one that was, so that the detection time can really run out.
\*
\* bfd_get_session and bfd_set_defaults, bfd_session_set_params with the
\* parameters of the call, and bfd_session_start.
NewSession(p, discr) ==
  [ local_state |-> "down", remote_state |-> "down",
    local_discr |-> discr, remote_discr |-> 0,
    tx |-> FirstParams[p].tx, rx |-> FirstParams[p].rx,
    mult |-> FirstParams[p].mult,
    effective_tx |-> DefaultTx, effective_rx |-> FirstParams[p].rx,
    remote_tx |-> 0, remote_min_rx |-> 1, remote_detect_mult |-> 0,
    detection_time |-> 0, silent |-> FALSE, echo |-> FALSE,
    poll_state |-> "NOT_NEEDED", poll_delayed |-> FALSE ]

-----------------------------------------------------------------------------
(* Packets                                                                 *)

bfd_init_control_frame(s, poll, final) ==
  [ state |-> s.local_state, my_disc |-> s.local_discr,
    your_disc |-> s.remote_discr, mult |-> s.mult, des_min_tx |-> s.tx,
    req_min_rx |-> IF s.echo THEN s.effective_rx ELSE s.rx,
    poll |-> poll, final |-> final ]

\* bfd_udp4_scan and bfd_verify_pkt_common: a packet that names no session is
\* found by its addresses, and only in a state that needs no name.
Accepts(s, pkt) ==
  IF pkt.your_disc = 0 THEN pkt.state \in {"down", "admin_down"}
  ELSE pkt.your_disc = s.local_discr

\* Mutant: the end of a poll sequence puts the transmit interval into effect only.
FinalKeepsRx(s) ==
  CASE s.poll_state = "IN_PROGRESS" ->
         bfd_set_effective_desired_min_tx(
           [s EXCEPT !.poll_state = "NOT_NEEDED"], s.tx)
    [] s.poll_state = "IN_PROGRESS_AND_QUEUED" ->
         [s EXCEPT !.poll_state = "NEEDED", !.poll_delayed = TRUE]
    [] s.poll_state \in {"NOT_NEEDED", "NEEDED"} -> s

\* Mutant: only a session that is up takes a final.
FinalWhenUp(s) ==
  IF s.local_state = "up" THEN FinalKeepsRx(s) ELSE s

\* A final ends a poll sequence and puts the new parameters into effect, unless
\* they changed again meanwhile: then another sequence follows, later.
FinalReceived(s) ==
  CASE s.poll_state = "IN_PROGRESS" /\ s.local_state = "up" ->
         SetEffective([s EXCEPT !.poll_state = "NOT_NEEDED"], s.tx,
                      IF s.echo THEN Larger(EchoRx, s.rx) ELSE s.rx)
    [] s.poll_state = "IN_PROGRESS" /\ s.local_state # "up" ->
         [s EXCEPT !.poll_state = "NOT_NEEDED"]
    [] s.poll_state = "IN_PROGRESS_AND_QUEUED" ->
         [s EXCEPT !.poll_state = "NEEDED", !.poll_delayed = TRUE]
    [] s.poll_state \in {"NOT_NEEDED", "NEEDED"} -> s

\* The state machine of bfd_consume_pkt.
NextState(local, remote) ==
  CASE local = "admin_down" -> "admin_down"
    [] local # "admin_down" /\ remote = "admin_down" -> "down"
    [] local = "down" /\ remote = "down" -> "init"
    [] local = "down" /\ remote = "init" -> "up"
    [] local = "init" /\ remote \in {"init", "up"} -> "up"
    [] local = "up" /\ remote = "down" -> "down"
    [] OTHER -> local

\* bfd_consume_pkt up to the state machine: what the packet says of the peer.
Hear(s, pkt) ==
  bfd_set_remote_required_min_rx(
    [s EXCEPT !.remote_discr = pkt.my_disc, !.remote_state = pkt.state,
              !.remote_tx = pkt.des_min_tx, !.remote_detect_mult = pkt.mult,
              !.silent = FALSE],
    pkt.req_min_rx)

\* bfd_init_final_control_frame clears a pending poll: the final carries the
\* parameters a poll would have carried.
AfterFinal(s) == [s EXCEPT !.poll_state = "NOT_NEEDED"]

\* The session p has after bfd_consume_pkt, as the one element of a set.
bfd_consume_pkt(p, pkt) ==
  {bfd_set_state(s, NextState(s.local_state, pkt.state)) :
     s \in {IF pkt.final THEN FinalReceived(heard) ELSE heard :
              heard \in {Hear(bs[p], pkt)}}}

\* bfd_udp_input: a packet is consumed and a poll is answered at once, with the
\* parameters of the session as it is now. An admin-down session answers none.
Receive(p, pkt) ==
  \E s \in bfd_consume_pkt(p, pkt) :
    IF pkt.poll /\ s.local_state # "admin_down"
    THEN /\ bs' = [bs EXCEPT ![p] = AfterFinal(s)]
         /\ net' = [net EXCEPT ![p] = Tail(@), ![Other(p)] =
                       Append(@, bfd_init_control_frame(s, FALSE, TRUE))]
    ELSE /\ bs' = [bs EXCEPT ![p] = s]
         /\ net' = [net EXCEPT ![p] = Tail(@)]

\* A packet for a session that is not there any more is dropped.
Refuse(p) ==
  /\ bs' = [bs EXCEPT ![p].silent = bs[p].local_state \in {"init", "up"}]
  /\ net' = [net EXCEPT ![p] = Tail(@)]

Deliver(p) ==
  /\ net[p] # <<>>
  /\ IF Accepts(bs[p], Head(net[p]))
     THEN Receive(p, Head(net[p]))
     ELSE Refuse(p)
  /\ UNCHANGED <<changed, events>>

-----------------------------------------------------------------------------
(* Timeouts                                                                *)

\* Mutant: the timeout keeps the discriminator of the peer it lost.
RxTimeoutKeepsDiscr(s, expired) ==
  IF s.local_state \in {"init", "up"} /\ expired = "rx"
  THEN bfd_set_remote_required_min_rx(
         bfd_set_state([s EXCEPT !.silent = FALSE], "down"), 1)
  ELSE s

\* Mutant: the timeout does not take down a session that is not up yet.
RxTimeoutWhenUp(s, expired) ==
  CASE s.local_state = "up" /\ expired = "rx" ->
         bfd_set_state([s EXCEPT !.remote_discr = 0, !.silent = FALSE], "down")
    [] s.local_state = "init" /\ expired = "rx" ->
         [s EXCEPT !.remote_discr = 0, !.silent = FALSE]
    [] OTHER -> s

\* bfd_check_rx_timeout, for the timer that has run out.
bfd_check_rx_timeout(s, expired) ==
  CASE s.local_state \in {"init", "up"} /\ expired = "rx" ->
         bfd_set_remote_required_min_rx(
           bfd_set_state([s EXCEPT !.remote_discr = 0, !.silent = FALSE], "down"), 1)
    [] s.local_state \in {"init", "up"} /\ expired = "echo" /\ s.echo ->
         bfd_set_state(s, "down")
    [] OTHER -> s

bfd_is_echo_possible(p, s) ==
  p \in EchoSources /\ s.local_state = "up" /\ s.remote_state = "up"

SwitchEchoOn(p, s) ==
  IF s.poll_state = "NOT_NEEDED" /\ ~s.echo /\ bfd_is_echo_possible(p, s)
  THEN [bfd_set_effective_required_min_rx([s EXCEPT !.echo = TRUE],
                                          Larger(EchoRx, s.rx))
          EXCEPT !.poll_state = "NEEDED"]
  ELSE s

\* bfd_send_echo turns the echo function off when it is no longer possible.
bfd_send_echo(p, s) == [s EXCEPT !.echo = @ /\ bfd_is_echo_possible(p, s)]

\* bfd_send_periodic: nothing is sent to a peer that wants no packets, and a
\* poll that is needed starts with the frame, unless it has to wait.
SendsPeriodic(s) == s.remote_min_rx # 0 \/ s.poll_state # "NOT_NEEDED"

StartPoll(s) ==
  IF s.poll_state = "NEEDED" /\ ~s.poll_delayed
  THEN [s EXCEPT !.poll_state = "IN_PROGRESS"] ELSE s

\* bfd_send_periodic, and the echo after it. due: the transmit time has come
\* and there was a buffer.
Transmit(p, s, due) ==
  IF due /\ SendsPeriodic(s)
  THEN \E sent \in {StartPoll(s)} :
         /\ net' = [net EXCEPT ![Other(p)] = Append(@,
              bfd_init_control_frame(sent, sent.poll_state \in Polling, FALSE))]
         /\ bs' = [bs EXCEPT ![p] = bfd_send_echo(p, sent)]
  ELSE bs' = [bs EXCEPT ![p] = bfd_send_echo(p, s)] /\ UNCHANGED net

\* A timer that runs out for another reason than a peer that is not heard is a
\* fault: the packets, or the echoes, of a detection time were late or lost.
bfd_on_timeout(p, expired, due) ==
  /\ due => Room(p)
  /\ \E checked \in {bfd_check_rx_timeout(bs[p], expired)} :
       /\ expired # "none" => checked # bs[p]
       /\ IF expired = "none" \/ (expired = "rx" /\ bs[p].silent)
          THEN UNCHANGED events ELSE Disturb
       /\ Transmit(p, SwitchEchoOn(p, checked), due)
  /\ UNCHANGED changed

\* Time passes: a poll sequence that had to wait may start.
PollDelayOver(p) ==
  /\ bs[p].poll_delayed
  /\ bs' = [bs EXCEPT ![p].poll_delayed = FALSE]
  /\ UNCHANGED <<net, changed, events>>

-----------------------------------------------------------------------------
(* Commands of the operator                                                *)

PollAfterChange(s, new) ==
  IF s.tx = new.tx /\ s.rx = new.rx THEN s.poll_state
  ELSE CASE s.poll_state = "NOT_NEEDED" /\ s.local_state \in {"up", "init"} -> "NEEDED"
         [] s.poll_state = "IN_PROGRESS" -> "IN_PROGRESS_AND_QUEUED"
         [] OTHER -> s.poll_state

bfd_session_set_params(p) ==
  \E new \in ParamChoices[p] :
    LET s == bs[p]
    IN  /\ Disturb
        /\ new # [tx |-> s.tx, rx |-> s.rx, mult |-> s.mult]
        /\ bs' = [bs EXCEPT ![p] = [s EXCEPT
                    !.poll_state = PollAfterChange(s, new),
                    !.tx = new.tx, !.rx = new.rx, !.mult = new.mult]]
        /\ changed' = [changed EXCEPT ![p] = TRUE]
        /\ UNCHANGED net

\* The process node handles BFD_EVENT_CONFIG_CHANGED.
bfd_on_config_change(p) ==
  /\ changed[p]
  /\ changed' = [changed EXCEPT ![p] = FALSE]
  /\ bs' = [bs EXCEPT ![p] = bfd_recalc_detection_time(@)]
  /\ UNCHANGED <<net, events>>

\* Admin-up also takes a session that is up back to down.
bfd_session_set_flags(p, admin_up) ==
  LET new == IF admin_up THEN "down" ELSE "admin_down"
  IN  /\ Disturb
      /\ bs[p].local_state # new
      /\ bs' = [bs EXCEPT ![p] = bfd_set_state(@, new)]
      /\ UNCHANGED <<net, changed>>

\* bfd_udp_del_session and bfd_udp_add_session: the new session has a
\* discriminator of its own. The event its first parameters raise finds nothing
\* to recalculate and is left out; one raised for the old session stays.
Recreate(p) ==
  /\ Disturb
  /\ bs' = [bs EXCEPT ![p] = NewSession(p, @.local_discr + 1)]
  /\ UNCHANGED <<net, changed>>

-----------------------------------------------------------------------------
(* The network                                                             *)

Lose(p) ==
  /\ net[p] # <<>>
  /\ net' = [net EXCEPT ![p] = Tail(@)]
  /\ Disturb
  /\ UNCHANGED <<bs, changed>>

Duplicate(p) ==
  /\ net[p] # <<>> /\ Room(p)
  /\ net' = [net EXCEPT ![p] = Append(@, Head(@))]
  /\ Disturb
  /\ UNCHANGED <<bs, changed>>

Reorder(p) ==
  /\ Len(net[p]) >= 2
  /\ net' = [net EXCEPT ![p] = Append(Tail(@), Head(@))]
  /\ Disturb
  /\ UNCHANGED <<bs, changed>>

-----------------------------------------------------------------------------
Init ==
  /\ bs = [p \in Peers |-> NewSession(p, 1)]
  /\ net = [p \in Peers |-> <<>>]
  /\ changed = [p \in Peers |-> FALSE]
  /\ events = 0

Timers(p) ==
  \/ bfd_on_timeout(p, "none", TRUE)
  \/ \E expired \in {"rx", "echo"}, due \in BOOLEAN :
       bfd_on_timeout(p, expired, due)

Commands(p) ==
  \/ bfd_session_set_params(p)
  \/ \E admin_up \in BOOLEAN : bfd_session_set_flags(p, admin_up)
  \/ Recreate(p)

Next ==
  \E p \in Peers :
    \/ Deliver(p)
    \/ Timers(p) \/ PollDelayOver(p) \/ bfd_on_config_change(p)
    \/ Commands(p)
    \/ Lose(p) \/ Duplicate(p) \/ Reorder(p)

Spec == Init /\ [][Next]_vars

\* The process node wakes for every timer and event, the network delivers what
\* it does not lose.
FairSpec ==
  /\ Spec
  /\ \A p \in Peers :
       /\ WF_vars(Deliver(p))
       /\ WF_vars(bfd_on_timeout(p, "none", TRUE))
       /\ WF_vars(bs[p].silent /\ bfd_on_timeout(p, "rx", FALSE))
       /\ WF_vars(PollDelayOver(p))
       /\ WF_vars(bfd_on_config_change(p))

-----------------------------------------------------------------------------
(* Properties                                                              *)

\* The types of the variables.
TypeOK ==
  /\ \A p \in Peers :
       /\ bs[p].local_state \in States /\ bs[p].remote_state \in States
       /\ bs[p].poll_state \in PollStates
       /\ bs[p].detection_time \in Nat
       /\ bs[p].local_state \in {"init", "up"} => bs[p].remote_discr # 0
       /\ Len(net[p]) + Len(net[Other(p)]) <= MaxFlight
  /\ changed \in [Peers -> BOOLEAN]
  /\ events \in 0..MaxEvents

\* p and its peer agree on the parameters: both are up, no poll sequence or
\* event is pending and each has heard what the other advertises.
Agreed(p) ==
  LET s == bs[p]  r == bs[Other(p)]
  IN  /\ s.local_state = "up" /\ r.local_state = "up"
      /\ s.poll_state = "NOT_NEEDED" /\ r.poll_state = "NOT_NEEDED"
      /\ ~changed[p] /\ ~changed[Other(p)]
      /\ s.remote_tx = r.tx /\ s.remote_detect_mult = r.mult
      /\ r.remote_min_rx = bfd_init_control_frame(s, FALSE, FALSE).req_min_rx

\* A peer that has come to terms with the other waits, before it declares the
\* session down, for as many intervals as the other's detect multiplier says at
\* the rate the other really sends.
DetectionCovers ==
  \A p \in Peers :
    Agreed(p) => bs[p].detection_time
                   >= bs[Other(p)].mult * TransmitInterval(bs[Other(p)])

\* Packets come to arrive within a transmit interval, which the jitter of
\* bfd_calc_next_tx keeps from falling into step: a peer sends its periodic
\* frame when no packet is on the way.
Sends(p) == Len(net'[p]) > Len(net[p]) /\ net'[Other(p)] = net[Other(p)]
Prompt == <>[][\A p \in Peers : Sends(p) => \A q \in Peers : net[q] = <<>>]_vars

\* Once faults and commands stop, the session comes up at both ends, or it is
\* down wherever it is not admin-down.
Settles ==
  Prompt => <>[](\A p \in Peers :
                   IF \A q \in Peers : bs[q].local_state # "admin_down"
                   THEN bs[p].local_state = "up"
                   ELSE bs[p].local_state \in {"admin_down", "down"})

\* Once faults and commands stop, no poll sequence goes on for ever, unless the
\* peer is admin-down and answers nothing.
PollsEnd ==
  Prompt => <>[](\A p \in Peers : \/ bs[p].poll_state = "NOT_NEEDED"
                                  \/ bs[Other(p)].local_state = "admin_down")
=============================================================================
