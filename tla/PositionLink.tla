---------------------------- MODULE PositionLink ----------------------------
(***************************************************************************)
(* The whole steering system: the transmitter board, whose motor is moved  *)
(* by hand, sends its position in UDP datagrams (run_udp_srv,              *)
(* server.c:80-93), and the receiver board, which is StepperMotor, follows *)
(* it.  The network may lose, reorder and duplicate datagrams.             *)
(*                                                                         *)
(* The transmitter's own counting of encoder steps is StepperMotor with    *)
(* SetDesired = FALSE and is not repeated here: txPosition is its          *)
(* motor_driver_shared.position.                                           *)
(***************************************************************************)
EXTENDS StepperMotor, Bags, BagsExt

CONSTANTS
  TxPositions,   \* the places the transmitter's motor is moved to
  MaxInFlight,   \* bound: datagrams in the network
  MaxDuplicates  \* bound: datagrams the network duplicates in all

\* What arrives over UDP is what the transmitter sends.
ASSUME LinkAssumption ==
  SetPoints = TxPositions /\ MaxInFlight \in Nat /\ MaxDuplicates \in Nat

VARIABLES
  txPosition, \* transmitter: motor_driver_shared.position
  net,        \* the bag of datagrams in flight
  duplicated  \* how many datagrams the network has duplicated

linkVars == <<txPosition, net, duplicated>>
sysVars  == <<vars, linkVars>>

InFlight == BagCardinality(net)

LinkInit ==
  /\ Init
  /\ txPosition = 0 /\ net = EmptyBag /\ duplicated = 0

-----------------------------------------------------------------------------
(* The transmitter                                                         *)

TxTurns(step) ==
  /\ txPosition + step \in TxPositions
  /\ txPosition' = txPosition + step
  /\ UNCHANGED <<vars, net, duplicated>>

\* Mutant of TxSend: the transmitter sends its desired_position, which is
\* always 0 there.
TxSendDesired ==
  /\ InFlight < MaxInFlight
  /\ net' = BagAdd(net, 0)
  /\ UNCHANGED <<vars, txPosition, duplicated>>

\* The loop of the transmitter sends its position; taskDelay only spaces the
\* datagrams, and any number of other steps may fall between two of them.
TxSend ==
  /\ InFlight < MaxInFlight
  /\ net' = BagAdd(net, txPosition)
  /\ UNCHANGED <<vars, txPosition, duplicated>>

-----------------------------------------------------------------------------
(* The network                                                             *)

Lose(v) ==
  /\ BagIn(v, net)
  /\ net' = BagRemove(net, v)
  /\ UNCHANGED <<vars, txPosition, duplicated>>

Duplicate(v) ==
  /\ BagIn(v, net) /\ InFlight < MaxInFlight /\ duplicated < MaxDuplicates
  /\ net' = BagAdd(net, v)
  /\ duplicated' = duplicated + 1
  /\ UNCHANGED <<vars, txPosition>>

\* Any datagram in flight may be the next to arrive.
Deliver(v) ==
  /\ BagIn(v, net)
  /\ UdpReceive(v)
  /\ net' = BagRemove(net, v)
  /\ UNCHANGED <<txPosition, duplicated>>

-----------------------------------------------------------------------------
Receiver == /\ MotorTurns \/ Isr \/ Task \/ UdpGive \/ UdpReceiveFails
            /\ UNCHANGED linkVars

Network == \E v \in TxPositions : Lose(v) \/ Duplicate(v) \/ Deliver(v)

LinkNext == \/ \E step \in {-1, 1} : TxTurns(step)
            \/ TxSend \/ Receiver \/ Network

LinkSpec == LinkInit /\ [][LinkNext]_sysVars

(***************************************************************************)
(* The network keeps no datagram for ever, and delivers a position that is *)
(* sent again and again; it may still lose any number of them.             *)
(***************************************************************************)
NetworkFairness ==
  \A v \in TxPositions :
    /\ WF_sysVars(Lose(v) \/ Deliver(v))
    /\ []<><<TxSend /\ net' = BagAdd(net, v)>>_sysVars
         => []<><<Deliver(v)>>_sysVars

\* What StepperMotor assumes of the receiver board, and a transmitter whose
\* loop goes on.
BoardFairness ==
  /\ SF_sysVars(IsrEnter /\ UNCHANGED linkVars)
  /\ WF_sysVars(Isr /\ UNCHANGED linkVars)
  /\ WF_sysVars(Task /\ UNCHANGED linkVars)
  /\ WF_sysVars(UdpGive /\ UNCHANGED linkVars)
  /\ WF_sysVars(MotorTurns /\ UNCHANGED linkVars)
  /\ SF_sysVars(TxSend)

FairLinkSpec == LinkSpec /\ BoardFairness /\ NetworkFairness

-----------------------------------------------------------------------------
(* Properties                                                              *)

(***************************************************************************)
(* The system steers by wire: once the hand rests, the receiver's          *)
(* set-point becomes the place where it rests, for good, and the           *)
(* receiver's motor gets there.  No datagram that was overtaken,           *)
(* duplicated or lost leaves it at an older one.                           *)
(***************************************************************************)
SteersByWire ==
  \A v \in TxPositions :
    <>[](txPosition = v) => <>[](desired = v) /\ []<>(position = v)
=============================================================================
