------------------------------ MODULE Latency -------------------------------
(***************************************************************************)
(* Lab 7: a sender measures how long its datagrams take to a listener and  *)
(* back (lab7_ethernet_communication_latency/latency_measurement.c).  Both *)
(* run udp_latency.  The network may lose, duplicate and reorder; calls of *)
(* the socket library may fail.                                            *)
(*                                                                         *)
(* All datagrams have the same text; here they carry the number of their   *)
(* message, which the code does not see, and which copy they are.          *)
(***************************************************************************)
EXTENDS Integers

CONSTANTS
  MaxCount,   \* bound: messages_count of either side
  MaxEndless, \* bound: messages of a sender whose count is 0, endless
  MaxFaults   \* bound: what goes wrong in all

ASSUME LatencyAssumption == {MaxCount, MaxEndless, MaxFaults} \subseteq Nat

VARIABLES
  sender,   \* place, messages_count, i
  listener, \* place, messages_count, i, the datagram in buf
  requests, \* datagrams on their way to the listener
  answers,  \*   and to the sender
  delays,   \* history: the message of each delay measured, and the answer's
  faults    \* history: how often what has gone wrong so far

latencyVars == <<sender, listener, requests, answers, delays, faults>>

Messages  == 1 .. MaxCount + MaxEndless
Datagrams == Messages \X {"original", "copy"}
Nothing   == <<0, "original">>

Faults == {"lost", "duplicated", "sender", "listener"}

\* Once more.
Fault(kind) ==
  /\ faults["lost"] + faults["duplicated"] + faults["sender"]
       + faults["listener"] < MaxFaults
  /\ faults' = [faults EXCEPT ![kind] = @ + 1]

Off == [at |-> "off", messages_count |-> 0, i |-> 0, buf |-> Nothing]

LatencyInit ==
  /\ sender = Off /\ listener = Off
  /\ requests = {} /\ answers = {} /\ delays = {}
  /\ faults = [kind \in Faults |-> 0]

-----------------------------------------------------------------------------
(* udp_latency, on either side                                             *)

\* i++ != messages_count || messages_count == 0, or else close.
Tested(side, next) ==
  IF side.i # side.messages_count \/ side.messages_count = 0
    THEN [side EXCEPT !.i = @ + 1, !.at = next]
    ELSE [side EXCEPT !.i = @ + 1, !.at = "closed"]

\* An endless side goes on; only so much of it is looked at.
InBound(side) == side.messages_count = 0 => side.i < MaxEndless

Listens(count) ==
  /\ listener.at = "off"
  /\ listener' = [Off EXCEPT !.at = "test", !.messages_count = count]
  /\ UNCHANGED <<sender, requests, answers, delays, faults>>

Sends(count) ==
  /\ sender.at = "off"
  /\ sender' = [Off EXCEPT !.at = "test", !.messages_count = count]
  /\ UNCHANGED <<listener, requests, answers, delays, faults>>

-----------------------------------------------------------------------------
(* The listener                                                            *)

ListenerTests ==
  /\ listener.at = "test"
  /\ listener' = Tested(listener, "recv")
  /\ UNCHANGED <<sender, requests, answers, delays, faults>>

ListenerReceives(datagram) ==
  /\ listener.at = "recv" /\ datagram \in requests
  /\ listener' = [listener EXCEPT !.at = "echo", !.buf = datagram]
  /\ requests' = requests \ {datagram}
  /\ UNCHANGED <<sender, answers, delays, faults>>

\* The failure is counted as a message.
ListenerFails ==
  /\ listener.at = "recv"
  /\ listener' = [listener EXCEPT !.at = "test"]
  /\ Fault("listener")
  /\ UNCHANGED <<sender, requests, answers, delays>>

\* Mutant of Echoes: it sends to its own address.
EchoesToItself ==
  /\ listener.at = "echo"
  /\ requests' = requests \cup {listener.buf}
  /\ listener' = [listener EXCEPT !.at = "test", !.buf = Nothing]
  /\ UNCHANGED <<sender, answers, delays, faults>>

\* Mutant of Echoes: it sends twice.
EchoesTwice ==
  /\ listener.at = "echo"
  /\ answers' = answers \cup ({listener.buf[1]} \X {"original", "copy"})
  /\ listener' = [listener EXCEPT !.at = "test", !.buf = Nothing]
  /\ UNCHANGED <<sender, requests, delays, faults>>

Echoes ==
  /\ listener.at = "echo"
  /\ answers' = answers \cup {listener.buf}
  /\ listener' = [listener EXCEPT !.at = "test", !.buf = Nothing]
  /\ UNCHANGED <<sender, requests, delays, faults>>

EchoFails ==
  /\ listener.at = "echo"
  /\ listener' = [listener EXCEPT !.at = "test", !.buf = Nothing]
  /\ Fault("lost")
  /\ UNCHANGED <<sender, requests, answers, delays>>

-----------------------------------------------------------------------------
(* The sender.  Its delays go to a histogram; the clock is left out.       *)

SenderTests ==
  /\ sender.at = "test" /\ InBound(sender)
  /\ sender' = Tested(sender, "send")
  /\ UNCHANGED <<listener, requests, answers, delays, faults>>

\* The result of sendto is not looked at.  A datagram to a socket that is not
\* bound yet is lost.
SenderSends(lost) ==
  /\ sender.at = "send"
  /\ listener.at = "off" => lost
  /\ sender' = [sender EXCEPT !.at = "recv"]
  /\ requests' = IF lost THEN requests
                 ELSE requests \cup {<<sender.i, "original">>}
  /\ IF lost THEN Fault("lost") ELSE UNCHANGED faults
  /\ UNCHANGED <<listener, answers, delays>>

\* recvfrom waits for any datagram, for ever.
SenderReceives(datagram) ==
  /\ sender.at = "recv" /\ datagram \in answers
  /\ answers' = answers \ {datagram}
  /\ delays' = delays \cup {<<sender.i, datagram[1]>>}
  /\ sender' = [sender EXCEPT !.at = "test"]
  /\ UNCHANGED <<listener, requests, faults>>

\* It fails, and a delay is measured nevertheless.
SenderFails ==
  /\ sender.at = "recv"
  /\ delays' = delays \cup {<<sender.i, 0>>}
  /\ Fault("sender")
  /\ sender' = [sender EXCEPT !.at = "test"]
  /\ UNCHANGED <<listener, requests, answers>>

-----------------------------------------------------------------------------
(* The network                                                             *)

Lose(datagram) ==
  /\ datagram \in requests \cup answers
  /\ requests' = requests \ {datagram} /\ answers' = answers \ {datagram}
  /\ Fault("lost")
  /\ UNCHANGED <<sender, listener, delays>>

Duplicate(datagram) ==
  LET copy == <<datagram[1], "copy">>
  IN  /\ Fault("duplicated")
      /\ \/ /\ datagram \in requests
            /\ requests' = requests \cup {copy} /\ UNCHANGED answers
         \/ /\ datagram \in answers
            /\ answers' = answers \cup {copy} /\ UNCHANGED requests
      /\ UNCHANGED <<sender, listener, delays>>

-----------------------------------------------------------------------------
ListenerRuns ==
  \/ ListenerTests \/ Echoes \/ EchoFails
  \/ \E d \in Datagrams : ListenerReceives(d)

SenderRuns ==
  \/ SenderTests
  \/ \E lost \in BOOLEAN : SenderSends(lost)
  \/ \E d \in Datagrams : SenderReceives(d)

LatencyNext ==
  \/ \E count \in 0..MaxCount : Listens(count) \/ Sends(count)
  \/ ListenerRuns \/ ListenerFails \/ SenderRuns \/ SenderFails
  \/ \E d \in Datagrams : Lose(d) \/ Duplicate(d)

LatencySpec == LatencyInit /\ [][LatencyNext]_latencyVars

-----------------------------------------------------------------------------
(* Properties                                                              *)

LatencyTypeOK ==
  LET Side == [at : {"off", "test", "send", "recv", "echo", "closed"},
               messages_count : 0..MaxCount, i : Nat,
               buf : Datagrams \cup {Nothing}]
  IN  /\ sender \in Side /\ listener \in Side
      /\ requests \subseteq Datagrams /\ answers \subseteq Datagrams
      /\ delays \subseteq Messages \X (Messages \cup {0})
      /\ faults \in [Faults -> 0..MaxFaults]

(***************************************************************************)
(* Whatever is lost and however the listener fails, every delay is one of  *)
(* the message just sent and its own answer, as long as nothing was        *)
(* duplicated and no recvfrom of the sender failed: the code compares      *)
(* neither numbers nor, outside of debugging, texts                        *)
(* (latency_measurement.c:104-107).                                        *)
(***************************************************************************)
OwnAnswer ==
  faults["duplicated"] = 0 /\ faults["sender"] = 0 =>
    \A d \in delays : d[1] = d[2]

\* The listener has turns enough: a failure of its recvfrom uses one up (:78-82),
\* and so does a copy.
TurnsSuffice ==
  \/ listener.messages_count = 0
  \/ listener.messages_count >=
       sender.messages_count + faults["listener"] + faults["duplicated"]

(***************************************************************************)
(* A sender is finished in the end unless something was lost or the        *)
(* listener, who counts failures and copies as messages, stopped too soon: *)
(* only then may recvfrom, which has no time-out, block for ever (:106).   *)
(***************************************************************************)
SenderEnds ==
  (sender.at = "send" /\ sender.messages_count # 0 /\ listener.at # "off")
    ~> (sender.at = "closed" \/ faults["lost"] > 0 \/ ~TurnsSuffice)
=============================================================================
