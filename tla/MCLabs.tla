------------------------------- MODULE MCLabs -------------------------------
(***************************************************************************)
(* Instances of the measurements of labs 4 to 7 for TLC, of which a        *)
(* behaviour runs one, with the arithmetic of lab 4's times against a      *)
(* reference definition.                                                   *)
(***************************************************************************)
EXTENDS PriorityInversion, Timespec, CacheChain, ResponseTime, Latency

VARIABLE lab \* which of the measurements runs

labVars == <<lab, vars, chainVars, responseVars, latencyVars>>

Inversion == lab = 4 /\ Next
                /\ UNCHANGED <<lab, chainVars, responseVars, latencyVars>>
Chain     == lab = 5 /\ ChainNext
                /\ UNCHANGED <<lab, vars, responseVars, latencyVars>>
Response  == lab = 6 /\ ResponseNext
                /\ UNCHANGED <<lab, vars, chainVars, latencyVars>>
Exchange  == lab = 7 /\ LatencyNext
                /\ UNCHANGED <<lab, vars, chainVars, responseVars>>

\* The boards of labs 4 and 6 differ; for the others it is the same.
LabsInit ==
  /\ lab \in 4..7 /\ Init /\ ChainInit /\ ResponseInit /\ LatencyInit
  /\ lab # 4 => cores = 1
  /\ lab # 6 => board = [smp |-> TRUE, hoisted |-> FALSE, prompt |-> TRUE]

LabsSpec == LabsInit /\ [][Inversion \/ Chain \/ Response \/ Exchange]_labVars

(***************************************************************************)
(* Fairness, of the lab that runs.  4: the processors do not stand still.  *)
(* 6: neither do they here; the monitor, of lowest priority, gets the      *)
(* processor again and again, since the service task waits in each period. *)
(* 7: each side goes on while it can, and a datagram that is not lost      *)
(* arrives.                                                                *)
(***************************************************************************)
FairLabs ==
  /\ LabsSpec
  /\ WF_labVars(Inversion /\ (Low \/ Mid \/ Rest("low", LowDelay)
                                \/ Rest("mid", MidDelay)))
  /\ WF_labVars(Inversion /\ (High \/ Rest("high", HighDelay)))
  /\ WF_labVars(Inversion /\ Tick)
  /\ WF_labVars(Response /\ Isr)
  /\ WF_labVars(Response /\ Service)
  /\ SF_labVars(Response /\ Monitor)
  /\ WF_labVars(Response /\ Shell)
  /\ WF_labVars(Exchange /\ ListenerRuns)
  /\ WF_labVars(Exchange /\ SenderRuns)

-----------------------------------------------------------------------------
(***************************************************************************)
(* Every variable of the four labs keeps its type: among others no length  *)
(* passes the end of lab 5's arrays, and no count of lab 6 and 7 its end   *)
(* (main.c:61, main.c:74, latency_measurement.c:78, :100).                 *)
(***************************************************************************)
LabsTypeOK ==
  lab \in 4..7 /\ TypeOK /\ ChainTypeOK /\ ResponseTypeOK /\ LatencyTypeOK

MaxSec == 2 \* bound: the seconds of the times that are subtracted

Times == [sec : 0..MaxSec, nsec : 0 .. NsPerSec - 1]

Nanoseconds(time) == time.sec * NsPerSec + time.nsec

(***************************************************************************)
(* For any two clock readings timespec_subtract gives their difference     *)
(* with its nanoseconds in range, says whether it is negative, "Return 1   *)
(* if the difference is negative, otherwise 0" (utils.h:22), and           *)
(* time_to_ms the whole milliseconds of a time that has passed.  Swept     *)
(* before the first call only, depending on no variable.                   *)
(***************************************************************************)
SubtractLaw ==
  lab = 4 /\ calls = 0 =>
  \A x, y \in Times :
    LET diff == Nanoseconds(x) - Nanoseconds(y)
        out  == timespec_subtract(x, y)
    IN  /\ Nanoseconds(out.result) = diff
        /\ out.result.nsec \in 0 .. NsPerSec - 1
        /\ out.negative <=> diff < 0
        /\ diff >= 0 => time_to_ms(out.result) = diff \div NsPerMs
=============================================================================
