---------------------------- MODULE MCMixingValve ----------------------------
(* The two ways of moving the mixing valve of model 00013: the local loop and *)
(* the supervised pulses the cloud commands.  In a behaviour the one named by *)
(* "part" moves, the other stays where it began.                              *)
EXTENDS LocalMixer

CONSTANTS Overlap, MaxFaults

VARIABLES
  part,
  sPc, op, sRelays, late, timer, firmware, dog, old, seen, commissioned, sResult, faults, died

S == INSTANCE ServoPulse WITH
       pc <- sPc, relays <- sRelays, marker <- commissioned, result <- sResult

servo == <<sPc, op, sRelays, late, timer, firmware, dog, old, seen, commissioned, sResult, faults, died>>

ValveInit ==
  /\ part \in {"loop", "servo"}
  /\ Init /\ S!Init
  \* Choices of a part that does not move are of no interest.
  /\ part # "loop" => \A t \in Targets, r \in Temps : target <= t /\ sample.temp <= r
  /\ part # "servo" => ~firmware

Local == part = "loop" /\ Next /\ UNCHANGED <<part, servo>>
Servo == part = "servo" /\ S!Next /\ UNCHANGED <<part, vars>>

ValveSpec == ValveInit /\ [][Local \/ Servo]_<<part, vars, servo>>

\* A reported movement ended with both relays off, and one fault never leaves one on.
ValveOff == S!OffProven /\ S!SingleFault

\* Only a device that ends pulses by itself is commissioned for timed ones.
NativeWitness == S!NativeWitness
=============================================================================
