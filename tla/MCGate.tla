-------------------------------- MODULE MCGate --------------------------------
(***************************************************************************)
(* What stands in front of the console: the sign-in, and the defence       *)
(* against its visitors.  They share no state, so every behaviour of this  *)
(* module is one of SignIn, with the defence away, or one of               *)
(* ConsoleDefense, with nobody signing in.                                 *)
(*                                                                         *)
(* Two browsers, two sign-ins and two people are enough for one state in   *)
(* two callbacks and for the answers of two sign-ins to be mixed up.  With *)
(* three addresses and a table of two, bans are given while there is room  *)
(* and when there is none, and the address that is forgotten need not be   *)
(* the one that was banned.                                                *)
(***************************************************************************)
EXTENDS SignIn, Sequences, TLC

CONSTANTS
  Ip, Path, LoginLimit, ProbeLimit, ScanLimit, Window, BanBase, BanCeiling,
  MaxTracked, DrainPeriod, MaxOffences, MaxInFlight  \* of ConsoleDefense

VARIABLES
  part,  \* "sign-in" or "defense"
  tracked, login, probe, scan, ban, offences, inFlight, drainIn,
  failures, reported, promised

D == INSTANCE ConsoleDefense

ASSUME GateAssumption == D!DefenseAssumption

defense == <<tracked, login, probe, scan, ban, offences, inFlight, drainIn,
  failures, reported, promised>>
gateVars == <<part, vars, defense>>

Away ==
  /\ tracked = None /\ login = None /\ probe = None /\ scan = None /\ ban = None
  /\ offences = None /\ inFlight = None /\ drainIn = None
  /\ failures = None /\ reported = None /\ promised = None

GateInit ==
  /\ Init
  /\ \/ part = "sign-in" /\ Away
     \/ part = "defense" /\ D!Init /\ groups = [u \in User |-> {}]

GateNext ==
  /\ UNCHANGED part
  /\ \/ part = "sign-in" /\ Next /\ UNCHANGED defense
     \/ part = "defense" /\ D!Next /\ UNCHANGED vars

GateSpec == GateInit /\ [][GateNext]_gateVars

\* As ConsoleDefense states it: a ban is in force until it ends, unless the table
\* filled up and forgot it.
BanForgottenOnlyWhenFull == part = "defense" => D!BanForgottenOnlyWhenFull

Alike ==
  Permutations(Browser) \cup Permutations(Flow) \cup Permutations(User)
=============================================================================
