---------------------------- MODULE LevelChecker ----------------------------
(***************************************************************************)
(* The codes an attacker can submit and the verdict on them                *)
(* (levels/checker.ts, engine/flags.ts and the target guess of             *)
(* engine/session.ts).                                                     *)
(*                                                                         *)
(* Every code the world hides is a hash of the session's seed.  Two        *)
(* different derivations of one seed, and the derivations of two seeds,    *)
(* never collide, so a submitted string is represented by what it is FOR   *)
(* THIS SESSION: the flag of a level ("level"), the same hash without its  *)
(* FLAG{} wrapper ("bare"), the win token, the decoy, a text that asks     *)
(* whether the world is real ("probe"), or anything else ("other").        *)
(***************************************************************************)
EXTENDS Naturals

CONSTANT TopLevel   \* the highest level closed by a level flag (9 in the code)

ASSUME TopLevelAssumption == TopLevel \in Nat \ {0}

\* The theater: the level the win token closes.
WinLevel == TopLevel + 1

Code == [kind : {"level", "bare"}, of : 1..TopLevel]
          \cup [kind : {"win", "decoy", "probe", "other"}, of : {0}]

IsMetaProbe(code) == code.kind = "probe"

\* Which level a code claims.  Level codes are recognised without their
\* wrapper only; whatever is not recognised claims the next level.
GuessTargetLevel(levelMax, code) ==
  IF code.kind = "bare" THEN code.of
  ELSE IF levelMax + 1 <= TopLevel THEN levelMax + 1 ELSE TopLevel

TargetLevel(levelMax, code) ==
  IF code.kind = "win" THEN WinLevel ELSE GuessTargetLevel(levelMax, code)

\* A decoy is never accepted; it tells that the attacker took the bait.
DecoyVerdict(code) == code.kind = "decoy"

\* Mutants: the win token is accepted from anywhere, or one level too early.
WinVerdictFromAnywhere(target, code, levelMax) ==
  code.kind = "win" /\ target = WinLevel

WinVerdictOneEarly(target, code, levelMax) ==
  code.kind = "win" /\ target = WinLevel /\ levelMax + 1 >= TopLevel

WinVerdict(target, code, levelMax) ==
  /\ code.kind = "win"
  /\ target = WinLevel
  /\ levelMax >= TopLevel

LevelVerdict(target, code, levelMax) ==
  /\ target <= levelMax + 1
  /\ code = [kind |-> "level", of |-> target]

VerifyFlag(target, code, levelMax) ==
  [ accepted |-> \/ WinVerdict(target, code, levelMax)
                 \/ LevelVerdict(target, code, levelMax),
    meta     |-> DecoyVerdict(code) ]
=============================================================================
