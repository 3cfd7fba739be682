--------------------------- MODULE StageLifecycle ---------------------------
(***************************************************************************)
(* What the stages of a document promise, without workers, leases, races   *)
(* or requests.  A stage waits for its predecessor, is open for a worker,  *)
(* is held by one, and is done for good or stopped until a restart.  The   *)
(* stage after it opens in the very step that makes it done.               *)
(*                                                                         *)
(* Only of a stage that came to be contested while a worker held it is     *)
(* this not promised: those who worked on it overwrite one another, with   *)
(* an outcome a worker could have had.                                     *)
(***************************************************************************)
EXTENDS Integers

CONSTANT MaxVersion

VARIABLES
  phase,
  contested   \* stages more than one holder may write

Version == 1..MaxVersion
Stage   == {"parse", "chunk", "embed"}
Job     == Version \X Stage
Phases  == {"none", "waiting", "open", "held", "done", "stopped"}

After(s) == CASE s = "parse" -> {"chunk"}
              [] s = "chunk" -> {"embed"}
              [] s = "embed" -> {}
Later(s) == CASE s = "parse" -> {"chunk", "embed"}
              [] s = "chunk" -> {"embed"}
              [] s = "embed" -> {}

Init == phase = [j \in Job |-> "none"] /\ contested = {}

\* A version appears with its first stage open and the others waiting.
Publish(v) ==
  /\ \A s \in Stage : phase[<<v, s>>] = "none"
  /\ phase' = [j \in Job |-> IF j[1] # v THEN phase[j]
                             ELSE IF j[2] = "parse" THEN "open" ELSE "waiting"]

\* One worker takes an open stage; a second one cannot.
Take(j) ==
  /\ phase[j] = "open"
  /\ phase' = [phase EXCEPT ![j] = "held"]

\* A stage is done and the one after it opens, if it waits for it.
Advance(j) ==
  /\ phase[j] \in {"open", "held"}
  /\ phase' = [i \in Job |->
                 IF i = j THEN "done"
                 ELSE IF /\ i[1] = j[1] /\ i[2] \in After(j[2])
                         /\ phase[i] = "waiting" THEN "open"
                 ELSE phase[i]]

\* A held stage is tried again later.
PutBack(j) ==
  /\ phase[j] = "held"
  /\ phase' = [phase EXCEPT ![j] = "open"]

\* Unfinished stages stop together: a failure, a cancel, a reaped cancel.
Stop ==
  /\ phase' \in [Job -> Phases]
  /\ \A j \in Job : phase'[j] # phase[j] =>
       phase[j] \in {"waiting", "open", "held"} /\ phase'[j] = "stopped"

\* A retry opens a stopped stage; the later unfinished ones wait for it.
Restart(j) ==
  /\ phase[j] = "stopped"
  /\ phase' = [i \in Job |->
                 IF i = j THEN "open"
                 ELSE IF /\ i[1] = j[1] /\ i[2] \in Later(j[2])
                         /\ phase[i] = "stopped" THEN "waiting"
                 ELSE phase[i]]

\* Held stages come to be contested.
Contest(S) ==
  /\ \A j \in S : phase[j] = "held"
  /\ contested' = contested \cup S
  /\ UNCHANGED phase

\* A worker that lost a stage writes what became of it, whatever it is by now.
Overwrite(j) ==
  /\ j \in contested
  /\ \E outcome \in {"open", "stopped", "done"} :
       phase' = [i \in Job |->
                   IF i = j THEN outcome
                   ELSE IF /\ outcome = "done"
                           /\ i[1] = j[1] /\ i[2] \in After(j[2])
                           /\ phase[i] = "waiting" THEN "open"
                   ELSE phase[i]]

\* A restart finds the stage overwritten, and only the later ones wait for it.
Overtaken(j) ==
  /\ j \in contested
  /\ phase' = [i \in Job |->
                 IF /\ i[1] = j[1] /\ i[2] \in Later(j[2])
                    /\ phase[i] = "stopped" THEN "waiting"
                 ELSE phase[i]]

Step ==
  \/ Stop
  \/ \E v \in Version : Publish(v)
  \/ \E j \in Job :
       \/ Take(j) \/ Advance(j) \/ PutBack(j) \/ Restart(j)
       \/ Overwrite(j) \/ Overtaken(j)

Next ==
  \/ Step /\ UNCHANGED contested
  \/ \E S \in SUBSET Job : Contest(S)

Spec == Init /\ [][Next]_<<phase, contested>>

=============================================================================
