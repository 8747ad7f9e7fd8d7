--------------------------- MODULE ExternalEffects ---------------------------
(***************************************************************************)
(* What the effect protocol promises of the calls a run makes to the       *)
(* outside, whoever makes them and whatever crashes: every effect is       *)
(* called at most once, what is recorded about a call was true when it was *)
(* recorded, and a run does not end while a call is unsettled.             *)
(***************************************************************************)
EXTENDS Naturals

CONSTANT Intents   \* the effects a run may have

VARIABLES
  phase,    \* per effect, how far its call is
  applied,  \* per effect, how often the outside world applied it
  ended     \* whether the run is over

ledger == <<phase, applied, ended>>

Init ==
  /\ phase = [i \in Intents |-> "IDLE"]
  /\ applied = [i \in Intents |-> 0]
  /\ ended = FALSE

\* The right to make the one call is taken.
Call(i) ==
  /\ ~ended
  /\ phase[i] = "IDLE"
  /\ phase' = [phase EXCEPT ![i] = "CALLED"]
  /\ UNCHANGED <<applied, ended>>

\* The outside applies a call, possibly long after everyone gave up on it.
Apply(i) ==
  /\ phase[i] # "IDLE"
  /\ applied[i] = 0
  /\ applied' = [applied EXCEPT ![i] = 1]
  /\ UNCHANGED <<phase, ended>>

SettleApplied(i) ==
  /\ phase[i] = "CALLED"
  /\ applied[i] = 1
  /\ phase' = [phase EXCEPT ![i] = "APPLIED"]
  /\ UNCHANGED <<applied, ended>>

SettleNotApplied(i) ==
  /\ phase[i] = "CALLED"
  /\ applied[i] = 0
  /\ phase' = [phase EXCEPT ![i] = "NOT_APPLIED"]
  /\ UNCHANGED <<applied, ended>>

End ==
  /\ ~ended
  /\ \A i \in Intents : phase[i] # "CALLED"
  /\ ended' = TRUE
  /\ UNCHANGED <<phase, applied>>

Next ==
  \/ \E i \in Intents :
       Call(i) \/ Apply(i) \/ SettleApplied(i) \/ SettleNotApplied(i)
  \/ End

Spec == Init /\ [][Next]_ledger

==============================================================================
