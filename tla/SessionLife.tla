----------------------------- MODULE SessionLife -----------------------------
(***************************************************************************)
(* What the sessions of src/auth/auth.service.ts promise, whoever asks at  *)
(* the same time: a session is born once, is in force once its refresh     *)
(* token exists, ends, and never comes back; one that renews another is in *)
(* force only when the other has ended.  Sessions.tla implements this.     *)
(***************************************************************************)
CONSTANTS Session,    \* the sessions there may ever be
          NoSession   \* what a login renews

VARIABLES life,     \* where each session is in its life
          renews    \* the session each one was opened to renew

lifeVars == <<life, renews>>

LifeInit ==
  /\ life = [s \in Session |-> "unborn"]
  /\ renews = [s \in Session |-> NoSession]

Renewable(p) == p = NoSession \/ (p \in Session /\ life[p] = "over")

Open(s, p) ==
  /\ life[s] = "unborn"
  /\ Renewable(p)
  /\ life' = [life EXCEPT ![s] = "opening"]
  /\ renews' = [renews EXCEPT ![s] = p]

Issue(s) ==
  /\ life[s] = "opening"
  /\ Renewable(renews[s])
  /\ life' = [life EXCEPT ![s] = "inForce"]
  /\ UNCHANGED renews

End(S) ==
  /\ \A s \in S : life[s] = "inForce"
  /\ life' = [s \in Session |-> IF s \in S THEN "over" ELSE life[s]]
  /\ UNCHANGED renews

LifeNext ==
  \/ \E s \in Session : Issue(s) \/ \E p \in Session \cup {NoSession} : Open(s, p)
  \/ \E S \in SUBSET Session : End(S)

LifeSpec == LifeInit /\ [][LifeNext]_lifeVars
=============================================================================
