------------------------- MODULE OneTimeCredential -------------------------
(***************************************************************************)
(* What the TSK server promises about a credential, without saying how:    *)
(* it is issued once, each use spends counters at or above its floor and   *)
(* raises the floor past them, and once dead it is never used again.       *)
(* TskServer is shown to implement this specification.                     *)
(***************************************************************************)
EXTENDS Integers, Sequences

CONSTANTS ClientId, Seg, MaxCounter

VARIABLES
  cred,      \* the life of each credential
  accepted   \* the counter vectors it was accepted with, in order

abstractVars == <<cred, accepted>>

Zero  == [s \in Seg |-> 0]
Unborn == [phase |-> "unborn", floor |-> Zero]
Dead   == [phase |-> "dead", floor |-> Zero]
Alive(f) == [phase |-> "live", floor |-> f]

AbstractInit ==
  /\ cred = [c \in ClientId |-> Unborn]
  /\ accepted = [c \in ClientId |-> << >>]

Issue(c) ==
  /\ cred[c] = Unborn
  /\ cred' = [cred EXCEPT ![c] = Alive(Zero)]
  /\ UNCHANGED accepted

Use(c, v) ==
  /\ cred[c].phase = "live"
  /\ \A s \in Seg : v[s] >= cred[c].floor[s]
  /\ cred' = [cred EXCEPT ![c] =
                IF \E s \in Seg : v[s] + 1 = MaxCounter THEN Dead
                ELSE Alive([s \in Seg |-> v[s] + 1])]
  /\ accepted' = [accepted EXCEPT ![c] = Append(@, v)]

Retire(c) ==
  /\ cred[c].phase = "live"
  /\ cred' = [cred EXCEPT ![c] = Dead]
  /\ UNCHANGED accepted

Rotate(old, new) ==
  /\ cred[old].phase = "live" /\ cred[new] = Unborn
  /\ cred' = [cred EXCEPT ![old] = Dead, ![new] = Alive(Zero)]
  /\ UNCHANGED accepted

AbstractNext ==
  \E c \in ClientId :
    \/ Issue(c)
    \/ \E v \in [Seg -> 0..(MaxCounter - 1)] : Use(c, v)
    \/ Retire(c)
    \/ \E new \in ClientId : Rotate(c, new)

AbstractSpec == AbstractInit /\ [][AbstractNext]_abstractVars
=============================================================================
