----------------------------- MODULE JobContract -----------------------------
(***************************************************************************)
(* What the job manager promises to whoever launches something: a job      *)
(* begins, and is then accepted and exported, or refused and stopped, with *)
(* some of its items done already in either case; each item has a value at *)
(* most once; and an accepted job is removed once, when every item has its *)
(* value, with all of these values in the order of the items, after which  *)
(* nothing more happens to it.  No threads, futures or continuations.      *)
(***************************************************************************)
EXTENDS Naturals

CONSTANTS Jobs, MaxItems,
          Values    \* what an item can return

Pending == "pending"

VARIABLES phase,     \* "unknown", "begun", "exported", "refused" or "removed"
          values,    \* [Jobs -> the value of each item, or Pending]
          exported,  \* the jobs that clients can call
          reported,  \* [Jobs -> the values its removal was announced with]
          held       \* the jobs that somebody keeps from ending

vars == <<phase, values, exported, reported, held>>

Init ==
  /\ phase = [j \in Jobs |-> "unknown"]
  /\ values = [j \in Jobs |-> <<>>]
  /\ exported = {} /\ held = {}
  /\ reported = [j \in Jobs |-> <<>>]

Begin(j, n) ==
  /\ phase[j] = "unknown"
  /\ phase' = [phase EXCEPT ![j] = "begun"]
  /\ values' = [values EXCEPT ![j] = [i \in 1..n |-> Pending]]
  /\ UNCHANGED <<exported, reported, held>>

Accept(j) ==
  /\ phase[j] = "begun"
  /\ phase' = [phase EXCEPT ![j] = "exported"]
  /\ exported' = exported \cup {j}
  /\ UNCHANGED <<values, reported, held>>

Refuse(j) ==
  /\ phase[j] = "begun"
  /\ phase' = [phase EXCEPT ![j] = "refused"]
  /\ held' = held \cup {j}
  /\ UNCHANGED <<values, exported, reported>>

(* Items go on while the job is accepted, and after it was refused. *)
Return(j, i, v) ==
  /\ phase[j] \in {"begun", "exported", "refused"}
  /\ i \in DOMAIN values[j] /\ values[j][i] = Pending
  /\ values' = [values EXCEPT ![j][i] = v]
  /\ UNCHANGED <<phase, exported, reported, held>>

Hold(j) ==
  /\ j \in exported
  /\ held' = held \cup {j}
  /\ UNCHANGED <<phase, values, exported, reported>>

Release(j) ==
  /\ j \in exported
  /\ held' = held \ {j}
  /\ UNCHANGED <<phase, values, exported, reported>>

Remove(j) ==
  /\ phase[j] = "exported"
  /\ \A i \in DOMAIN values[j] : values[j][i] # Pending
  /\ phase' = [phase EXCEPT ![j] = "removed"]
  /\ exported' = exported \ {j}
  /\ reported' = [reported EXCEPT ![j] = values[j]]
  /\ UNCHANGED <<values, held>>

Next ==
  \E j \in Jobs :
     \/ \E n \in 1..MaxItems : Begin(j, n)
     \/ Accept(j) \/ Refuse(j)
     \/ \E i \in 1..MaxItems, v \in Values : Return(j, i, v)
     \/ Hold(j) \/ Release(j) \/ Remove(j)

Spec == Init /\ [][Next]_vars

(* An accepted job is removed unless a client holds it. *)
Served == \A j \in Jobs : phase[j] = "exported" ~> (phase[j] = "removed" \/ j \in held)
=============================================================================
