----------------------- MODULE NotificationLifecycle -----------------------
(***************************************************************************)
(* What the attendance app promises about a parent notification, without   *)
(* queue, workers or clock: it is pending until it is sent, skipped or     *)
(* given up; only a retry by an operator makes it pending again; giving up *)
(* needs every attempt; and the attempts are never handed out again.  Once *)
(* an operator has retried a notification that was in the hands of a       *)
(* worker (`wild'), only the bound on the attempts is promised.            *)
(***************************************************************************)
EXTENDS Integers

CONSTANTS Notifications, MaxAttempts

VARIABLES
  phase,  \* "none", "pending", "sent", "skipped" or "dead_letter"
  used,   \* attempts handed out
  wild    \* those an operator retried while a worker had them or after SENT

lifecycleVars == <<phase, used, wild>>

Init ==
  /\ phase = [n \in Notifications |-> "none"]
  /\ used = [n \in Notifications |-> 0]
  /\ wild = {}

Queue(n) ==
  /\ phase[n] = "none"
  /\ phase' = [phase EXCEPT ![n] = "pending"]
  /\ UNCHANGED <<used, wild>>

Try(n) ==
  /\ phase[n] = "pending"
  /\ used[n] < MaxAttempts
  /\ used' = [used EXCEPT ![n] = @ + 1]
  /\ UNCHANGED <<phase, wild>>

Settle(n) ==
  /\ phase[n] = "pending"
  /\ used[n] > 0
  /\ \/ phase' = [phase EXCEPT ![n] = "sent"]
     \/ phase' = [phase EXCEPT ![n] = "skipped"]
     \/ used[n] = MaxAttempts /\ phase' = [phase EXCEPT ![n] = "dead_letter"]
  /\ UNCHANGED <<used, wild>>

Reopen(n) ==
  /\ phase[n] # "none"
  /\ phase' = [phase EXCEPT ![n] = "pending"]
  /\ \/ phase[n] # "sent" /\ UNCHANGED wild
     \/ wild' = wild \cup {n}
  /\ UNCHANGED used

Disturbed(n) ==
  /\ n \in wild
  /\ \E p \in {"pending", "sent", "skipped", "dead_letter"} :
       /\ p = "dead_letter" => used[n] = MaxAttempts
       /\ phase' = [phase EXCEPT ![n] = p]
  /\ UNCHANGED <<used, wild>>

Next == \E n \in Notifications :
          Queue(n) \/ Try(n) \/ Settle(n) \/ Reopen(n) \/ Disturbed(n)

Spec == Init /\ [][Next]_lifecycleVars
=============================================================================
