------------------------------ MODULE KvStore ------------------------------
(***************************************************************************)
(* What a durable key-value store promises its callers: while it is up it  *)
(* has every acknowledged write and nothing else, and a restart gives back *)
(* the same, except that a mutation submitted and never acknowledged may   *)
(* turn up in it until the key is written again.  FileKvEngine implements  *)
(* it.                                                                     *)
(***************************************************************************)
CONSTANTS Key, Value, NoValue

VARIABLES
  up,
  kv,     \* what a Get answers; while down, what it will answer
  acked,  \* the value of each key's last acknowledged write
  maybe   \* mutations of unknown outcome: <<key, value>>

vars == <<up, kv, acked, maybe>>

Content == Value \cup {NoValue}

Init ==
  /\ up = FALSE /\ maybe = {}
  /\ kv = [k \in Key |-> NoValue] /\ acked = kv

Submit ==
  /\ up
  /\ maybe \subseteq maybe' /\ maybe' \subseteq Key \X Content
  /\ UNCHANGED <<up, kv, acked>>

\* The map m with the new contents cmd of some of its keys.
Overwrite(cmd, m) == [k \in Key |-> IF k \in DOMAIN cmd THEN cmd[k] ELSE m[k]]

Acknowledge(cmd) ==
  /\ up /\ UNCHANGED up
  /\ acked' = Overwrite(cmd, acked)
  /\ maybe' = {m \in maybe : m[1] \notin DOMAIN cmd}
  /\ kv' = Overwrite(cmd, kv)

Start ==
  /\ ~up /\ up' = TRUE
  /\ UNCHANGED <<kv, acked, maybe>>

Stop ==
  /\ up /\ up' = FALSE
  /\ \A k \in Key : kv'[k] = kv[k] \/ <<k, kv'[k]>> \in maybe
  /\ DOMAIN kv' = Key /\ maybe' = {}
  /\ UNCHANGED acked

Next ==
  \/ Submit \/ Start \/ Stop
  \/ \E keys \in SUBSET Key : \E cmd \in [keys -> Content] : Acknowledge(cmd)

Spec == Init /\ [][Next]_vars
=============================================================================
