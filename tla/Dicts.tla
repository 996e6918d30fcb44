------------------------------- MODULE Dicts -------------------------------
(***************************************************************************)
(* Python dictionaries: functions whose domain is the set of keys present. *)
(* (The operators @@ and :> of TLC say the same as Put, in a form the      *)
(* provers do not take.)                                                   *)
(***************************************************************************)
EXTENDS Functions

EmptyDict == [k \in {} |-> {}]

(* d[key] = value *)
Put(d, key, value) ==
  [k \in DOMAIN d \cup {key} |-> IF k = key THEN value ELSE d[k]]

(* d.pop(key, None) *)
Pop(d, key) == Restrict(d, DOMAIN d \ {key})

(* d.get(key, default) *)
Get(d, key, default) == IF key \in DOMAIN d THEN d[key] ELSE default
=============================================================================
