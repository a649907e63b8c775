------------------------------- MODULE KeySet -------------------------------
(***************************************************************************)
(* What a reference list promises, with requests, rows and their spelling  *)
(* left out: a set of keys, each of them on or off.  Keys are entered      *)
(* together or not at all, never over a key that is there; one key is      *)
(* taken out or edited at a time.                                          *)
(*                                                                         *)
(* ReferenceLists implements this: see ListRefinement there.               *)
(***************************************************************************)
CONSTANT Keys

VARIABLE listed     \* of each key: absent, on or off

Init == listed \in [Keys -> {"absent", "on", "off"}]

Enter(S, s) ==
    /\ \A k \in S : listed[k] = "absent"
    /\ listed' = [k \in Keys |-> IF k \in S THEN s ELSE listed[k]]

TakeOut(k) ==
    /\ listed[k] # "absent"
    /\ listed' = [listed EXCEPT ![k] = "absent"]

\* The key may become another one, and be switched on or off with that.
Edit(k, new, s) ==
    /\ listed[k] # "absent"
    /\ new = k \/ listed[new] = "absent"
    /\ listed' = [listed EXCEPT ![k] = "absent", ![new] = s]

Next ==
    \/ \E S \in SUBSET Keys, s \in {"on", "off"} : Enter(S, s)
    \/ \E k \in Keys : TakeOut(k)
    \/ \E k, new \in Keys, s \in {"on", "off"} : Edit(k, new, s)

Spec == Init /\ [][Next]_listed
=============================================================================
