-------------------------------- MODULE OnceOnly --------------------------------
(***************************************************************************)
(* What an idempotency key promises: under one key at most one effect      *)
(* happens, and whoever repeats the command is told of that effect, until  *)
(* the key is forgotten.                                                   *)
(***************************************************************************)
CONSTANT Keys
VARIABLES
    done,  \* the effects of a key
    told   \* the effects its callers were told of

vars == <<done, told>>

Init == done = [k \in Keys |-> {}] /\ told = [k \in Keys |-> {}]

Do(k) ==
    /\ done[k] = {}
    /\ \E x \in done'[k] : done' = [done EXCEPT ![k] = {x}]
    /\ UNCHANGED told

Tell(k) == told' = [told EXCEPT ![k] = done[k]] /\ UNCHANGED done

Forget(k) == done' = [done EXCEPT ![k] = {}] /\ told' = [told EXCEPT ![k] = {}]

Next == \E k \in Keys : Do(k) \/ Tell(k) \/ Forget(k)

Spec == Init /\ [][Next]_vars
================================================================================
