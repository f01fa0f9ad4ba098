------------------------------- MODULE Mutex -------------------------------
(***************************************************************************)
(* What the host-wide operation lock promises its callers: at most one     *)
(* operation owns it, an owner loses it only by dropping it or by dying,   *)
(* and from the moment the owner published its name until it withdraws it  *)
(* or dies, the name stands.  The name of an owner that died may be read   *)
(* until the lock is free and somebody looks (Forget) or takes it (Clear). *)
(***************************************************************************)
CONSTANTS Callers,   \* threads of control that use the lock
          NoCaller   \* "nobody"

VARIABLES owner,     \* who owns the lock
          name,      \* the name others read
          published  \* is it the owner's, put there by the owner?

vars == <<owner, name, published>>

Init == owner = NoCaller /\ name = NoCaller /\ published = FALSE

Take(c) == owner = NoCaller /\ owner' = c /\ UNCHANGED <<name, published>>

Clear(c) == owner = c /\ ~published /\ name' = NoCaller /\ UNCHANGED <<owner, published>>

Publish(c) == owner = c /\ ~published /\ name' = c /\ published' = TRUE /\ UNCHANGED owner

Withdraw(c) ==
  owner = c /\ published /\ name' = NoCaller /\ published' = FALSE /\ UNCHANGED owner

\* Dropped after the name was withdrawn, or lost by dying with the name left.
Lose(c) == owner = c /\ owner' = NoCaller /\ published' = FALSE /\ UNCHANGED name

Forget == owner = NoCaller /\ name' = NoCaller /\ UNCHANGED <<owner, published>>

Next ==
  \/ Forget
  \/ \E c \in Callers : Take(c) \/ Clear(c) \/ Publish(c) \/ Withdraw(c) \/ Lose(c)

Spec == Init /\ [][Next]_vars
=============================================================================
