----------------------------- MODULE TrustedCAs -----------------------------
(***************************************************************************)
(* What the CA injectors together do for the Provider object, without the  *)
(* replicas: the object holds a set of certificates, an update adds a      *)
(* ca.crt the secret has or had and leaves out nothing but expired         *)
(* certificates, all in one step, and Gatekeeper trusts what the object    *)
(* held when it last looked.  CAInjector, in which replicas read, merge    *)
(* and write one after the other, conflict, fail and are killed in         *)
(* between, implements this specification.                                 *)
(***************************************************************************)
EXTENDS Naturals

CONSTANTS
  Certificates,
  Installed,     \* the sets of certificates the operator may have installed
  Secrets        \* what each version of the secret holds, from 1

VARIABLES
  held,      \* the certificates of the Provider object
  trusted,   \* those Gatekeeper trusts
  expired,   \* those whose NotAfter has passed
  rotation   \* the version of the secret

vars == <<held, trusted, expired, rotation>>

Init == held \in Installed /\ trusted = held /\ expired = {} /\ rotation = 1

NewSecret == rotation' = rotation + 1 /\ UNCHANGED <<held, trusted, expired>>

Expires ==
  /\ \E c \in Certificates : expired' = expired \cup {c}
  /\ UNCHANGED <<held, trusted, rotation>>

\* An update that would leave nothing is not made.
Update ==
  /\ \E i \in 1..rotation, gone \in SUBSET expired :
       held' = (held \cup Secrets[i]) \ gone
  /\ held' # {}
  /\ UNCHANGED <<trusted, expired, rotation>>

PickUp == trusted' = held /\ UNCHANGED <<held, expired, rotation>>

Next == NewSecret \/ Expires \/ Update \/ PickUp

Spec == Init /\ [][Next]_vars
=============================================================================
