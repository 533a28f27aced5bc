------------------------------ MODULE Identity ------------------------------
(***************************************************************************)
(* What the commands that handle signing keys promise together: a keys     *)
(* directory comes to hold one identity, once, and every command that uses *)
(* keys of that directory uses both halves of that identity.  KeyStore     *)
(* implements it.                                                          *)
(***************************************************************************)
CONSTANTS
  Commands,   \* the commands that use the directory
  Keys,       \* the key pairs there may be
  Null        \* no key

VARIABLES
  identity,   \* the key pair the directory stands for, or Null
  used        \* the halves each command that is done has used

vars == <<identity, used>>

NoPair == [private |-> Null, public |-> Null]

Init == identity = Null /\ used = [c \in Commands |-> NoPair]

\* The first command to need keys makes them.
Establish(k) == identity = Null /\ identity' = k /\ UNCHANGED used

\* A command signs with, or shows, the identity.
Use(c) ==
  /\ identity # Null
  /\ used[c] = NoPair
  /\ used' = [used EXCEPT ![c] = [private |-> identity, public |-> identity]]
  /\ UNCHANGED identity

Next == (\E k \in Keys : Establish(k)) \/ (\E c \in Commands : Use(c))

Spec == Init /\ [][Next]_vars
=============================================================================
