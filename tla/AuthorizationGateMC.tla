------------------------- MODULE AuthorizationGateMC -------------------------
(***************************************************************************)
(* Checks the gate on every pair of names of up to MaxLength characters: a *)
(* behaviour writes an authorized and a requested name, one character at a *)
(* time.                                                                   *)
(***************************************************************************)
EXTENDS AuthorizationGate

CONSTANTS Characters,   \* the characters names are written with
          MaxLength     \* how many characters a name has at most

VARIABLES authorized, requested

vars == <<authorized, requested>>

Init == authorized = <<>> /\ requested = <<>>

ExtendAuthorized == /\ requested = <<>>
                    /\ Len(authorized) < MaxLength
                    /\ \E c \in Characters : authorized' = Append(authorized, c)
                    /\ UNCHANGED requested

ExtendRequested == /\ Len(requested) < MaxLength
                   /\ \E c \in Characters : requested' = Append(requested, c)
                   /\ UNCHANGED authorized

Next == ExtendAuthorized \/ ExtendRequested

Spec == Init /\ [][Next]_vars

Small(t) == [text |-> t, upper |-> FALSE]
MCCharacters == {Small("a"), [text |-> "a", upper |-> TRUE], Small(Dot), Small(Hash)}

-----------------------------------------------------------------------------
\* _hosts_match compares characters, and what it decides is about labels: it
\* covers the authorized host and the hosts below it, whole labels only - never
\* a parent, and never a sibling whose name happens to end in the same letters.
ScopeIsSubtree ==
  HostsMatch(authorized, requested) <=> IsWithin(Normalized(requested), Normalized(authorized))

\* How a name is written - capitals, dots at its ends - never decides whether
\* _hosts_match covers it.
FormIsIrrelevant ==
  LET Plain(name) == LET n == Normalized(name)
                     IN  [i \in DOMAIN n |-> Small(n[i])]
  IN  /\ HostsMatch(authorized, requested)
           <=> HostsMatch(Plain(authorized), Plain(requested))
      /\ HostsMatch(authorized, requested)
           <=> HostsMatch(Append(authorized, Small(Dot)), <<Small(Dot)>> \o requested)

\* Authority is inherited all the way down: what is in scope of a host in
\* scope of the authorized one is in scope of the authorized one.
ScopeIsInherited ==
  \A c \in Characters :
    LET below == <<c, Small(Dot)>> \o requested
    IN  /\ HostsMatch(authorized, requested)
        /\ HostsMatch(requested, below)
        => HostsMatch(authorized, below)

\* A manifest's declaration and the gate read names by rules of their own - the
\* manifest verbatim, the gate by suffix; chained, they let an active analyzer
\* at nothing outside the subtrees the manifest's own lines name, comments apart.
GrantStaysInManifest ==
  LET manifest == [exists |-> TRUE, lines |-> {authorized}]
  IN  \A target \in {authorized, requested} :
        Admits(SelfOwnedProof(target, manifest), FALSE, requested, "active")
          => /\ authorized # <<>> /\ authorized[1].text # Hash
             /\ IsWithin(Normalized(requested), Normalized(authorized))
=============================================================================
