-------------------------- MODULE AuthorizationGate --------------------------
(***************************************************************************)
(* core/authorization.py: the gate every analyzer passes before it is      *)
(* launched, and the local manifest an operator declares targets in.       *)
(*                                                                         *)
(* A host name as typed or configured is a sequence of characters, each    *)
(* [text, upper]: the letter or sign, and whether it is a capital.  The    *)
(* code compares names character by character, and what it means by them   *)
(* are the labels between the dots: PlacedLabels.                          *)
(*                                                                         *)
(* Definitions named Bug_... are mutated forms used to test properties.    *)
(***************************************************************************)
EXTENDS Integers, Sequences, FiniteSetsExt

LegalClasses == {"passive", "active", "intrusive"}

-----------------------------------------------------------------------------
(* Host names                                                              *)

Dot == "."
Hash == "#"

\* str.lower()
Lower(name) == [i \in DOMAIN name |-> name[i].text]

\* str.strip(".") of a lowered name
StripDots(host) ==
  LET other == {i \in DOMAIN host : host[i] # Dot}
  IN  IF other = {} THEN <<>> ELSE SubSeq(host, Min(other), Max(other))

Bug_KeepDots(name) == Lower(name)

Normalized(name) == StripDots(Lower(name))

\* str.endswith
EndsWith(host, end) ==
  /\ Len(end) <= Len(host)
  /\ SubSeq(host, Len(host) - Len(end) + 1, Len(host)) = end

Bug_NoDot(r, a) == EndsWith(r, a)

Bug_DirectSubdomainOnly(r, a) ==
  /\ EndsWith(r, <<Dot>> \o a)
  /\ \A i \in 1..(Len(r) - Len(a) - 1) : r[i] # Dot

\* r.endswith("." + a)
EndsInDomain(r, a) == EndsWith(r, <<Dot>> \o a)

\* _hosts_match
HostsMatch(authorized, requested) ==
  LET a == Normalized(authorized)
      r == Normalized(requested)
  IN  r = a \/ EndsInDomain(r, a)

-----------------------------------------------------------------------------
(* The gate                                                                *)

\* The Authorization a command holds; target matters only when it is held.
NoAuthorization == [held |-> FALSE, target |-> <<>>]
AuthorizationFor(target) == [held |-> TRUE, target |-> target]

Bug_AnyProofWillDo(authz, allowIntrusive, target, legalClass) ==
  legalClass = "passive" \/ authz.held

\* AuthorizationGate.check returns (TRUE) or raises AuthorizationDenied.
Admits(authz, allowIntrusive, target, legalClass) ==
  \/ legalClass = "passive"
  \/ /\ authz.held
     /\ HostsMatch(authz.target, target)
     /\ legalClass = "intrusive" => allowIntrusive

-----------------------------------------------------------------------------
(* The self-owned manifest: whether the file is there, and its lines, as    *)
(* names.  (The blanks around a line are left out.)                        *)

\* A line that declares something: not empty, and no comment.
DeclaredIn(manifest) ==
  {line \in manifest.lines : line # <<>> /\ line[1].text # Hash}

Bug_SubstringOfText(target, manifest) ==
  IF /\ manifest.exists
     /\ \E line \in manifest.lines : \E i \in 1..(Len(line) - Len(target) + 1) :
          SubSeq(Lower(line), i, i + Len(target) - 1) = Lower(target)
  THEN AuthorizationFor(target)
  ELSE NoAuthorization

\* authorize_self_owned: the target must be listed, up to letter case and
\* nothing else; otherwise AuthorizationProofInvalid is raised.
SelfOwnedProof(target, manifest) ==
  IF manifest.exists /\ \E line \in DeclaredIn(manifest) : Lower(line) = Lower(target)
  THEN AuthorizationFor(target)
  ELSE NoAuthorization

-----------------------------------------------------------------------------
(* What names mean                                                         *)

\* Where the labels of a name begin and end: its dots and its two ends.
Cuts(host) == {0, Len(host) + 1} \cup {i \in DOMAIN host : host[i] = Dot}

\* The labels of a name, each between one cut and the next.
Labels(host) ==
  {c \in Cuts(host) \X Cuts(host) :
     c[1] < c[2] /\ \A k \in Cuts(host) : ~(c[1] < k /\ k < c[2])}

\* Each label with its distance from the end of the name.
PlacedLabels(host) ==
  {<<Len(host) + 1 - c[2], SubSeq(host, c[1] + 1, c[2] - 1)>> : c \in Labels(host)}

\* r is a, or a host below it: every label of a is a whole label of r, at the
\* same distance from the end.
IsWithin(r, a) == PlacedLabels(a) \subseteq PlacedLabels(r)
=============================================================================
