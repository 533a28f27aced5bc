-------------------------- MODULE ProofVerification --------------------------
(***************************************************************************)
(* How `scan` and `watch` (cli.py) come by the Authorization of each       *)
(* target before they scan anything: the options are checked, and the one  *)
(* proof they name is looked up for every target in turn, each lookup in   *)
(* an event loop of its own (core/authorization.py).  The first proof that *)
(* fails ends the command.                                                 *)
(*                                                                         *)
(* What the outside answers to a lookup is chosen when it is asked.        *)
(*                                                                         *)
(* Definitions named Bug_... are mutated forms used to test properties.    *)
(***************************************************************************)
EXTENDS AuthorizationGate

CONSTANTS
  Typed,          \* the sequence of targets as typed
  Available,      \* the names of the registered analyzers
  CommandLines,   \* the options the command may be given
  Version,        \* "v=wimsalabim1"
  Key,            \* the public key the options name
  TxtAnswers,     \* what a TXT lookup may come to
  SiteAnswers,    \* what a GET of wimsalabim-auth.txt may come to
  Manifests       \* the self-owned manifest, as in AuthorizationGate

VARIABLES
  proving,        \* "checking", "proving", "fetching" (a well-known file),
                  \* "proved" or "refused"
  options,        \* the options given
  manifest,       \* the manifest they name
  at,             \* the index of the target at hand
  authorizations, \* what was obtained for each target
  witnessed       \* history: the targets whose source held a declaration

proofVars == <<proving, options, manifest, at, authorizations, witnessed>>

-----------------------------------------------------------------------------
(* Options                                                                 *)

\* _normalize_target: lower case, and no dots at the end.
NormalizeTarget(name) ==
  LET other == {i \in DOMAIN name : name[i].text # Dot}
      last == IF other = {} THEN 0 ELSE Max(other)
  IN  [i \in 1..last |-> [text |-> name[i].text, upper |-> FALSE]]

Target(i) == NormalizeTarget(Typed[i])

\* _resolve_enabled: --enable wins over --disable.
ResolveEnabled(o) == IF o.enable # {} THEN o.enable ELSE Available \ o.disable

\* _resolve_authorization takes one proof, by this precedence, and falls back
\* on no other.
Mode(o) ==
  IF o.self_owned THEN "self_owned"
  ELSE IF o.dns THEN "dns_txt"
  ELSE IF o.well_known THEN "well_known"
  ELSE "none"

-----------------------------------------------------------------------------
(* Proofs: an Authorization for the target, or none where                  *)
(* AuthorizationProofInvalid is raised.                                    *)

ProofIf(valid, target) == IF valid THEN AuthorizationFor(target) ELSE NoAuthorization

Bug_TokensInAnyRecord(target, answer) ==
  ProofIf(answer.found /\ {Version, Key} \subseteq UNION answer.records, target)

\* verify_dns_txt: one TXT record of _wimsalabim-auth.<target> holds both.
DnsTxtProof(target, answer) ==
  ProofIf(answer.found /\ \E txt \in answer.records : {Version, Key} \subseteq txt, target)

\* verify_well_known: a GET that is answered 200, redirects not followed.  The
\* file is to carry a signature and name its target too; the code reads neither.
WellKnownProof(target, answer) ==
  ProofIf(answer.found /\ answer.status = 200 /\ {Version, Key} \subseteq answer.body, target)

-----------------------------------------------------------------------------
Init ==
  /\ proving = "checking"
  /\ options \in CommandLines
  /\ manifest \in (IF options.self_owned THEN Manifests ELSE {[exists |-> FALSE, lines |-> {}]})
  /\ at = 1
  /\ authorizations = [i \in DOMAIN Typed |-> NoAuthorization]
  /\ witnessed = {}

\* An analyzer nobody registered ends the command.
CheckOptions ==
  /\ proving = "checking"
  /\ proving' = IF options.enable \subseteq Available THEN "proving" ELSE "refused"
  /\ UNCHANGED <<options, manifest, at, authorizations, witnessed>>

\* A declaration, as the code takes it: one text with both tokens, whatever else
\* it says; a line of the manifest that is no comment.
Declares(text) == Version \in text /\ Key \in text
Listed(target) == \E line \in DeclaredIn(manifest) : Lower(line) = Lower(target)

\* The proof of the target at hand is valid, or the command ends.
Conclude(proof, declared) ==
  /\ witnessed' = IF declared THEN witnessed \cup {Target(at)} ELSE witnessed
  /\ IF proof.held \/ Mode(options) = "none"
     THEN /\ authorizations' = [authorizations EXCEPT ![at] = proof]
          /\ at' = at + 1
          /\ proving' = IF at = Len(Typed) THEN "proved" ELSE "proving"
     ELSE proving' = "refused" /\ UNCHANGED <<at, authorizations>>
  /\ UNCHANGED <<options, manifest>>

NoProof ==
  /\ proving = "proving" /\ Mode(options) = "none"
  /\ Conclude(NoAuthorization, FALSE)

ReadManifest ==
  /\ proving = "proving" /\ Mode(options) = "self_owned"
  /\ Conclude(SelfOwnedProof(Target(at), manifest), manifest.exists /\ Listed(Target(at)))

LookUpTxt ==
  /\ proving = "proving" /\ Mode(options) = "dns_txt"
  /\ \E answer \in TxtAnswers :
       Conclude(DnsTxtProof(Target(at), answer),
                answer.found /\ \E txt \in answer.records : Declares(txt))

\* The request for the file is sent.
AskWellKnown ==
  /\ proving = "proving" /\ Mode(options) = "well_known"
  /\ proving' = "fetching"
  /\ UNCHANGED <<options, manifest, at, authorizations, witnessed>>

\* It is answered or fails.  The client's timeout is for each connect, read and
\* write, not for the whole: a server that keeps sending is listened to.
GetWellKnown ==
  /\ proving = "fetching"
  /\ \E answer \in SiteAnswers :
       Conclude(WellKnownProof(Target(at), answer),
                answer.found /\ answer.status = 200 /\ Declares(answer.body))

ProofStep ==
  \/ CheckOptions \/ NoProof \/ ReadManifest \/ LookUpTxt
  \/ AskWellKnown \/ GetWellKnown

Proved == proving = "proved"

-----------------------------------------------------------------------------
TypeOK ==
  /\ proving \in {"checking", "proving", "fetching", "proved", "refused"}
  /\ options \in CommandLines
  /\ at \in 1..(Len(Typed) + 1)
  /\ witnessed \subseteq {Target(i) : i \in DOMAIN Typed}
=============================================================================
