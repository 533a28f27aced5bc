------------------------------ MODULE KeyStore ------------------------------
(***************************************************************************)
(* core/crypto.py under the commands of cli.py that use it: `scan --sign`  *)
(* loads the key pair of a directory or makes one, `keys init` makes one   *)
(* and `keys show` loads it; `verify` checks a report that was signed.     *)
(*                                                                         *)
(* The pair lies in two files, signing.key and signing.pub, written one    *)
(* after the other; each write truncates the file and then fills it.  A    *)
(* file is absent, a key - named by the command that made it - or Torn:    *)
(* anything that is no whole PEM document.  A command may be killed, or    *)
(* end by an OSError, before any of its steps.                             *)
(*                                                                         *)
(* Definitions named Bug_... are mutated forms used to test properties.    *)
(***************************************************************************)
CONSTANTS
  Commands,       \* the runs of `scan --sign`, `keys init` and `keys show`
  Bodies,         \* what a report may say
  Null,           \* JSON null; no key
  FirstRunAlone   \* whether no command overlaps one that has yet to make the pair

Absent == "absent"
Torn == "torn"

ASSUME KeyStoreAssumption ==
  /\ Commands \cap {Absent, Torn, Null} = {}
  /\ FirstRunAlone \in BOOLEAN

VARIABLES
  priv,       \* signing.key
  pub,        \* signing.pub
  protected,  \* whether signing.key has mode 0600
  kind,       \* what each command is: "sign", "init" or "show"
  pc,         \* where it is
  held,       \* the SigningKeyPair it has in memory
  document    \* the JSON report it rendered

vars == <<priv, pub, protected, kind, pc, held, document>>

Kinds == {"sign", "init", "show"}
Saving == {"opening private", "writing private", "opening public",
           "writing public", "protecting"}
Busy == {"looking", "reading private", "reading public", "using"} \cup Saving
Ended == {"done", "failed", "killed"}

NoPair == [private |-> Null, public |-> Null]
\* generate_keypair() in command c: no two commands make the same keys.
PairOf(c) == [private |-> c, public |-> c]

-----------------------------------------------------------------------------
(* Signed reports                                                          *)

UnsignedReport(body) ==
  [body |-> body, signature |-> Null, signing_pubkey |-> Null, ots_proof_path |-> Null]

\* _unsigned_view: what is canonicalized to be signed.
UnsignedView(report) ==
  [f \in DOMAIN report \ {"signature", "signing_pubkey", "ots_proof_path"} |-> report[f]]

\* An Ed25519 signature is good for one key and one sequence of bytes.
SignatureOf(key, view) == [by |-> key, over |-> view]

SignedBy(pair, report) ==
  [report EXCEPT !.signature = SignatureOf(pair.private, UnsignedView(report)),
                 !.signing_pubkey = pair.public]

Bug_VerifyKeepsAnchor(report) ==
  IF report.signature = [by |-> report.signing_pubkey,
                         over |-> [f \in DOMAIN report \ {"signature", "signing_pubkey"}
                                     |-> report[f]]]
  THEN "valid" ELSE "invalid"

\* The verify command.
Verify(report) ==
  IF report.signing_pubkey = Null \/ report.signature = Null THEN "refused"
  ELSE IF report.signature = SignatureOf(report.signing_pubkey, UnsignedView(report))
       THEN "valid" ELSE "invalid"

\* JSON null is no signature.
ASSUME NullAssumption ==
  \A k \in Commands, body \in Bodies :
    SignatureOf(k, UnsignedView(UnsignedReport(body))) # Null

-----------------------------------------------------------------------------
Init ==
  /\ priv = Absent /\ pub = Absent
  /\ protected = FALSE
  /\ kind \in [Commands -> Kinds]
  /\ pc = [c \in Commands |-> "idle"]
  /\ held = [c \in Commands |-> NoPair]
  /\ document = [c \in Commands |-> Null]

Established == priv \in Commands /\ pub = priv

Goto(c, place) == pc' = [pc EXCEPT ![c] = place]

\* The command comes to its keys (`scan --sign`: once its scan has returned).
Begin(c) ==
  /\ pc[c] = "idle"
  /\ FirstRunAlone => Established \/ \A d \in Commands : pc[d] \notin Busy
  /\ Goto(c, "looking")
  /\ UNCHANGED <<priv, pub, protected, kind, held, document>>

Missing == priv = Absent \/ pub = Absent

\* The command makes a new pair and goes on to save it.
Generate(c) ==
  /\ held' = [held EXCEPT ![c] = PairOf(c)]
  /\ Goto(c, "opening private")

Bug_InitOverwrites(c) == kind[c] = "init" \/ (kind[c] = "sign" /\ Missing)

Bug_PublicFirst(c) ==
  /\ pc[c] = "looking"
  /\ held' = [held EXCEPT ![c] = PairOf(c)]
  /\ Goto(c, "opening public")
  /\ UNCHANGED <<priv, pub, protected, kind, document>>

\* Are the files there?  load_keypair wants both, and `scan --sign` makes a
\* pair when one is missing; `keys init` looks at the private file only.
\* (Files never go away, so looking at both at once is no different.)
Loads(c) == kind[c] # "init" /\ ~Missing
Makes(c) == IF kind[c] = "init" THEN priv = Absent ELSE kind[c] = "sign" /\ Missing

Look(c) ==
  /\ pc[c] = "looking"
  /\ \/ Makes(c) /\ Generate(c)
     \/ Loads(c) /\ Goto(c, "reading private") /\ UNCHANGED held
     \/ ~Makes(c) /\ ~Loads(c) /\ Goto(c, "failed") /\ UNCHANGED held
  /\ UNCHANGED <<priv, pub, protected, kind, document>>

\* load_keypair reads and parses one file and then the other; what is torn
\* does not parse.
ReadPrivate(c) ==
  /\ pc[c] = "reading private"
  /\ IF priv \in Commands
     THEN /\ Goto(c, "reading public")
          /\ held' = [held EXCEPT ![c] = [private |-> priv, public |-> Null]]
     ELSE Goto(c, "failed") /\ UNCHANGED held
  /\ UNCHANGED <<priv, pub, protected, kind, document>>

ReadPublic(c) ==
  /\ pc[c] = "reading public"
  /\ IF pub \in Commands
     THEN /\ Goto(c, "using")
          /\ held' = [held EXCEPT ![c] = [private |-> held[c].private, public |-> pub]]
     ELSE Goto(c, "failed") /\ UNCHANGED held
  /\ UNCHANGED <<priv, pub, protected, kind, document>>

\* save_keypair, step by step.  A file that is new has the mode of the umask.
OpenPrivate(c) ==
  /\ pc[c] = "opening private"
  /\ priv' = Torn
  /\ protected' = (protected /\ priv # Absent)
  /\ Goto(c, "writing private")
  /\ UNCHANGED <<pub, kind, held, document>>

WritePrivate(c) ==
  /\ pc[c] = "writing private"
  /\ priv' = held[c].private
  /\ Goto(c, "opening public")
  /\ UNCHANGED <<pub, protected, kind, held, document>>

OpenPublic(c) ==
  /\ pc[c] = "opening public"
  /\ pub' = Torn
  /\ Goto(c, "writing public")
  /\ UNCHANGED <<priv, protected, kind, held, document>>

WritePublic(c) ==
  /\ pc[c] = "writing public"
  /\ pub' = held[c].public
  /\ Goto(c, "protecting")
  /\ UNCHANGED <<priv, protected, kind, held, document>>

Protect(c) ==
  /\ pc[c] = "protecting"
  /\ protected' = TRUE
  /\ Goto(c, "using")
  /\ UNCHANGED <<priv, pub, kind, held, document>>

\* The command signs and renders its report, or prints the public key.
Use(c) ==
  /\ pc[c] = "using"
  /\ Goto(c, "done")
  /\ IF kind[c] = "sign"
     THEN \E body \in Bodies :
            document' = [document EXCEPT ![c] = SignedBy(held[c], UnsignedReport(body))]
     ELSE UNCHANGED document
  /\ UNCHANGED <<priv, pub, protected, kind, held>>

\* The command is killed, or fails by an OSError (disk full, no permission).
Interrupt(c) ==
  /\ pc[c] \in Busy
  /\ Goto(c, "killed")
  /\ UNCHANGED <<priv, pub, protected, kind, held, document>>

Terminated == (\A c \in Commands : pc[c] \in Ended) /\ UNCHANGED vars

Step(c) ==
  \/ Begin(c) \/ Look(c) \/ ReadPrivate(c) \/ ReadPublic(c)
  \/ OpenPrivate(c) \/ WritePrivate(c) \/ OpenPublic(c) \/ WritePublic(c)
  \/ Protect(c) \/ Use(c) \/ Interrupt(c)

Next == (\E c \in Commands : Step(c)) \/ Terminated

Spec == Init /\ [][Next]_vars

-----------------------------------------------------------------------------
(* What the key commands are to guarantee                                  *)

Files == {Absent, Torn} \cup Commands
Pairs == [private : Commands \cup {Null}, public : Commands \cup {Null}]

\* Every variable holds a value the code can give it, and the public file is
\* never there without the private one, which is written first.
TypeOK ==
  /\ priv \in Files /\ pub \in Files
  /\ protected \in BOOLEAN
  /\ kind \in [Commands -> Kinds]
  /\ pc \in [Commands -> {"idle"} \cup Busy \cup Ended]
  /\ held \in [Commands -> Pairs]
  /\ DOMAIN document = Commands
  /\ priv = Absent => pub = Absent

\* `verify` calls every report that `scan --sign` rendered valid, also after
\* an OpenTimestamps proof was added to it, and no longer once its body or
\* its public key is another - whichever runs made, saved and loaded the keys
\* and wherever any of them was interrupted.
SignedReportVerifies ==
  \A c \in Commands : document[c] # Null =>
    /\ Verify(document[c]) = "valid"
    /\ Verify([document[c] EXCEPT !.ots_proof_path = "proof"]) = "valid"
    /\ \A body \in Bodies \ {document[c].body} :
         Verify([document[c] EXCEPT !.body = body]) = "invalid"
    /\ \A k \in Commands \ {document[c].signing_pubkey} :
         Verify([document[c] EXCEPT !.signing_pubkey = k]) = "invalid"

\* The pair a command saved to the end is what the directory holds ever after,
\* the private key with mode 0600: no later command replaces or tears it.
SaveIsKept ==
  \A c \in Commands :
    pc[c] \in {"using", "done"} /\ held[c] = PairOf(c) =>
      priv = c /\ pub = c /\ protected

\* The identity the directory stands for, and what the commands used.
TheIdentity == IF Established THEN pub ELSE Null
UsedPairs == [c \in Commands |-> IF pc[c] = "done" THEN held[c] ELSE NoPair]

Promise == INSTANCE Identity WITH
  Keys <- Commands, identity <- TheIdentity, used <- UsedPairs

\* Through every interrupted save the directory has one identity at most, and
\* every command that succeeds uses both its halves.
ImplementsIdentity == Promise!Spec
=============================================================================
