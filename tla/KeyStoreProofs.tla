---------------------------- MODULE KeyStoreProofs ----------------------------
(***************************************************************************)
(* For any number of commands of any kind, interrupted anywhere: if none   *)
(* overlaps one that has yet to make the pair, every signed report         *)
(* verifies, a saved pair stays, and KeyStore implements Identity.         *)
(***************************************************************************)
EXTENDS KeyStore, TLAPS

Writing == {"opening private", "writing private", "opening public", "writing public"}

\* Until the pair is there, one command at most is at work.
OneAtWork ==
  ~Established => \A c, d \in Commands : pc[c] \in Busy /\ pc[d] \in Busy => c = d

\* A command replaces files only while there is no public key, and what it
\* has written so far is its own.
WritersOwnFiles ==
  \A c \in Commands :
    /\ pc[c] \in Saving => held[c] = PairOf(c)
    /\ pc[c] \in Writing => pub \notin Commands
    /\ pc[c] \in {"opening public", "writing public"} => priv = c
    /\ pc[c] = "protecting" => pub = c

\* A public key is that of the private key beside it, its maker is past the
\* writing, and has protected the private key once it uses the pair.
PublicIsOfPrivate ==
  \A c \in Commands : pub = c =>
    /\ priv = c
    /\ pc[c] \in {"protecting", "using", "done", "killed"}
    /\ pc[c] \in {"using", "done"} => protected

\* What a command has read is what the files hold.
ReadersAgree ==
  \A c \in Commands :
    /\ pc[c] = "reading public" => priv \in Commands /\ held[c].private = priv
    /\ pc[c] \in {"using", "done"} => pub \in Commands /\ held[c] = PairOf(pub)

DocumentsAreSigned ==
  \A c \in Commands : document[c] # Null =>
    /\ pc[c] = "done"
    /\ \E body \in Bodies : document[c] = SignedBy(held[c], UnsignedReport(body))

IInv ==
  /\ TypeOK
  /\ OneAtWork
  /\ WritersOwnFiles
  /\ PublicIsOfPrivate
  /\ ReadersAgree
  /\ DocumentsAreSigned

LEMMA InitIInv == Init => IInv
<1> SUFFICES ASSUME Init PROVE IInv
  OBVIOUS
<1> USE KeyStoreAssumption
    DEF Init, Absent, Torn, Busy, Saving, Writing, Ended, NoPair
<1>1. TypeOK
  BY DEF TypeOK, Files, Kinds, Pairs
<1>2. OneAtWork
  BY DEF OneAtWork, Established
<1>3. WritersOwnFiles
  BY DEF WritersOwnFiles
<1>4. PublicIsOfPrivate
  BY DEF PublicIsOfPrivate
<1>5. ReadersAgree
  BY DEF ReadersAgree
<1>6. DocumentsAreSigned
  BY DEF DocumentsAreSigned
<1>7. QED
  BY <1>1, <1>2, <1>3, <1>4, <1>5, <1>6 DEF IInv

\* The pair, once there, is only replaced by a command that finds no public key.
LEMMA StaysAtWork ==
  ASSUME OneAtWork, Established => Established',
         \A d \in Commands : pc'[d] \in Busy => pc[d] \in Busy
  PROVE  OneAtWork'
  BY DEF OneAtWork

\* A step of a command that has no document yet leaves the documents signed.
LEMMA DocumentsStay ==
  ASSUME DocumentsAreSigned, UNCHANGED document,
         NEW c \in Commands, pc[c] # "done",
         \A d \in Commands \ {c} : pc'[d] = pc[d] /\ held'[d] = held[d]
  PROVE  DocumentsAreSigned'
<1> SUFFICES ASSUME NEW d \in Commands, document[d] # Null
             PROVE  /\ pc'[d] = "done"
                    /\ \E body \in Bodies : document[d] = SignedBy(held'[d], UnsignedReport(body))
  BY DEF DocumentsAreSigned
<1>1. d # c
  BY DEF DocumentsAreSigned
<1> QED
  BY <1>1 DEF DocumentsAreSigned

LEMMA PairsInMemory ==
  /\ NoPair \in Pairs
  /\ \A k \in Commands :
       /\ PairOf(k) \in Pairs /\ PairOf(k).private = k /\ PairOf(k).public = k
       /\ [private |-> k, public |-> Null] \in Pairs
       /\ [private |-> k, public |-> Null].private = k
       /\ [private |-> k, public |-> k] = PairOf(k)
  BY DEF NoPair, Pairs, PairOf

LEMMA WritesAlone ==
  ASSUME OneAtWork, WritersOwnFiles, NEW c \in Commands, pc[c] \in Writing,
         NEW d \in Commands, pc[d] \in Busy
  PROVE  d = c
  BY DEF OneAtWork, WritersOwnFiles, Established, Writing, Busy, Saving

\* One step of one command: an invariant conjunct at a time.
LEMMA NextIInv == ASSUME FirstRunAlone, IInv, [Next]_vars PROVE IInv'
<1> USE KeyStoreAssumption DEF Absent, Torn, Busy, Saving, Writing, Ended
<1>0. TypeOK /\ OneAtWork /\ WritersOwnFiles /\ PublicIsOfPrivate /\ ReadersAgree
      /\ DocumentsAreSigned
  BY DEF IInv
<1>1. CASE UNCHANGED vars
  BY <1>0, <1>1 DEF vars, IInv, TypeOK, OneAtWork, WritersOwnFiles, PublicIsOfPrivate,
     ReadersAgree, DocumentsAreSigned, Established
<1>2. ASSUME NEW c \in Commands, Begin(c) PROVE IInv'
  <2>1. TypeOK'
    BY <1>0, <1>2 DEF TypeOK, Goto, Files, Kinds, Begin
  <2>2. OneAtWork'
    <3>1. Established' <=> Established
      BY <1>2 DEF Begin, Established
    <3>2. ASSUME ~Established, NEW d \in Commands, pc'[d] \in Busy PROVE d = c
      BY <1>0, <1>2, <3>2 DEF TypeOK, Goto, Begin
    <3>3. QED
      BY <3>1, <3>2 DEF OneAtWork
  <2>3. WritersOwnFiles'
    BY <1>0, <1>2 DEF TypeOK, Goto, WritersOwnFiles, PublicIsOfPrivate, Begin
  <2>4. PublicIsOfPrivate'
    BY <1>0, <1>2 DEF TypeOK, Goto, PublicIsOfPrivate, WritersOwnFiles, Begin
  <2>5. ReadersAgree'
    BY <1>0, <1>2 DEF TypeOK, Goto, ReadersAgree, PublicIsOfPrivate, WritersOwnFiles, Begin
  <2>6. DocumentsAreSigned'
    BY <1>0, <1>2, DocumentsStay DEF TypeOK, Goto, Begin
  <2>7. QED
    BY <2>1, <2>2, <2>3, <2>4, <2>5, <2>6 DEF IInv
<1>3. ASSUME NEW c \in Commands, Look(c) PROVE IInv'
  <2>a. /\ held' \in [Commands -> Pairs]
        /\ pc' \in [Commands -> {"idle"} \cup Busy \cup Ended]
        /\ \A d \in Commands \ {c} : pc'[d] = pc[d] /\ held'[d] = held[d]
        /\ \/ pub \notin Commands /\ pc'[c] = "opening private" /\ held'[c] = PairOf(c)
           \/ pc'[c] \in {"reading private", "failed"} /\ held'[c] = held[c]
    <3>1. Makes(c) => pub \notin Commands
      BY <1>0 DEF Makes, Missing, TypeOK
    <3>2. held \in [Commands -> Pairs] /\ pc \in [Commands -> {"idle"} \cup Busy \cup Ended]
      BY <1>0 DEF TypeOK
    <3>3. CASE Makes(c) /\ Generate(c)
      BY <3>1, <3>2, <3>3, PairsInMemory DEF Generate, Goto
    <3>4. CASE UNCHANGED held /\ (Goto(c, "reading private") \/ Goto(c, "failed"))
      BY <3>2, <3>4 DEF Goto
    <3>5. QED
      BY <1>3, <3>3, <3>4 DEF Look
  <2>b. pc[c] = "looking" /\ UNCHANGED <<priv, pub, protected, kind, document>>
    BY <1>3 DEF Look, Makes, Loads, Missing, Generate
  <2>1. TypeOK'
    BY <2>a, <2>b, <1>0 DEF TypeOK
  <2>2. OneAtWork'
    BY <1>0, <1>3, StaysAtWork DEF TypeOK, Goto, WritersOwnFiles, PublicIsOfPrivate,
       Established, Look, Makes, Loads, Missing, Generate
  <2>3. WritersOwnFiles'
    BY <2>a, <2>b, <1>0 DEF WritersOwnFiles
  <2>4. PublicIsOfPrivate'
    BY <2>a, <2>b, <1>0 DEF PublicIsOfPrivate
  <2>5. ReadersAgree'
    BY <2>a, <2>b, <1>0 DEF ReadersAgree, PublicIsOfPrivate
  <2>6. DocumentsAreSigned'
    BY <2>a, <2>b, <1>0, DocumentsStay
  <2>7. QED
    BY <2>1, <2>2, <2>3, <2>4, <2>5, <2>6 DEF IInv
<1>4. ASSUME NEW c \in Commands, ReadPrivate(c) PROVE IInv'
  <2>a. /\ held' \in [Commands -> Pairs]
        /\ pc' \in [Commands -> {"idle"} \cup Busy \cup Ended]
        /\ \A d \in Commands \ {c} : pc'[d] = pc[d] /\ held'[d] = held[d]
        /\ \/ /\ priv \in Commands /\ pc'[c] = "reading public"
              /\ held'[c].private = priv
           \/ pc'[c] = "failed" /\ held'[c] = held[c]
    <3>2. held \in [Commands -> Pairs] /\ pc \in [Commands -> {"idle"} \cup Busy \cup Ended]
      BY <1>0 DEF TypeOK
    <3>3. CASE priv \in Commands
      <4> DEFINE half == [private |-> priv, public |-> Null]
      <4>1. half \in Pairs /\ half.private = priv
        BY <3>3, PairsInMemory
      <4>2. pc' = [pc EXCEPT ![c] = "reading public"] /\ held' = [held EXCEPT ![c] = half]
        BY <1>4, <3>3 DEF ReadPrivate, Goto
      <4> HIDE DEF half
      <4> QED
        BY <3>2, <3>3, <4>1, <4>2
    <3>4. CASE priv \notin Commands
      BY <1>4, <3>2, <3>4 DEF ReadPrivate, Goto
    <3>5. QED
      BY <3>3, <3>4
  <2>b. pc[c] = "reading private" /\ UNCHANGED <<priv, pub, protected, kind, document>>
    BY <1>4 DEF ReadPrivate
  <2>1. TypeOK'
    BY <2>a, <2>b, <1>0 DEF TypeOK
  <2>2. OneAtWork'
    BY <1>0, <1>4, StaysAtWork DEF TypeOK, Goto, WritersOwnFiles, PublicIsOfPrivate,
       Established, ReadPrivate
  <2>3. WritersOwnFiles'
    BY <2>a, <2>b, <1>0 DEF WritersOwnFiles
  <2>4. PublicIsOfPrivate'
    BY <2>a, <2>b, <1>0 DEF PublicIsOfPrivate
  <2>5. ReadersAgree'
    BY <2>a, <2>b, <1>0 DEF ReadersAgree, PublicIsOfPrivate
  <2>6. DocumentsAreSigned'
    BY <2>a, <2>b, <1>0, DocumentsStay
  <2>7. QED
    BY <2>1, <2>2, <2>3, <2>4, <2>5, <2>6 DEF IInv
<1>5. ASSUME NEW c \in Commands, ReadPublic(c) PROVE IInv'
  <2>a. /\ held' \in [Commands -> Pairs]
        /\ pc' \in [Commands -> {"idle"} \cup Busy \cup Ended]
        /\ \A d \in Commands \ {c} : pc'[d] = pc[d] /\ held'[d] = held[d]
        /\ \/ pub \in Commands /\ pc'[c] = "using" /\ held'[c] = PairOf(pub)
           \/ pc'[c] = "failed" /\ held'[c] = held[c]
    <3>1. pub \in Commands => [private |-> held[c].private, public |-> pub] = PairOf(pub)
      BY <1>0, <1>5, PairsInMemory DEF PublicIsOfPrivate, ReadersAgree, ReadPublic
    <3>2. held \in [Commands -> Pairs] /\ pc \in [Commands -> {"idle"} \cup Busy \cup Ended]
      BY <1>0 DEF TypeOK
    <3>3. CASE pub \in Commands
      <4>1. held' = [held EXCEPT ![c] = PairOf(pub)] /\ Goto(c, "using")
        BY <1>5, <3>1, <3>3 DEF ReadPublic
      <4>2. QED
        BY <4>1, <3>2, <3>3, PairsInMemory DEF Goto
    <3>4. CASE pub \notin Commands
      BY <1>5, <3>2, <3>4 DEF ReadPublic, Goto
    <3>5. QED
      BY <3>3, <3>4
  <2>b. pc[c] = "reading public" /\ UNCHANGED <<priv, pub, protected, kind, document>>
    BY <1>5 DEF ReadPublic
  <2>1. TypeOK'
    BY <2>a, <2>b, <1>0 DEF TypeOK
  <2>2. OneAtWork'
    BY <1>0, <1>5, StaysAtWork DEF TypeOK, Goto, WritersOwnFiles, PublicIsOfPrivate,
       Established, ReadPublic
  <2>3. WritersOwnFiles'
    BY <2>a, <2>b, <1>0 DEF WritersOwnFiles
  <2>4. PublicIsOfPrivate'
    BY <2>a, <2>b, <1>0 DEF PublicIsOfPrivate
  <2>5. ReadersAgree'
    BY <2>a, <2>b, <1>0 DEF ReadersAgree, PublicIsOfPrivate
  <2>6. DocumentsAreSigned'
    BY <2>a, <2>b, <1>0, DocumentsStay
  <2>7. QED
    BY <2>1, <2>2, <2>3, <2>4, <2>5, <2>6 DEF IInv
<1>6. ASSUME NEW c \in Commands, OpenPrivate(c) PROVE IInv'
  <2>a. held[c] = PairOf(c) /\ held[c].private = c /\ held[c].public = c /\ pub \notin Commands
    BY <1>0, <1>6, PairsInMemory DEF WritersOwnFiles, OpenPrivate
  <2>b. \A d \in Commands : pc[d] \in Busy => d = c
    BY <1>0, <1>6, WritesAlone DEF OpenPrivate
  <2>c. protected' \in BOOLEAN
    BY <1>6, Zenon DEF OpenPrivate
  <2>1. TypeOK'
    BY <1>0, <1>6, <2>a, <2>c DEF TypeOK, Goto, Files, Kinds, OpenPrivate
  <2>2. OneAtWork'
    BY <1>0, <1>6, StaysAtWork DEF TypeOK, Goto, WritersOwnFiles, PublicIsOfPrivate,
       Established, OpenPrivate
  <2>3. WritersOwnFiles'
    BY <1>0, <1>6, <2>a, <2>b DEF TypeOK, Goto, WritersOwnFiles, PublicIsOfPrivate, OpenPrivate
  <2>4. PublicIsOfPrivate'
    BY <1>0, <1>6, <2>a, <2>b DEF TypeOK, Goto, PublicIsOfPrivate, WritersOwnFiles, OpenPrivate
  <2>5. ReadersAgree'
    BY <1>0, <1>6, <2>a, <2>b DEF TypeOK, Goto, ReadersAgree, PublicIsOfPrivate,
       WritersOwnFiles, OpenPrivate
  <2>6. DocumentsAreSigned'
    BY <1>0, <1>6, DocumentsStay DEF TypeOK, Goto, OpenPrivate
  <2>7. QED
    BY <2>1, <2>2, <2>3, <2>4, <2>5, <2>6 DEF IInv
<1>7. ASSUME NEW c \in Commands, WritePrivate(c) PROVE IInv'
  <2>a. held[c] = PairOf(c) /\ held[c].private = c /\ held[c].public = c /\ pub \notin Commands
    BY <1>0, <1>7, PairsInMemory DEF WritersOwnFiles, WritePrivate
  <2>b. \A d \in Commands : pc[d] \in Busy => d = c
    BY <1>0, <1>7, WritesAlone DEF WritePrivate
  <2>1. TypeOK'
    BY <1>0, <1>7, <2>a DEF TypeOK, Goto, Files, Kinds, WritePrivate
  <2>2. OneAtWork'
    BY <1>0, <1>7, StaysAtWork DEF TypeOK, Goto, WritersOwnFiles, PublicIsOfPrivate,
       Established, WritePrivate
  <2>3. WritersOwnFiles'
    BY <1>0, <1>7, <2>a, <2>b DEF TypeOK, Goto, WritersOwnFiles, PublicIsOfPrivate, WritePrivate
  <2>4. PublicIsOfPrivate'
    BY <1>0, <1>7, <2>a, <2>b DEF TypeOK, Goto, PublicIsOfPrivate, WritersOwnFiles, WritePrivate
  <2>5. ReadersAgree'
    BY <1>0, <1>7, <2>a, <2>b DEF TypeOK, Goto, ReadersAgree, PublicIsOfPrivate,
       WritersOwnFiles, WritePrivate
  <2>6. DocumentsAreSigned'
    BY <1>0, <1>7, DocumentsStay DEF TypeOK, Goto, WritePrivate
  <2>7. QED
    BY <2>1, <2>2, <2>3, <2>4, <2>5, <2>6 DEF IInv
<1>8. ASSUME NEW c \in Commands, OpenPublic(c) PROVE IInv'
  <2>a. held[c] = PairOf(c) /\ held[c].private = c /\ held[c].public = c /\ pub \notin Commands /\ priv = c
    BY <1>0, <1>8, PairsInMemory DEF WritersOwnFiles, OpenPublic
  <2>b. \A d \in Commands : pc[d] \in Busy => d = c
    BY <1>0, <1>8, WritesAlone DEF OpenPublic
  <2>1. TypeOK'
    BY <1>0, <1>8, <2>a DEF TypeOK, Goto, Files, Kinds, OpenPublic
  <2>2. OneAtWork'
    BY <1>0, <1>8, StaysAtWork DEF TypeOK, Goto, WritersOwnFiles, PublicIsOfPrivate,
       Established, OpenPublic
  <2>3. WritersOwnFiles'
    BY <1>0, <1>8, <2>a, <2>b DEF TypeOK, Goto, WritersOwnFiles, PublicIsOfPrivate, OpenPublic
  <2>4. PublicIsOfPrivate'
    BY <1>0, <1>8, <2>a, <2>b DEF TypeOK, Goto, PublicIsOfPrivate, WritersOwnFiles, OpenPublic
  <2>5. ReadersAgree'
    BY <1>0, <1>8, <2>a, <2>b DEF TypeOK, Goto, ReadersAgree, PublicIsOfPrivate,
       WritersOwnFiles, OpenPublic
  <2>6. DocumentsAreSigned'
    BY <1>0, <1>8, DocumentsStay DEF TypeOK, Goto, OpenPublic
  <2>7. QED
    BY <2>1, <2>2, <2>3, <2>4, <2>5, <2>6 DEF IInv
<1>9. ASSUME NEW c \in Commands, WritePublic(c) PROVE IInv'
  <2>a. held[c] = PairOf(c) /\ held[c].private = c /\ held[c].public = c /\ pub \notin Commands /\ priv = c
    BY <1>0, <1>9, PairsInMemory DEF WritersOwnFiles, WritePublic
  <2>b. \A d \in Commands : pc[d] \in Busy => d = c
    BY <1>0, <1>9, WritesAlone DEF WritePublic
  <2>1. TypeOK'
    BY <1>0, <1>9, <2>a DEF TypeOK, Goto, Files, Kinds, WritePublic
  <2>2. OneAtWork'
    BY <1>0, <1>9, StaysAtWork DEF TypeOK, Goto, WritersOwnFiles, PublicIsOfPrivate,
       Established, WritePublic
  <2>3. WritersOwnFiles'
    BY <1>0, <1>9, <2>a, <2>b DEF TypeOK, Goto, WritersOwnFiles, PublicIsOfPrivate, WritePublic
  <2>4. PublicIsOfPrivate'
    BY <1>0, <1>9, <2>a, <2>b DEF TypeOK, Goto, PublicIsOfPrivate, WritersOwnFiles, WritePublic
  <2>5. ReadersAgree'
    BY <1>0, <1>9, <2>a, <2>b DEF TypeOK, Goto, ReadersAgree, PublicIsOfPrivate,
       WritersOwnFiles, WritePublic
  <2>6. DocumentsAreSigned'
    BY <1>0, <1>9, DocumentsStay DEF TypeOK, Goto, WritePublic
  <2>7. QED
    BY <2>1, <2>2, <2>3, <2>4, <2>5, <2>6 DEF IInv
<1>10. ASSUME NEW c \in Commands, Protect(c) PROVE IInv'
  <2>a. held[c] = PairOf(c)
    BY <1>0, <1>10 DEF WritersOwnFiles, Protect
  <2>1. TypeOK'
    BY <1>0, <1>10 DEF TypeOK, Goto, Files, Kinds, Protect
  <2>2. OneAtWork'
    BY <1>0, <1>10, StaysAtWork DEF TypeOK, Goto, WritersOwnFiles, PublicIsOfPrivate,
       Established, Protect
  <2>3. WritersOwnFiles'
    BY <1>0, <1>10, <2>a DEF TypeOK, Goto, WritersOwnFiles, PublicIsOfPrivate, Protect
  <2>4. PublicIsOfPrivate'
    BY <1>0, <1>10, <2>a DEF TypeOK, Goto, PublicIsOfPrivate, WritersOwnFiles, Protect
  <2>5. ReadersAgree'
    BY <1>0, <1>10, <2>a DEF TypeOK, Goto, ReadersAgree, PublicIsOfPrivate, WritersOwnFiles,
       Protect
  <2>6. DocumentsAreSigned'
    BY <1>0, <1>10, DocumentsStay DEF TypeOK, Goto, Protect
  <2>7. QED
    BY <2>1, <2>2, <2>3, <2>4, <2>5, <2>6 DEF IInv
<1>11. ASSUME NEW c \in Commands, Use(c) PROVE IInv'
  <2>1. TypeOK'
    BY <1>0, <1>11 DEF TypeOK, Goto, Files, Kinds, Use
  <2>2. OneAtWork'
    BY <1>0, <1>11, StaysAtWork DEF TypeOK, Goto, WritersOwnFiles, PublicIsOfPrivate,
       Established, Use
  <2>3. WritersOwnFiles'
    BY <1>0, <1>11 DEF TypeOK, Goto, WritersOwnFiles, PublicIsOfPrivate, Use
  <2>4. PublicIsOfPrivate'
    BY <1>0, <1>11 DEF TypeOK, Goto, PublicIsOfPrivate, WritersOwnFiles, Use
  <2>5. ReadersAgree'
    BY <1>0, <1>11 DEF TypeOK, Goto, ReadersAgree, PublicIsOfPrivate, WritersOwnFiles, Use
  <2>6. DocumentsAreSigned'
    <3>1. pc[c] # "done" /\ pc' = [pc EXCEPT ![c] = "done"] /\ held' = held
      BY <1>11 DEF Use, Goto
    <3>2. CASE document' = document
      BY <1>0, <3>1, <3>2 DEF TypeOK, DocumentsAreSigned
    <3>3. ASSUME NEW body \in Bodies,
                 document' = [document EXCEPT ![c] = SignedBy(held[c], UnsignedReport(body))]
          PROVE  DocumentsAreSigned'
      BY <1>0, <3>1, <3>3 DEF TypeOK, DocumentsAreSigned
    <3>4. QED
      BY <1>11, <3>2, <3>3 DEF Use
  <2>7. QED
    BY <2>1, <2>2, <2>3, <2>4, <2>5, <2>6 DEF IInv
<1>12. ASSUME NEW c \in Commands, Interrupt(c) PROVE IInv'
  <2>1. TypeOK'
    BY <1>0, <1>12 DEF TypeOK, Goto, Files, Kinds, Interrupt
  <2>2. OneAtWork'
    BY <1>0, <1>12, StaysAtWork DEF TypeOK, Goto, WritersOwnFiles, PublicIsOfPrivate,
       Established, Interrupt
  <2>3. WritersOwnFiles'
    BY <1>0, <1>12 DEF TypeOK, Goto, WritersOwnFiles, PublicIsOfPrivate, Interrupt
  <2>4. PublicIsOfPrivate'
    BY <1>0, <1>12 DEF TypeOK, Goto, PublicIsOfPrivate, WritersOwnFiles, Interrupt
  <2>5. ReadersAgree'
    BY <1>0, <1>12 DEF TypeOK, Goto, ReadersAgree, PublicIsOfPrivate, WritersOwnFiles, Interrupt
  <2>6. DocumentsAreSigned'
    BY <1>0, <1>12, DocumentsStay DEF TypeOK, Goto, Interrupt
  <2>7. QED
    BY <2>1, <2>2, <2>3, <2>4, <2>5, <2>6 DEF IInv
<1>13. CASE Terminated
  BY <1>13, <1>1 DEF Terminated
<1>14. QED
  BY <1>1, <1>2, <1>3, <1>4, <1>5, <1>6, <1>7, <1>8, <1>9, <1>10, <1>11, <1>12, <1>13
  DEF Next, Step

-----------------------------------------------------------------------------
\* The inductive invariant: until a pair is there one command is at work, it
\* writes only what it made, and a public key is that of the private key
\* beside it.
THEOREM IdentityInvariant == ASSUME FirstRunAlone PROVE Spec => []IInv
<1>1. Init => IInv
  BY InitIInv
<1>2. IInv /\ [Next]_vars => IInv'
  BY NextIInv
<1>3. QED
  BY <1>1, <1>2, PTL DEF Spec

\* What a report signed with the pair of one key looks like.
LEMMA SignedReport ==
  ASSUME NEW k \in Commands, NEW body \in Bodies, NEW report,
         report = SignedBy(PairOf(k), UnsignedReport(body))
  PROVE  report = [body |-> body,
                   signature |-> SignatureOf(k, UnsignedView(UnsignedReport(body))),
                   signing_pubkey |-> k, ots_proof_path |-> Null]
  BY DEF SignedBy, UnsignedReport, PairOf

\* Only the body is signed.
LEMMA ViewOfReport ==
  ASSUME NEW body, NEW sig, NEW key, NEW ots
  PROVE  UnsignedView([body |-> body, signature |-> sig, signing_pubkey |-> key,
                       ots_proof_path |-> ots]) = [f \in {"body"} |-> body]
  BY DEF UnsignedView

\* verify on a report that carries some signature by a key over a body.
LEMMA VerdictOn ==
  ASSUME NEW k \in Commands, NEW j \in Commands, NEW body \in Bodies, NEW other \in Bodies,
         NEW ots, NEW report,
         report = [body |-> other,
                   signature |-> SignatureOf(k, UnsignedView(UnsignedReport(body))),
                   signing_pubkey |-> j, ots_proof_path |-> ots]
  PROVE  Verify(report) = IF j = k /\ other = body THEN "valid" ELSE "invalid"
<1> DEFINE View(b) == [f \in {"body"} |-> b]
<1>1. UnsignedView(UnsignedReport(body)) = View(body) /\ UnsignedView(report) = View(other)
  <2>1. UnsignedView(UnsignedReport(body)) = View(body)
    BY DEF UnsignedView, UnsignedReport
  <2>2. UnsignedView(report) = View(other)
    <3> DEFINE Signature == SignatureOf(k, UnsignedView(UnsignedReport(body)))
    <3> HIDE DEF Signature
    <3>1. report = [body |-> other, signature |-> Signature, signing_pubkey |-> j,
                    ots_proof_path |-> ots]
      BY DEF Signature
    <3>2. QED
      BY <3>1 DEF UnsignedView
  <2>3. QED
    BY <2>1, <2>2
<1>2. report.signature = SignatureOf(k, View(body)) /\ report.signing_pubkey = j
  BY <1>1
<1>3. j # Null /\ report.signature # Null
  BY <1>1, <1>2, KeyStoreAssumption, NullAssumption
<1>4. View(body)["body"] = body /\ View(other)["body"] = other
  OBVIOUS
<1>5. SignatureOf(k, View(body)) = SignatureOf(j, View(other)) <=> j = k /\ other = body
  <2>1. SignatureOf(k, View(body)).by = k /\ SignatureOf(j, View(other)).by = j
    BY DEF SignatureOf
  <2>2. /\ SignatureOf(k, View(body)).over = View(body)
        /\ SignatureOf(j, View(other)).over = View(other)
    BY DEF SignatureOf
  <2> HIDE DEF View
  <2>3. QED
    BY <2>1, <2>2, <1>4
<1> HIDE DEF View
<1>6. QED
  BY <1>1, <1>2, <1>3, <1>5 DEF Verify

LEMMA InvImpliesVerifies == IInv => SignedReportVerifies
<1> SUFFICES ASSUME IInv, NEW c \in Commands, document[c] # Null
    PROVE  /\ Verify(document[c]) = "valid"
           /\ Verify([document[c] EXCEPT !.ots_proof_path = "proof"]) = "valid"
           /\ \A body \in Bodies \ {document[c].body} :
                Verify([document[c] EXCEPT !.body = body]) = "invalid"
           /\ \A k \in Commands \ {document[c].signing_pubkey} :
                Verify([document[c] EXCEPT !.signing_pubkey = k]) = "invalid"
  BY DEF SignedReportVerifies
<1>1. PICK body \in Bodies : document[c] = SignedBy(held[c], UnsignedReport(body))
  BY DEF IInv, DocumentsAreSigned
<1>2. pub \in Commands /\ held[c] = PairOf(pub)
  BY DEF IInv, DocumentsAreSigned, ReadersAgree
<1> DEFINE Signature == SignatureOf(pub, UnsignedView(UnsignedReport(body)))
<1>3. document[c] = [body |-> body, signature |-> Signature, signing_pubkey |-> pub,
                     ots_proof_path |-> Null]
  BY <1>1, <1>2, SignedReport
<1> HIDE DEF Signature
<1>4. Verify(document[c]) = "valid"
  BY <1>2, <1>3, VerdictOn DEF Signature
<1>5. Verify([document[c] EXCEPT !.ots_proof_path = "proof"]) = "valid"
  <2>1. [document[c] EXCEPT !.ots_proof_path = "proof"] =
          [body |-> body, signature |-> Signature, signing_pubkey |-> pub,
           ots_proof_path |-> "proof"]
    BY <1>3
  <2>2. QED
    BY <1>2, <2>1, VerdictOn DEF Signature
<1>6. ASSUME NEW other \in Bodies \ {document[c].body}
      PROVE  Verify([document[c] EXCEPT !.body = other]) = "invalid"
  <2>1. /\ [document[c] EXCEPT !.body = other] =
             [body |-> other, signature |-> Signature, signing_pubkey |-> pub,
              ots_proof_path |-> Null]
        /\ other # body
    BY <1>3
  <2>2. QED
    BY <1>2, <2>1, VerdictOn DEF Signature
<1>7. ASSUME NEW k \in Commands \ {document[c].signing_pubkey}
      PROVE  Verify([document[c] EXCEPT !.signing_pubkey = k]) = "invalid"
  <2>1. /\ [document[c] EXCEPT !.signing_pubkey = k] =
             [body |-> body, signature |-> Signature, signing_pubkey |-> k,
              ots_proof_path |-> Null]
        /\ k # pub
    BY <1>3
  <2>2. QED
    BY <1>2, <2>1, VerdictOn DEF Signature
<1>8. QED
  BY <1>4, <1>5, <1>6, <1>7

\* Every report signed with keys of the directory verifies, and only as it was
\* signed.
THEOREM SignaturesVerify == ASSUME FirstRunAlone PROVE Spec => []SignedReportVerifies
  BY IdentityInvariant, InvImpliesVerifies, PTL

\* What becomes of the identity and of the pairs used in one step.
LEMMA IdentityMoves ==
  ASSUME IInv, IInv', Next
  PROVE  \/ TheIdentity' = TheIdentity
         \/ /\ TheIdentity = Null /\ UsedPairs' = UsedPairs
            /\ \E k \in Commands : TheIdentity' = k
<1> USE DEF TheIdentity, Established
<1>1. CASE \E c \in Commands : WritePublic(c)
  <2>1. PICK c \in Commands : WritePublic(c)
    BY <1>1
  <2>2. priv = c /\ pub \notin Commands /\ held[c] = PairOf(c) /\ pc[c] = "writing public"
    BY <2>1 DEF IInv, WritersOwnFiles, WritePublic, Writing, Saving
  <2>3. priv' = c /\ pub' = c
    BY <2>1, <2>2, PairsInMemory DEF WritePublic
  <2>4. UsedPairs' = UsedPairs
    <3>1. \A d \in Commands : pc'[d] = "done" <=> pc[d] = "done"
      BY <2>1, <2>2 DEF IInv, TypeOK, WritePublic, Goto
    <3>2. held' = held
      BY <2>1 DEF WritePublic
    <3>3. QED
      BY <3>1, <3>2 DEF UsedPairs
  <2>5. QED
    BY <2>2, <2>3, <2>4
<1>2. CASE \E c \in Commands : OpenPrivate(c) \/ WritePrivate(c) \/ OpenPublic(c)
  <2>1. PICK c \in Commands : OpenPrivate(c) \/ WritePrivate(c) \/ OpenPublic(c)
    BY <1>2
  <2>2. pub \notin Commands
    BY <2>1 DEF IInv, WritersOwnFiles, OpenPrivate, WritePrivate, OpenPublic, Writing
  <2>3. pub' = pub \/ pub' = Torn
    BY <2>1 DEF OpenPrivate, WritePrivate, OpenPublic
  <2>4. QED
    BY <2>2, <2>3, KeyStoreAssumption
<1>3. CASE UNCHANGED <<priv, pub>>
  BY <1>3
<1>4. QED
  BY <1>1, <1>2, <1>3
  DEF Next, Step, Begin, Look, ReadPrivate, ReadPublic, Protect, Use, Interrupt, Terminated, vars

\* A command that is done stays so with the pair it used; the step that makes
\* it done finds the identity in its memory.
LEMMA UsesMove ==
  ASSUME IInv, IInv', Next
  PROVE  \/ UsedPairs' = UsedPairs
         \/ \E c \in Commands :
              /\ TheIdentity # Null /\ TheIdentity' = TheIdentity
              /\ UsedPairs[c] = NoPair
              /\ UsedPairs' = [UsedPairs EXCEPT ![c] = PairOf(TheIdentity)]
<1>1. CASE \E c \in Commands : Use(c)
  <2>1. PICK c \in Commands : Use(c)
    BY <1>1
  <2>2. pc[c] = "using" /\ pc' = [pc EXCEPT ![c] = "done"] /\ UNCHANGED <<held, priv, pub>>
    BY <2>1 DEF Use, Goto
  <2>3. pub \in Commands /\ held[c] = PairOf(pub) /\ priv = pub
    BY <2>2 DEF IInv, ReadersAgree, PublicIsOfPrivate
  <2>4. TheIdentity = pub /\ TheIdentity' = pub /\ pub # Null
    BY <2>2, <2>3, KeyStoreAssumption DEF TheIdentity, Established
  <2>5. pc \in [Commands -> {"idle"} \cup Busy \cup Ended]
    BY DEF IInv, TypeOK
  <2>6. UsedPairs[c] = NoPair /\ UsedPairs' = [UsedPairs EXCEPT ![c] = PairOf(pub)]
    BY <2>2, <2>3, <2>5 DEF UsedPairs
  <2>7. QED
    BY <2>4, <2>6
<1>2. ASSUME NEW c \in Commands, Step(c), ~Use(c)
      PROVE  UsedPairs' = UsedPairs
  <2>0. pc[c] # "done"
    BY <1>2 DEF Step, Begin, Look, ReadPrivate, ReadPublic, OpenPrivate, WritePrivate,
       OpenPublic, WritePublic, Protect, Interrupt, Busy, Saving
  <2>1. \/ Goto(c, "looking") \/ Goto(c, "reading private") \/ Goto(c, "reading public")
        \/ Goto(c, "opening private") \/ Goto(c, "writing private") \/ Goto(c, "opening public")
        \/ Goto(c, "writing public") \/ Goto(c, "protecting") \/ Goto(c, "using")
        \/ Goto(c, "failed") \/ Goto(c, "killed")
    BY <1>2 DEF Step, Begin, Look, Generate, ReadPrivate, ReadPublic, OpenPrivate, WritePrivate,
       OpenPublic, WritePublic, Protect, Interrupt
  <2>2. \E pair : held' = [held EXCEPT ![c] = pair] \/ held' = held
    BY <1>2 DEF Step, Begin, Look, Generate, ReadPrivate, ReadPublic, OpenPrivate, WritePrivate,
       OpenPublic, WritePublic, Protect, Interrupt
  <2>3. \A d \in Commands : pc'[d] = "done" <=> pc[d] = "done"
    BY <2>0, <2>1 DEF IInv, TypeOK, Goto
  <2>4. \A d \in Commands : pc[d] = "done" => held'[d] = held[d]
    BY <2>0, <2>2 DEF IInv, TypeOK
  <2>5. QED
    BY <2>3, <2>4 DEF UsedPairs
<1>3. CASE Terminated
  BY <1>3 DEF Terminated, vars, UsedPairs
<1>4. QED
  BY <1>1, <1>2, <1>3 DEF Next

\* A step of the store is a step of Identity, or hidden from it.
LEMMA StepIsPromised ==
  ASSUME IInv, IInv', [Next]_vars
  PROVE  [Promise!Next]_(Promise!vars)
<1>1. CASE UNCHANGED vars
  BY <1>1 DEF vars, Promise!vars, TheIdentity, UsedPairs, Established
<1>2. CASE Next
  BY <1>2, IdentityMoves, UsesMove
  DEF Promise!Next, Promise!vars, Promise!Establish, Promise!Use, Promise!NoPair, NoPair, PairOf
<1>3. QED
  BY <1>1, <1>2

\* The store implements Identity, whatever is interrupted where: one identity
\* at most, and every command that succeeds uses both its halves.
THEOREM IdentityIsKept == ASSUME FirstRunAlone PROVE Spec => ImplementsIdentity
<1>1. Init => Promise!Init
  BY KeyStoreAssumption
  DEF Init, Promise!Init, Promise!NoPair, TheIdentity, UsedPairs, Established, NoPair, Absent
<1>2. IInv /\ IInv' /\ [Next]_vars => [Promise!Next]_(Promise!vars)
  BY StepIsPromised
<1>3. QED
  BY <1>1, <1>2, IdentityInvariant, PTL DEF Spec, ImplementsIdentity, Promise!Spec

\* A pair saved to the end is never replaced, torn or left unprotected.
THEOREM SavesAreKept == ASSUME FirstRunAlone PROVE Spec => []SaveIsKept
<1>1. IInv => SaveIsKept
  <2> SUFFICES ASSUME IInv, NEW c \in Commands, pc[c] \in {"using", "done"},
                      held[c] = PairOf(c)
      PROVE  priv = c /\ pub = c /\ protected
    BY DEF SaveIsKept
  <2>1. pub \in Commands /\ PairOf(c) = PairOf(pub)
    BY DEF IInv, ReadersAgree
  <2>2. pub = c
    BY <2>1, PairsInMemory
  <2>3. QED
    BY <2>2 DEF IInv, PublicIsOfPrivate
<1>2. QED
  BY <1>1, IdentityInvariant, PTL
-----------------------------------------------------------------------------
(* Types, whatever overlaps                                                *)

\* A command that saves has a pair of its own in memory, and once it has opened
\* the private file, that file is there.
SavesItsOwn ==
  \A c \in Commands :
    /\ pc[c] \in Saving => held[c] = PairOf(c)
    /\ pc[c] \in Saving \ {"opening private"} => priv # Absent

TypeInv == TypeOK /\ SavesItsOwn

\* What a step of one command has to respect.
LEMMA StepKeepsTypes ==
  ASSUME TypeInv, NEW c \in Commands, NEW place \in {"idle"} \cup Busy \cup Ended,
         NEW pair \in Pairs, Goto(c, place), held' = [held EXCEPT ![c] = pair],
         UNCHANGED kind, DOMAIN document' = Commands, protected' \in BOOLEAN,
         priv' \in Files, pub' \in Files,
         priv # Absent => priv' # Absent,
         priv' = Absent => pub' = Absent,
         place \in Saving => pair = PairOf(c),
         place \in Saving \ {"opening private"} => priv' # Absent
  PROVE  TypeInv'
<1>1. /\ pc' \in [Commands -> {"idle"} \cup Busy \cup Ended]
      /\ pc'[c] = place /\ \A d \in Commands \ {c} : pc'[d] = pc[d]
  BY DEF TypeInv, TypeOK, Goto
<1>2. /\ held' \in [Commands -> Pairs]
      /\ held'[c] = pair /\ \A d \in Commands \ {c} : held'[d] = held[d]
  BY DEF TypeInv, TypeOK
<1>3. TypeOK'
  BY <1>1, <1>2 DEF TypeInv, TypeOK, Files
<1>4. SavesItsOwn'
  <2> SUFFICES ASSUME NEW d \in Commands
               PROVE  /\ pc'[d] \in Saving => held'[d] = PairOf(d)
                      /\ pc'[d] \in Saving \ {"opening private"} => priv' # Absent
    BY DEF SavesItsOwn, PairOf
  <2>1. CASE d = c
    BY <1>1, <1>2, <2>1
  <2>2. CASE d # c
    BY <1>1, <1>2, <2>2 DEF TypeInv, SavesItsOwn
  <2> QED
    BY <2>1, <2>2
<1> QED
  BY <1>3, <1>4 DEF TypeInv

LEMMA TypesKept == TypeInv /\ [Next]_vars => TypeInv'
<1> SUFFICES ASSUME TypeInv, [Next]_vars PROVE TypeInv'
  OBVIOUS
<1>1. CASE UNCHANGED vars
  BY <1>1 DEF vars, TypeInv, TypeOK, SavesItsOwn, PairOf, Files, Pairs
<1>2. ASSUME NEW c \in Commands, Step(c) PROVE TypeInv'
  <2> USE KeyStoreAssumption DEF Absent, Torn
  <2>a. /\ held[c] \in Pairs /\ held = [held EXCEPT ![c] = held[c]]
        /\ DOMAIN document = Commands /\ protected \in BOOLEAN
        /\ priv \in Files /\ pub \in Files /\ (priv = Absent => pub = Absent)
    BY DEF TypeInv, TypeOK
  <2>b. ASSUME UNCHANGED <<priv, pub, kind>>, NEW place \in {"idle"} \cup Busy \cup Ended,
               NEW pair \in Pairs, Goto(c, place), held' = [held EXCEPT ![c] = pair],
               DOMAIN document' = Commands, protected' \in BOOLEAN,
               place \in Saving => place = "opening private" /\ pair = PairOf(c)
        PROVE  TypeInv'
    BY <2>a, <2>b, StepKeepsTypes
  <2>c. pc[c] \in Saving => held[c] = PairOf(c)
    BY DEF TypeInv, SavesItsOwn
  <2>d. /\ PairOf(c) \in Pairs /\ PairOf(c).private = c /\ PairOf(c).public = c
        /\ c \in Files /\ c # Absent
    BY PairsInMemory DEF Files
  <2>1. CASE Begin(c)
    BY <2>1, <2>a, <2>b DEF Begin, Busy, Saving
  <2>2. CASE Look(c)
    <3>1. CASE Makes(c) /\ Generate(c)
      BY <2>2, <3>1, <2>a, <2>b, <2>d DEF Look, Generate, Busy, Saving
    <3>2. CASE ~(Makes(c) /\ Generate(c))
      <4>1. /\ Goto(c, "reading private") \/ Goto(c, "failed")
            /\ UNCHANGED <<priv, pub, protected, kind, held, document>>
        BY <2>2, <3>2 DEF Look
      <4> QED
        BY <4>1, <2>a, <2>b DEF Busy, Saving, Ended
    <3> QED
      BY <3>1, <3>2
  <2>3. CASE ReadPrivate(c)
    <3>1. CASE priv \in Commands
      <4>1. [private |-> priv, public |-> Null] \in Pairs
        BY <3>1 DEF Pairs
      <4> QED
        BY <2>3, <3>1, <4>1, <2>a, <2>b DEF ReadPrivate, Busy, Saving
    <3>2. CASE priv \notin Commands
      BY <2>3, <3>2, <2>a, <2>b DEF ReadPrivate, Busy, Saving, Ended
    <3> QED
      BY <3>1, <3>2
  <2>4. CASE ReadPublic(c)
    <3>1. CASE pub \in Commands
      <4>1. [private |-> held[c].private, public |-> pub] \in Pairs
        BY <2>a, <3>1 DEF Pairs
      <4> QED
        BY <2>4, <3>1, <4>1, <2>a, <2>b DEF ReadPublic, Busy, Saving
    <3>2. CASE pub \notin Commands
      BY <2>4, <3>2, <2>a, <2>b DEF ReadPublic, Busy, Saving, Ended
    <3> QED
      BY <3>1, <3>2
  <2>5. CASE OpenPrivate(c)
    <3>1. /\ Goto(c, "writing private") /\ priv' = Torn
          /\ protected' \in BOOLEAN /\ pc[c] = "opening private"
          /\ UNCHANGED <<pub, kind, held, document>>
      BY <2>5, <2>a DEF OpenPrivate
    <3> QED
      BY <3>1, <2>a, <2>c, <2>d, StepKeepsTypes DEF Busy, Saving, Files
  <2>6. CASE WritePrivate(c)
    <3>1. /\ Goto(c, "opening public") /\ priv' = c
          /\ pc[c] = "writing private"
          /\ UNCHANGED <<pub, protected, kind, held, document>>
      BY <2>6, <2>c, <2>d DEF WritePrivate, Saving
    <3> QED
      BY <3>1, <2>a, <2>c, <2>d, StepKeepsTypes DEF Busy, Saving
  <2>7. CASE OpenPublic(c)
    <3>1. /\ Goto(c, "writing public") /\ pub' = Torn /\ priv # Absent
          /\ pc[c] = "opening public"
          /\ UNCHANGED <<priv, protected, kind, held, document>>
      BY <2>7 DEF OpenPublic, TypeInv, SavesItsOwn, Saving
    <3> QED
      BY <3>1, <2>a, <2>c, <2>d, StepKeepsTypes DEF Busy, Saving, Files
  <2>8. CASE WritePublic(c)
    <3>1. /\ Goto(c, "protecting") /\ pub' = c /\ priv # Absent
          /\ pc[c] = "writing public"
          /\ UNCHANGED <<priv, protected, kind, held, document>>
      BY <2>8, <2>c, <2>d DEF WritePublic, TypeInv, SavesItsOwn, Saving
    <3> QED
      BY <3>1, <2>a, <2>c, <2>d, StepKeepsTypes DEF Busy, Saving
  <2>9. CASE Protect(c)
    BY <2>9, <2>a, <2>b DEF Protect, Busy, Saving
  <2>10. CASE Use(c)
    <3>1. Goto(c, "done") /\ UNCHANGED <<priv, pub, protected, kind, held>>
          /\ DOMAIN document' = Commands
      BY <2>10, <2>a DEF Use
    <3> QED
      BY <3>1, <2>a, <2>b DEF Ended, Saving
  <2>11. CASE Interrupt(c)
    BY <2>11, <2>a, <2>b DEF Interrupt, Ended, Saving
  <2> QED
    BY <1>2, <2>1, <2>2, <2>3, <2>4, <2>5, <2>6, <2>7, <2>8, <2>9, <2>10, <2>11 DEF Step
<1> QED
  BY <1>1, <1>2 DEF Next, Terminated

\* However commands overlap and wherever they are killed, the files hold nothing
\* but keys some command made or torn documents, and the public file is never
\* there without the private one.
THEOREM TypeCorrect == Spec => []TypeOK
<1>1. Init => TypeInv
  <2> SUFFICES ASSUME Init PROVE TypeInv
    OBVIOUS
  <2>1. TypeOK
    BY InitIInv DEF IInv
  <2>2. SavesItsOwn
    BY DEF Init, SavesItsOwn, Saving
  <2> QED
    BY <2>1, <2>2 DEF TypeInv
<1> QED
  BY <1>1, TypesKept, PTL DEF Spec, TypeInv
=============================================================================
