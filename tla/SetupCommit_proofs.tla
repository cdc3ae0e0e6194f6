-------------------------- MODULE SetupCommit_proofs --------------------------
(***************************************************************************)
(* Setups that race with each other, with the credential commands and with *)
(* an editor: one entry in the profile, secrets that work when they are    *)
(* printed, and a rollback that is complete.                               *)
(*                                                                         *)
(* A rollback may put back a store that StoreInv of CredentialStore does   *)
(* not hold for (the creator's entry is gone), so this invariant is one of *)
(* its own.  SetupInv is not inductive: what a rollback may put back needs *)
(* the serials of what it has read (RecordsOK), who may still write one    *)
(* that was taken back (UndoneOK), and what an undisturbed setup has done  *)
(* so far (QuietOK).                                                       *)
(***************************************************************************)
EXTENDS SetupCommit, CredentialStore_proofs

\* The store and the commands, as far as rollbacks leave them alone.
StoreOK ==
    /\ ~IsDoc => file.doc = EmptyDoc
    /\ \A p \in Principals : file.doc[p].serial =< issued
    /\ \A c \in Procs : Busy(c) =>
         /\ cli[c].serial \in 1 .. issued
         /\ \A p \in Principals : cli[c].next[p].serial =< issued
         /\ cli[c].op = "revoke" => cli[c].at = "rename"

\* What a setup has read is older than the secret it drew, and its command is
\* the issue it began.
RecordOK(c) ==
    /\ setup[c].serial =< issued
    /\ setup[c].previous.kind = "absent" => setup[c].previous.doc = EmptyDoc
    /\ \A p \in Principals :
         /\ setup[c].previous.doc[p].serial =< issued
         /\ setup[c].serial > 0 => setup[c].previous.doc[p].serial < setup[c].serial
    /\ setup[c].serial = 0 => setup[c].at = "issue"
    /\ setup[c].at = "issue" => (Busy(c) <=> setup[c].serial > 0)
    /\ Busy(c) => cli[c].op = "issue" /\ cli[c].who = setup[c].who
    /\ setup[c].at = "save" => setup[c].entries = <<setup[c].who>>

RecordsOK == \A c \in Setups : InSetup(c) => RecordOK(c)

\* A secret belongs to one setup, until it is told.
SerialsOK ==
    /\ \A s \in told : s[2] =< issued
    /\ \A c \in Setups : InSetup(c) /\ setup[c].serial > 0 =>
         /\ \A s \in told : s[2] # setup[c].serial
         /\ \A d \in Setups \ {c} : InSetup(d) => setup[d].serial # setup[c].serial

\* The store does not verify this secret, and no command is about to bring it.
Gone(s) ==
    /\ ~Verifies(file.doc, s[1], s[2])
    /\ \A c \in Procs : Busy(c) =>
         /\ ~Verifies(cli[c].next, s[1], s[2])
         /\ cli[c].op = "issue" => cli[c].serial # s[2]

\* Nobody has, holds or is about to write a secret that was taken back.
UndoneOK ==
    \A s \in undone :
        /\ s[2] \in 1 .. issued /\ s \notin told
        /\ Gone(s)
        /\ \A c \in Setups : InSetup(c) =>
             /\ ~Verifies(setup[c].previous.doc, s[1], s[2])
             /\ setup[c].serial # s[2]

\* d has the entry that c has issued and is the store it found otherwise.
OneMore(d, c) ==
    /\ d[setup[c].who] = [serial |-> setup[c].serial, revoked |-> FALSE]
    /\ \A p \in Principals \ {setup[c].who} : d[p] = setup[c].previous.doc[p]

\* How far a setup is that nobody has disturbed.
QuietFor(c) ==
    /\ Undisturbed(c)
    /\ setup[c].at = "issue" /\ ~Busy(c) => file = setup[c].previous
    /\ setup[c].at = "issue" /\ Busy(c) =>
         /\ OneMore(cli[c].next, c)
         /\ cli[c].at # "fill" => file = setup[c].previous
    /\ setup[c].at # "issue" => IsDoc /\ OneMore(file.doc, c)
    /\ setup[c].at = "print" => profile = <<setup[c].who>>

QuietOK == \A c \in Setups : quiet[c] /\ InSetup(c) => QuietFor(c)

Core == SetupInv /\ StoreOK /\ RecordsOK /\ SerialsOK /\ UndoneOK

CommitIInv == Core /\ QuietOK

-----------------------------------------------------------------------------
(* The store.                                                              *)

\* What a step of c's command leaves of the other commands.
OthersStay(c) ==
    \A x \in Procs \ {c} :
        /\ Busy(x)' <=> Busy(x)
        /\ Busy(x) => /\ cli'[x].at = cli[x].at /\ cli'[x].op = cli[x].op
                      /\ cli'[x].who = cli[x].who /\ cli'[x].serial = cli[x].serial
                      /\ cli'[x].next = cli[x].next

LEMMA DocType ==
    ASSUME StoreTypeOK
    PROVE  DocOrEmpty \in Document
BY EmptyDocType DEF StoreTypeOK, DocOrEmpty

\* What an issue that begins is about to do.
LEMMA IssueReadEffect ==
    ASSUME StoreTypeOK, StoreOK, NEW c \in Procs, NEW p \in Principals, IssueRead(c, p)
    PROVE  /\ cli' \in [Procs -> {IdleCli} \union Command]
           /\ OthersStay(c)
           /\ Busy(c)' /\ cli'[c].at \in {"open", "rename"} /\ cli'[c].op = "issue"
           /\ cli'[c].who = p /\ cli'[c].serial = issued'
           /\ cli'[c].next = WithIssued(DocOrEmpty, p, issued')
           /\ issued \in Nat /\ issued' = issued + 1 /\ issued' =< MaxSecrets
           /\ UNCHANGED <<file, shown, created, settled>>
<1> DEFINE m == [at     |-> IF IsEmptyDoc(DocOrEmpty) THEN "open" ELSE "rename",
                 op     |-> "issue",
                 who    |-> p,
                 serial |-> issued + 1,
                 next   |-> WithIssued(DocOrEmpty, p, issued + 1),
                 alone  |-> Alone(c)]
<1>1. issued \in Nat /\ issued' = issued + 1 /\ issued' =< MaxSecrets
  BY MaxSecretsAssumption DEF IssueRead, StoreTypeOK
<1>2. WithIssued(DocOrEmpty, p, issued + 1) \in Document
  <2>1. DocOrEmpty \in Document /\ issued + 1 \in Nat
    BY <1>1, DocType
  <2> QED BY <2>1, WithIssuedType
<1>3. Alone(c) \in BOOLEAN
  BY DEF Alone
<1>4. m \in Command
  BY <1>1, <1>2, <1>3 DEF Command, Points, Document
<1>5. Begin(c, m)
  BY DEF IssueRead
<1> HIDE DEF m
<1>6. Begun(c, m)
  BY <1>4, <1>5, BeginEffect
<1>7. m.at \in {"open", "rename"} /\ m.op = "issue" /\ m.who = p /\ m.serial = issued + 1
      /\ m.next = WithIssued(DocOrEmpty, p, issued + 1)
  BY DEF m
<1> QED
  BY <1>1, <1>6, <1>7 DEF Begun, OthersStay, Busy, IssueRead

\* What a revocation that begins is about to do.
LEMMA RevokeReadEffect ==
    ASSUME StoreTypeOK, StoreOK, NEW c \in Procs, NEW p \in Principals, RevokeRead(c, p)
    PROVE  /\ cli' \in [Procs -> {IdleCli} \union Command]
           /\ OthersStay(c)
           /\ Busy(c)' /\ cli'[c].at = "rename" /\ cli'[c].op = "revoke"
           /\ cli'[c].serial \in 1 .. issued
           /\ cli'[c].next = WithRevoked(file.doc, p)
           /\ UNCHANGED <<file, issued, shown, created, settled>>
<1> DEFINE m == [at     |-> "rename",
                 op     |-> "revoke",
                 who    |-> p,
                 serial |-> file.doc[p].serial,
                 next   |-> WithRevoked(file.doc, p),
                 alone  |-> Alone(c)]
<1>1. file.doc \in Document /\ issued \in Nat
  BY DEF StoreTypeOK
<1>2. WithRevoked(file.doc, p) \in Document /\ file.doc[p].serial \in Nat
  BY <1>1, WithRevokedType DEF Document
<1>3. Alone(c) \in BOOLEAN
  BY DEF Alone
<1>4. m \in Command
  BY <1>2, <1>3 DEF Command, Points, Document
<1>5. Begin(c, m)
  BY DEF RevokeRead
<1>6. file.doc[p].serial \in 1 .. issued
  BY <1>1, <1>2 DEF RevokeRead, HasEntry, StoreOK
<1> HIDE DEF m
<1>7. Begun(c, m)
  BY <1>4, <1>5, BeginEffect
<1>8. m.at = "rename" /\ m.op = "revoke" /\ m.serial = file.doc[p].serial
      /\ m.next = WithRevoked(file.doc, p)
  BY DEF m
<1> QED
  BY <1>6, <1>7, <1>8 DEF Begun, OthersStay, Busy, RevokeRead

LEMMA IssueOpenEffect ==
    ASSUME StoreTypeOK, NEW c \in Procs, IssueOpen(c)
    PROVE  /\ cli' \in [Procs -> {IdleCli} \union Command]
           /\ OthersStay(c)
           /\ Busy(c) /\ Busy(c)' /\ cli[c].at = "open"
           /\ cli'[c].op = cli[c].op /\ cli'[c].who = cli[c].who
           /\ cli'[c].serial = cli[c].serial /\ cli'[c].next = cli[c].next
           /\ \/ cli'[c].at = "fill" /\ file.kind = "absent" /\ file' = TornFile
              \/ cli'[c].at = "reread" /\ file.kind # "absent" /\ file' = file
           /\ UNCHANGED <<issued, shown, settled>>
           /\ created' \subseteq Principals
<1>1. Busy(c) /\ cli[c].at = "open"
  BY DEF IssueOpen, Busy
<1>2. cli[c] \in Command
  BY <1>1, BusyIsCommand
<1>3. CASE file.kind = "absent"
  <2>1. MoveTo(c, "fill") /\ file' = TornFile /\ created' = created \union {cli[c].who}
    BY <1>3 DEF IssueOpen
  <2> QED
    BY <1>1, <1>2, <1>3, <2>1, MoveToEffect DEF Points, OthersStay, Busy, IssueOpen, Command, StoreTypeOK
<1>4. CASE file.kind # "absent"
  <2>1. MoveTo(c, "reread") /\ file' = file /\ created' = created
    BY <1>4 DEF IssueOpen
  <2> QED
    BY <1>1, <1>2, <1>4, <2>1, MoveToEffect DEF Points, OthersStay, Busy, IssueOpen, StoreTypeOK
<1> QED BY <1>3, <1>4

LEMMA IssueRereadEffect ==
    ASSUME StoreTypeOK, NEW c \in Procs, IssueReread(c)
    PROVE  /\ cli' \in [Procs -> {IdleCli} \union Command]
           /\ OthersStay(c)
           /\ Busy(c) /\ cli[c].at = "reread"
           /\ \/ ~Busy(c)'
              \/ /\ Busy(c)' /\ IsDoc /\ cli'[c].at = "rename"
                 /\ cli'[c].op = cli[c].op /\ cli'[c].who = cli[c].who
                 /\ cli'[c].serial = cli[c].serial
                 /\ cli'[c].next = WithIssued(file.doc, cli[c].who, cli[c].serial)
           /\ UNCHANGED <<file, issued, shown, created, settled>>
<1> DEFINE m == [cli[c] EXCEPT !.at = "rename",
                               !.next = WithIssued(file.doc, cli[c].who, cli[c].serial)]
<1>1. Busy(c) /\ cli[c].at = "reread"
  BY DEF IssueReread, Busy
<1>2. cli[c] \in Command /\ file.doc \in Document
  BY <1>1, BusyIsCommand DEF StoreTypeOK
<1>3. WithIssued(file.doc, cli[c].who, cli[c].serial) \in Document
  BY <1>2, WithIssuedType DEF Command
<1>4. CASE IsDoc /\ ~Active(file.doc, cli[c].who)
  <2>1. cli' = [cli EXCEPT ![c] = m]
    BY <1>4 DEF IssueReread, StoreTypeOK
  <2>2. m \in Command /\ m.at = "rename" /\ m.op = cli[c].op /\ m.who = cli[c].who
        /\ m.serial = cli[c].serial
        /\ m.next = WithIssued(file.doc, cli[c].who, cli[c].serial)
    BY <1>2, <1>3 DEF Command, Points, Document
  <2> HIDE DEF m
  <2> QED
    BY <1>1, <1>4, <2>1, <2>2 DEF IssueReread, OthersStay, Busy, StoreTypeOK
<1>5. CASE ~(IsDoc /\ ~Active(file.doc, cli[c].who))
  <2>1. Finish(c)
    BY <1>5 DEF IssueReread
  <2> QED
    BY <1>1, <2>1, FinishEffect DEF IssueReread, OthersStay, Busy
<1> QED BY <1>4, <1>5

\* The ways in which a document gets into the store.
LEMMA WriteEffect ==
    ASSUME StoreTypeOK, NEW c \in Procs, IssueFill(c) \/ RenameOver(c) \/ WriteThrows(c)
    PROVE  /\ cli' \in [Procs -> {IdleCli} \union Command]
           /\ OthersStay(c)
           /\ Busy(c) /\ ~Busy(c)' /\ cli[c] \in Command
           /\ file' = DocFile(cli[c].next)
           /\ issued' = issued /\ created' = created
           /\ shown' \subseteq Principals \X Nat /\ settled' \subseteq Principals \X Nat
<1>1. Busy(c) /\ Finish(c)
  BY DEF IssueFill, RenameOver, WriteThrows, Busy
<1>2. cli[c] \in Command
  BY <1>1, BusyIsCommand
<1>3. <<cli[c].who, cli[c].serial>> \in Principals \X Nat
  BY <1>2 DEF Command
<1>4. shown' \subseteq Principals \X Nat /\ settled' \subseteq Principals \X Nat
  BY <1>3 DEF IssueFill, RenameOver, WriteThrows, Report, StoreTypeOK
<1> QED
  BY <1>1, <1>2, <1>4, FinishEffect DEF IssueFill, RenameOver, WriteThrows, OthersStay, Busy

LEMMA StopEffect ==
    ASSUME StoreTypeOK, NEW c \in Procs, Stop(c)
    PROVE  /\ cli' \in [Procs -> {IdleCli} \union Command]
           /\ OthersStay(c)
           /\ Busy(c) /\ ~Busy(c)'
           /\ UNCHANGED <<file, issued, shown, created, settled>>
BY FinishEffect DEF Stop, OthersStay, Busy

LEMMA CliOthers ==
    ASSUME StoreTypeOK, StoreOK, NEW c \in Procs, CliStep(c)
    PROVE  OthersStay(c)
BY IssueReadEffect, RevokeReadEffect, IssueOpenEffect, IssueRereadEffect, WriteEffect, StopEffect
   DEF CliStep

LEMMA CliTypes ==
    ASSUME StoreTypeOK, StoreOK, NEW c \in Procs, CliStep(c)
    PROVE  StoreTypeOK'
<1>1. CASE \E p \in Principals : IssueRead(c, p)
  BY <1>1, IssueReadEffect DEF StoreTypeOK
<1>2. CASE \E p \in Principals : RevokeRead(c, p)
  BY <1>2, RevokeReadEffect DEF StoreTypeOK
<1>3. CASE IssueOpen(c)
  BY <1>3, IssueOpenEffect, EmptyDocType DEF StoreTypeOK, TornFile
<1>4. CASE IssueFill(c) \/ RenameOver(c) \/ WriteThrows(c)
  <2>1. DocFile(cli[c].next) \in [kind : {"absent", "torn", "doc"}, doc : Document]
    BY <1>4, WriteEffect DEF DocFile, Command, Document
  <2> QED BY <1>4, <2>1, WriteEffect DEF StoreTypeOK
<1>5. CASE IssueReread(c)
  BY <1>5, IssueRereadEffect DEF StoreTypeOK
<1>6. CASE Stop(c)
  BY <1>6, StopEffect DEF StoreTypeOK
<1> QED BY <1>1, <1>2, <1>3, <1>4, <1>5, <1>6 DEF CliStep

LEMMA CliStoreOK ==
    ASSUME StoreTypeOK, StoreOK, NEW c \in Procs, CliStep(c)
    PROVE  StoreOK' /\ issued =< issued' /\ issued' \in Nat
<1> USE DEF StoreOK
<1>0. issued \in Nat /\ OthersStay(c) /\ file.doc \in Document
  BY CliOthers DEF StoreTypeOK
<1>1. CASE \E p \in Principals : IssueRead(c, p)
  <2>1. PICK p \in Principals : IssueRead(c, p)
    BY <1>1
  <2>2. DocOrEmpty \in Document /\ \A q \in Principals : DocOrEmpty[q].serial =< issued
    BY <1>0, DocType DEF DocOrEmpty, EmptyDoc, NoEntry
  <2>3. /\ issued' = issued + 1 /\ issued' \in Nat /\ file' = file
        /\ Busy(c)' /\ cli'[c].op = "issue" /\ cli'[c].serial = issued'
        /\ cli'[c].next = WithIssued(DocOrEmpty, p, issued')
    BY <1>0, <2>1, IssueReadEffect
  <2>4. \A q \in Principals : cli'[c].next[q].serial =< issued'
    <3>1. /\ cli'[c].next[p] = [serial |-> issued', revoked |-> FALSE]
          /\ \A q \in Principals \ {p} : cli'[c].next[q] = DocOrEmpty[q]
      BY <2>2, <2>3, WithIssuedType
    <3>2. \A q \in Principals : DocOrEmpty[q].serial \in Nat
      BY <2>2 DEF Document
    <3> QED BY <1>0, <2>2, <2>3, <3>1, <3>2
  <2>5. \A q \in Principals : file.doc[q].serial \in Nat
    BY <1>0 DEF Document
  <2>6. \A x \in Procs : Busy(x) => \A q \in Principals : cli[x].next[q].serial \in Nat
    BY BusyIsCommand DEF Command
  <2> QED BY <1>0, <2>3, <2>4, <2>5, <2>6 DEF OthersStay, IsDoc
<1>2. CASE \E p \in Principals : RevokeRead(c, p)
  <2>1. PICK p \in Principals : RevokeRead(c, p)
    BY <1>2
  <2>2. \A q \in Principals : cli'[c].next[q].serial =< issued
    BY <1>0, <2>1, RevokeReadEffect, WithRevokedType
  <2> QED BY <1>0, <2>1, <2>2, RevokeReadEffect DEF OthersStay, IsDoc
<1>3. CASE IssueOpen(c)
  <2>1. \/ file' = file
        \/ file'.doc = EmptyDoc /\ file'.kind = "torn"
    BY <1>3, IssueOpenEffect DEF TornFile
  <2>2. \A q \in Principals : file'.doc[q].serial =< issued
    BY <1>0, <2>1 DEF EmptyDoc, NoEntry
  <2>3. /\ issued' = issued /\ Busy(c) /\ Busy(c)' /\ cli[c].at = "open"
        /\ cli'[c].op = cli[c].op /\ cli'[c].serial = cli[c].serial
        /\ cli'[c].next = cli[c].next
    BY <1>3, IssueOpenEffect
  <2>4. cli[c].op # "revoke"
    BY <2>3
  <2> QED BY <1>0, <2>1, <2>2, <2>3, <2>4 DEF OthersStay, IsDoc
<1>4. CASE IssueFill(c) \/ RenameOver(c) \/ WriteThrows(c)
  BY <1>0, <1>4, WriteEffect DEF OthersStay, IsDoc, DocFile
<1>5. CASE IssueReread(c)
  <2>1. cli[c] \in Command
    BY <1>5, IssueRereadEffect, BusyIsCommand
  <2>2. Busy(c)' => \A q \in Principals : cli'[c].next[q].serial =< issued
    <3> SUFFICES ASSUME Busy(c)', NEW q \in Principals
                 PROVE  cli'[c].next[q].serial =< issued
      OBVIOUS
    <3>1. cli[c].who \in Principals /\ cli[c].serial \in Nat /\ cli[c].serial =< issued
      BY <1>0, <1>5, <2>1, IssueRereadEffect DEF Command
    <3>2. cli'[c].next = WithIssued(file.doc, cli[c].who, cli[c].serial)
      BY <1>5, IssueRereadEffect
    <3>3. cli'[c].next[q] = file.doc[q] \/ cli'[c].next[q] = [serial |-> cli[c].serial, revoked |-> FALSE]
      BY <1>0, <3>1, <3>2, WithIssuedType
    <3> QED BY <3>1, <3>3
  <2> QED BY <1>0, <1>5, <2>2, IssueRereadEffect DEF OthersStay, IsDoc
<1>6. CASE Stop(c)
  BY <1>0, <1>6, StopEffect DEF OthersStay, IsDoc
<1> QED BY <1>1, <1>2, <1>3, <1>4, <1>5, <1>6 DEF CliStep

LEMMA CliGone ==
    ASSUME StoreTypeOK, StoreOK, NEW c \in Procs, CliStep(c),
           NEW s \in Principals \X Nat, s[2] \in 1 .. issued, Gone(s)
    PROVE  Gone(s)'
<1> USE DEF Gone
<1>0. /\ issued \in Nat /\ OthersStay(c) /\ file.doc \in Document
      /\ s[1] \in Principals /\ s[2] \in Nat
  BY CliOthers DEF StoreTypeOK
<1>1. CASE \E p \in Principals : IssueRead(c, p)
  <2>1. PICK p \in Principals : IssueRead(c, p)
    BY <1>1
  <2>2. /\ issued' = issued + 1 /\ issued' \in Nat /\ file' = file
        /\ Busy(c)' /\ cli'[c].serial = issued'
        /\ cli'[c].next = WithIssued(DocOrEmpty, p, issued')
    BY <1>0, <2>1, IssueReadEffect
  <2>3. DocOrEmpty \in Document
    BY DocType
  <2>4. cli'[c].next[s[1]] = DocOrEmpty[s[1]]
        \/ cli'[c].next[s[1]] = [serial |-> issued', revoked |-> FALSE]
    BY <1>0, <2>2, <2>3, WithIssuedType
  <2>5. ~Verifies(DocOrEmpty, s[1], s[2])
    BY <1>0 DEF DocOrEmpty, EmptyDoc, NoEntry, Verifies, Active, HasEntry
  <2>6. ~Verifies(cli'[c].next, s[1], s[2])
    BY <1>0, <2>2, <2>4, <2>5 DEF Verifies, Active, HasEntry
  <2>7. cli'[c].serial # s[2]
    BY <1>0, <2>2
  <2> QED BY <1>0, <2>2, <2>6, <2>7 DEF OthersStay
<1>2. CASE \E p \in Principals : RevokeRead(c, p)
  <2>1. PICK p \in Principals : RevokeRead(c, p)
    BY <1>2
  <2>2. /\ file' = file /\ Busy(c)' /\ cli'[c].op = "revoke"
        /\ cli'[c].next = WithRevoked(file.doc, p)
    BY <2>1, RevokeReadEffect
  <2>3. cli'[c].next[s[1]] = file.doc[s[1]] \/ cli'[c].next[s[1]].revoked
    BY <1>0, <2>2, WithRevokedType
  <2>4. ~Verifies(cli'[c].next, s[1], s[2])
    BY <2>3 DEF Verifies, Active, HasEntry
  <2> QED BY <1>0, <2>2, <2>4 DEF OthersStay
<1>3. CASE IssueOpen(c)
  <2>1. /\ Busy(c) /\ cli'[c].op = cli[c].op /\ cli'[c].serial = cli[c].serial
        /\ cli'[c].next = cli[c].next
        /\ file' = file \/ file'.doc = EmptyDoc
    BY <1>3, IssueOpenEffect DEF TornFile
  <2>2. ~Verifies(file'.doc, s[1], s[2])
    BY <1>0, <2>1 DEF EmptyDoc, NoEntry, Verifies, Active, HasEntry
  <2> QED BY <1>0, <2>1, <2>2 DEF OthersStay
<1>4. CASE IssueFill(c) \/ RenameOver(c) \/ WriteThrows(c)
  <2>1. Busy(c) /\ ~Busy(c)' /\ file'.doc = cli[c].next
    BY <1>4, WriteEffect DEF DocFile
  <2> QED BY <1>0, <2>1 DEF OthersStay
<1>5. CASE IssueReread(c)
  <2>1. /\ Busy(c) /\ cli[c].at = "reread" /\ cli[c] \in Command /\ file' = file
    BY <1>5, IssueRereadEffect, BusyIsCommand
  <2>2. cli[c].op = "issue" /\ cli[c].serial # s[2]
    BY <2>1 DEF StoreOK, Command
  <2>3. ASSUME Busy(c)'
        PROVE  ~Verifies(cli'[c].next, s[1], s[2]) /\ cli'[c].serial = cli[c].serial
    <3>1. /\ cli'[c].serial = cli[c].serial
          /\ cli'[c].next = WithIssued(file.doc, cli[c].who, cli[c].serial)
      BY <1>5, <2>3, IssueRereadEffect
    <3>2. cli[c].who \in Principals /\ cli[c].serial \in Nat
      BY <2>1 DEF Command
    <3>3. cli'[c].next[s[1]] = file.doc[s[1]]
          \/ cli'[c].next[s[1]] = [serial |-> cli[c].serial, revoked |-> FALSE]
      BY <1>0, <3>1, <3>2, WithIssuedType
    <3> QED BY <2>2, <3>1, <3>3 DEF Verifies, Active, HasEntry
  <2> QED BY <1>0, <2>1, <2>2, <2>3 DEF OthersStay
<1>6. CASE Stop(c)
  BY <1>0, <1>6, StopEffect DEF OthersStay
<1> QED BY <1>1, <1>2, <1>3, <1>4, <1>5, <1>6 DEF CliStep

-----------------------------------------------------------------------------
(* The setups.                                                             *)

SetupRecords == {IdleSetup} \union SetupRecord \union SavingRecord

\* What the type invariant says of a setup that is running.
LEMMA RunningSetup ==
    ASSUME SetupTypeOK, NEW c \in Setups, InSetup(c)
    PROVE  /\ setup[c].who \in Principals /\ setup[c].serial \in Nat
           /\ setup[c].previous.kind \in {"absent", "doc"}
           /\ setup[c].previous.doc \in Document
           /\ setup[c].previous \in [kind : {"absent", "torn", "doc"}, doc : Document]
           /\ setup[c].at \in {"issue", "profile"} => setup[c] \in SetupRecord
           /\ setup[c].at \in {"save", "print"} => setup[c] \in SavingRecord
           /\ setup[c] \in SetupRecord \union SavingRecord
           /\ setup[c].at \in {"issue", "profile", "save", "print", "rollback"}
<1>1. setup[c] \in SetupRecord \union SavingRecord
  BY DEF SetupTypeOK, InSetup, IdleSetup
<1> QED BY <1>1 DEF SetupRecord, SavingRecord

\* A step of c's setup gives it the record r.
LEMMA SetupBecomes ==
    ASSUME SetupTypeOK, NEW c \in Setups, NEW r \in SetupRecords,
           setup' = [setup EXCEPT ![c] = r]
    PROVE  /\ setup' \in [Setups -> SetupRecords]
           /\ setup'[c] = r
           /\ \A d \in Setups \ {c} : setup'[d] = setup[d]
BY DEF SetupTypeOK, SetupRecords

LEMMA SetupEnded ==
    ASSUME SetupTypeOK, NEW c \in Setups, SetupEnds(c)
    PROVE  /\ setup' \in [Setups -> SetupRecords]
           /\ setup'[c] = IdleSetup /\ ~InSetup(c)'
           /\ \A d \in Setups \ {c} : setup'[d] = setup[d]
<1>1. IdleSetup \in SetupRecords
  BY DEF SetupRecords
<1> QED BY <1>1, SetupBecomes DEF SetupEnds, InSetup, IdleSetup

LEMMA SetupWent ==
    ASSUME SetupTypeOK, NEW c \in Setups, NEW point, SetupGoes(c, point),
           \/ setup[c].at = "issue" /\ point = "profile"
           \/ setup[c].at \in {"profile", "save"} /\ point = "rollback"
           \/ setup[c].at = "save" /\ point = "print"
    PROVE  /\ setup' \in [Setups -> SetupRecords]
           /\ InSetup(c)' /\ setup'[c].at = point
           /\ setup'[c].who = setup[c].who /\ setup'[c].previous = setup[c].previous
           /\ setup'[c].serial = setup[c].serial
           /\ \A d \in Setups \ {c} : setup'[d] = setup[d]
<1> DEFINE r == [setup[c] EXCEPT !.at = point]
<1>1. InSetup(c)
  BY DEF InSetup
<1>2. setup[c] \in SetupRecord \union SavingRecord
  BY <1>1, RunningSetup
<1>3. CASE setup[c].at \in {"issue", "profile"}
  <2>1. setup[c] \in SetupRecord
    BY <1>1, <1>3, RunningSetup
  <2>2. r \in SetupRecord /\ r.at = point /\ r.who = setup[c].who
        /\ r.previous = setup[c].previous /\ r.serial = setup[c].serial
    BY <1>3, <2>1 DEF SetupRecord
  <2>3. r \in SetupRecords
    BY <2>2 DEF SetupRecords
  <2>4. setup' = [setup EXCEPT ![c] = r]
    BY DEF SetupGoes, SetupTypeOK
  <2> HIDE DEF r
  <2>5. point # "idle"
    BY <1>3
  <2> QED BY <2>2, <2>3, <2>4, <2>5, SetupBecomes DEF InSetup
<1>4. CASE setup[c].at = "save"
  <2>1. setup[c] \in SavingRecord
    BY <1>1, <1>4, RunningSetup
  <2>2. r \in SavingRecord /\ r.at = point /\ r.who = setup[c].who
        /\ r.previous = setup[c].previous /\ r.serial = setup[c].serial
    BY <1>4, <2>1 DEF SavingRecord
  <2>3. r \in SetupRecords
    BY <2>2 DEF SetupRecords
  <2>4. setup' = [setup EXCEPT ![c] = r]
    BY DEF SetupGoes, SetupTypeOK
  <2> HIDE DEF r
  <2>5. point # "idle"
    BY <1>4
  <2> QED BY <2>2, <2>3, <2>4, <2>5, SetupBecomes DEF InSetup
<1> QED BY <1>3, <1>4

\* Its command, if it has one, is the issue of its secret.
Tied(c) == Busy(c) => setup[c].at = "issue" /\ setup[c].serial = cli[c].serial

\* What a step of c leaves of the other setups.
SetupsStay(c) == \A d \in Setups \ {c} : setup'[d] = setup[d]

LEMMA OthersRecords ==
    ASSUME SetupTypeOK, RecordsOK, NEW c \in Procs, OthersStay(c), SetupsStay(c),
           issued' \in Nat, issued =< issued'
    PROVE  \A d \in Setups \ {c} : Tied(d)' /\ (InSetup(d)' => RecordOK(d)')
<1> SUFFICES ASSUME NEW d \in Setups \ {c}
             PROVE  Tied(d)' /\ (InSetup(d)' => RecordOK(d)')
  OBVIOUS
<1>1. d \in Procs \ {c} /\ setup'[d] = setup[d] /\ issued \in Nat
  BY SetupsAssumption DEF SetupsStay, SetupTypeOK, StoreTypeOK
<1>2. Tied(d)'
  BY <1>1 DEF Tied, OthersStay, SetupTypeOK
<1>3. ASSUME InSetup(d)' PROVE RecordOK(d)'
  <2>1. InSetup(d) /\ RecordOK(d)
    BY <1>1, <1>3 DEF InSetup, RecordsOK
  <2>2. setup[d].serial \in Nat /\ \A p \in Principals : setup[d].previous.doc[p].serial \in Nat
    BY <2>1, RunningSetup DEF Document
  <2> QED BY <1>1, <2>1, <2>2 DEF RecordOK, OthersStay
<1> QED BY <1>2, <1>3

LEMMA DisturbsType ==
    ASSUME SetupTypeOK, NEW c \in Procs, Disturbs(c)
    PROVE  /\ quiet' \in [Setups -> BOOLEAN]
           /\ \A d \in Setups : quiet'[d] => quiet[d] /\ d = c
BY DEF SetupTypeOK, Disturbs

\* A step of a command, that of a setup or another one, with what c's setup,
\* if it is one, makes of it.
LEMMA CommandStepKeeps ==
    ASSUME SetupInv, StoreOK, RecordsOK, SerialsOK, UndoneOK, NEW c \in Procs,
           CliStep(c), Disturbs(c), UNCHANGED <<profile, told, undone>>,
           setup' \in [Setups -> SetupRecords], SetupsStay(c),
           c \in Setups =>
             \/ ~InSetup(c)' /\ ~Busy(c)'
             \/ /\ InSetup(c) /\ InSetup(c)' /\ RecordOK(c)' /\ Tied(c)'
                /\ setup'[c].previous = setup[c].previous
                /\ setup'[c].serial = setup[c].serial \/ setup'[c].serial = issued + 1
    PROVE  SetupInv' /\ StoreOK' /\ RecordsOK' /\ SerialsOK' /\ UndoneOK'
<1>0. StoreTypeOK /\ SetupTypeOK /\ OneEntry /\ issued \in Nat
  BY DEF SetupInv, SetupTypeOK, StoreTypeOK
<1>1. StoreTypeOK' /\ StoreOK' /\ issued =< issued' /\ issued' \in Nat /\ OthersStay(c)
  BY <1>0, CliTypes, CliStoreOK, CliOthers
<1>2. \A d \in Setups \ {c} : Tied(d)' /\ (InSetup(d)' => RecordOK(d)')
  BY <1>0, <1>1, OthersRecords
<1>3. \A d \in Setups : Tied(d)' /\ (InSetup(d)' => RecordOK(d)')
  BY <1>2 DEF Tied
<1>4. SetupInv'
  BY <1>0, <1>1, <1>3, DisturbsType
     DEF SetupInv, SetupTypeOK, OneEntry, Tied, SetupRecords
<1>5. RecordsOK'
  BY <1>3 DEF RecordsOK
<1>6. \A d \in Setups \ {c} : /\ setup'[d] = setup[d]
                              /\ InSetup(d)' <=> InSetup(d)
  BY DEF SetupsStay, InSetup
<1>7. \A d \in Setups : InSetup(d) => setup[d].serial \in Nat /\ setup[d].serial =< issued
  BY <1>0, RunningSetup DEF RecordsOK, RecordOK
<1>8. SerialsOK'
  <2>1. \A s \in told' : s[2] =< issued'
    <3>1. \A s \in told : s[2] \in Nat /\ s[2] =< issued
      BY <1>0 DEF SetupTypeOK, SerialsOK
    <3> QED BY <1>0, <1>1, <3>1
  <2>2. \A d \in Setups : InSetup(d)' /\ setup'[d].serial > 0 =>
          \/ InSetup(d) /\ setup'[d].serial = setup[d].serial
          \/ d = c /\ setup'[d].serial = issued + 1 /\ c \in Setups
    BY <1>6
  <2>3. ASSUME NEW d \in Setups, InSetup(d)', setup'[d].serial > 0
        PROVE  /\ \A s \in told' : s[2] # setup'[d].serial
               /\ \A e \in Setups \ {d} : InSetup(e)' => setup'[e].serial # setup'[d].serial
    <3>0. \A s \in told : s[2] \in Nat /\ s[2] =< issued
      BY <1>0 DEF SetupTypeOK, SerialsOK
    <3>1. CASE InSetup(d) /\ setup'[d].serial = setup[d].serial
      <4>1. /\ \A s \in told' : s[2] # setup'[d].serial
            /\ \A e \in Setups \ {d} : InSetup(e) => setup[e].serial # setup[d].serial
        BY <2>3, <3>1 DEF SerialsOK
      <4>2. ASSUME NEW e \in Setups \ {d}, InSetup(e)'
            PROVE  setup'[e].serial # setup'[d].serial
        <5>1. CASE e # c
          BY <1>6, <3>1, <4>1, <4>2, <5>1
        <5>2. CASE e = c
          <6>1. /\ InSetup(c)
                /\ setup'[c].serial = setup[c].serial \/ setup'[c].serial = issued + 1
            BY <4>2, <5>2
          <6> QED BY <1>0, <1>7, <3>1, <4>1, <5>2, <6>1
        <5> QED BY <5>1, <5>2
      <4> QED BY <4>1, <4>2
    <3>2. CASE d = c /\ setup'[d].serial = issued + 1
      <4>1. \A e \in Setups \ {d} : InSetup(e)' => InSetup(e) /\ setup'[e].serial = setup[e].serial
        BY <1>6, <3>2
      <4> QED BY <1>0, <1>7, <3>0, <3>2, <4>1
    <3> QED BY <2>2, <2>3, <3>1, <3>2
  <2> QED BY <2>1, <2>3 DEF SerialsOK
<1>9. UndoneOK'
  <2> SUFFICES ASSUME NEW s \in undone'
               PROVE  /\ s[2] \in 1 .. issued' /\ s \notin told'
                      /\ Gone(s)'
                      /\ \A d \in Setups : InSetup(d)' =>
                           /\ ~Verifies(setup'[d].previous.doc, s[1], s[2])
                           /\ setup'[d].serial # s[2]
    BY DEF UndoneOK
  <2>1. s \in Principals \X Nat /\ s \in undone
    BY <1>0 DEF SetupTypeOK
  <2>2. /\ s[2] \in 1 .. issued /\ s \notin told /\ Gone(s)
        /\ \A d \in Setups : InSetup(d) =>
             /\ ~Verifies(setup[d].previous.doc, s[1], s[2])
             /\ setup[d].serial # s[2]
    BY <2>1 DEF UndoneOK
  <2>3. s[2] \in 1 .. issued' /\ s \notin told'
    BY <1>0, <1>1, <2>2
  <2>4. Gone(s)'
    BY <1>0, <2>1, <2>2, CliGone
  <2>5. ASSUME NEW d \in Setups, InSetup(d)'
        PROVE  ~Verifies(setup'[d].previous.doc, s[1], s[2]) /\ setup'[d].serial # s[2]
    <3>1. CASE d # c
      BY <1>6, <2>2, <2>5, <3>1
    <3>2. CASE d = c
      <4>1. /\ InSetup(c) /\ setup'[c].previous = setup[c].previous
            /\ setup'[c].serial = setup[c].serial \/ setup'[c].serial = issued + 1
        BY <2>5, <3>2
      <4> QED BY <1>0, <2>2, <3>2, <4>1
    <3> QED BY <3>1, <3>2
  <2> QED BY <2>3, <2>4, <2>5
<1> QED BY <1>1, <1>4, <1>5, <1>8, <1>9

\* A step of c's setup outside of its issue leaves the store and the commands
\* alone; it ends the setup, or goes on with the secret it has.
Moved(c) ==
    /\ InSetup(c) /\ ~Busy(c)
    /\ UNCHANGED <<storeVars, undone>>
    /\ setup' \in [Setups -> SetupRecords] /\ SetupsStay(c)
    /\ \/ ~InSetup(c)'
       \/ /\ InSetup(c)' /\ setup[c].at # "issue" /\ setup'[c].at # "issue"
          /\ setup'[c].who = setup[c].who /\ setup'[c].previous = setup[c].previous
          /\ setup'[c].serial = setup[c].serial
          /\ setup'[c].at = "save" => setup'[c].entries = <<setup'[c].who>>
    /\ \/ told' = told
       \/ /\ told' = told \union {<<setup[c].who, setup[c].serial>>}
          /\ setup[c].at = "print" /\ ~InSetup(c)'

LEMMA MovedKeeps ==
    ASSUME SetupInv, StoreOK, RecordsOK, SerialsOK, UndoneOK, NEW c \in Setups,
           Moved(c), Disturbs(c), profile' \in Seq(Principals), Len(profile') =< 1
    PROVE  SetupInv' /\ StoreOK' /\ RecordsOK' /\ SerialsOK' /\ UndoneOK'
<1>0. StoreTypeOK /\ SetupTypeOK /\ issued \in Nat /\ c \in Procs
  BY SetupsAssumption DEF SetupInv, SetupTypeOK, StoreTypeOK
<1>1. /\ UNCHANGED <<file, cli, issued, shown, created, settled, undone>>
      /\ OthersStay(c) /\ SetupsStay(c) /\ InSetup(c) /\ ~Busy(c) /\ ~Busy(c)'
  BY DEF Moved, storeVars, OthersStay, Busy
<1>2. StoreTypeOK' /\ StoreOK'
  BY <1>0, <1>1 DEF StoreTypeOK, StoreOK, IsDoc, Busy
<1>3. \A d \in Setups \ {c} : Tied(d)' /\ (InSetup(d)' => RecordOK(d)')
  BY <1>0, <1>1, OthersRecords
<1>4. Tied(c)' /\ (InSetup(c)' => RecordOK(c)')
  <2>1. Tied(c)'
    BY <1>1 DEF Tied
  <2>2. ASSUME InSetup(c)' PROVE RecordOK(c)'
    BY <1>1, <2>2 DEF Moved, RecordsOK, RecordOK
  <2> QED BY <2>1, <2>2
<1>5. RecordsOK'
  BY <1>3, <1>4 DEF RecordsOK
<1>6. /\ setup[c].who \in Principals /\ setup[c].serial \in Nat
      /\ setup[c].serial =< issued
      /\ setup[c].at # "issue" => setup[c].serial > 0
  BY <1>0, <1>1, RunningSetup DEF RecordsOK, RecordOK
<1>7. told' \subseteq Principals \X Nat
  BY <1>0, <1>6 DEF Moved, SetupTypeOK
<1>8. SetupInv'
  BY <1>0, <1>1, <1>2, <1>3, <1>4, <1>7, DisturbsType
     DEF SetupInv, SetupTypeOK, OneEntry, Tied, Moved, SetupRecords
<1>9. \A d \in Setups : InSetup(d)' =>
        /\ InSetup(d) /\ setup'[d].serial = setup[d].serial
        /\ setup'[d].previous = setup[d].previous
        /\ d = c => told' = told
  BY <1>1 DEF Moved, SetupsStay, InSetup
<1>10. SerialsOK'
  <2>1. \A s \in told' : s[2] =< issued'
    BY <1>1, <1>6 DEF Moved, SerialsOK
  <2>2. ASSUME NEW d \in Setups, InSetup(d)', setup'[d].serial > 0
        PROVE  /\ \A s \in told' : s[2] # setup'[d].serial
               /\ \A e \in Setups \ {d} : InSetup(e)' => setup'[e].serial # setup'[d].serial
    <3>1. InSetup(d) /\ setup'[d].serial = setup[d].serial
      BY <1>9, <2>2
    <3>2. \A e \in Setups \ {d} : InSetup(e)' => setup'[e].serial # setup'[d].serial
      BY <1>9, <2>2, <3>1 DEF SerialsOK
    <3>3. \A s \in told : s[2] # setup'[d].serial
      BY <2>2, <3>1 DEF SerialsOK
    <3>4. d # c => setup[c].serial # setup[d].serial
      BY <1>1, <2>2, <3>1 DEF SerialsOK
    <3>5. \A s \in told' : s[2] # setup'[d].serial
      BY <1>9, <2>2, <3>1, <3>3, <3>4 DEF Moved
    <3> QED BY <3>2, <3>5
  <2> QED BY <2>1, <2>2 DEF SerialsOK
<1>11. UndoneOK'
  <2> SUFFICES ASSUME NEW s \in undone
               PROVE  /\ s[2] \in 1 .. issued /\ s \notin told'
                      /\ Gone(s)'
                      /\ \A d \in Setups : InSetup(d)' =>
                           /\ ~Verifies(setup'[d].previous.doc, s[1], s[2])
                           /\ setup'[d].serial # s[2]
    BY <1>1 DEF UndoneOK
  <2>1. /\ s[2] \in 1 .. issued /\ s \notin told /\ Gone(s)
        /\ \A d \in Setups : InSetup(d) =>
             /\ ~Verifies(setup[d].previous.doc, s[1], s[2])
             /\ setup[d].serial # s[2]
    BY DEF UndoneOK
  <2>2. s \notin told'
    BY <1>1, <2>1 DEF Moved
  <2>3. Gone(s)'
    BY <1>1, <2>1 DEF Gone, Busy
  <2> QED BY <1>9, <2>1, <2>2, <2>3
<1> QED BY <1>2, <1>5, <1>8, <1>10, <1>11

\* The steps of that kind.
LEMMA ProfileReadMoves ==
    ASSUME SetupInv, RecordsOK, NEW c \in Setups, ProfileRead(c)
    PROVE  Moved(c) /\ Disturbs(c) /\ UNCHANGED profile
<1> DEFINE r == [at |-> "save", who |-> setup[c].who, previous |-> setup[c].previous,
                 serial |-> setup[c].serial, entries |-> Append(profile, setup[c].who)]
<1>1. SetupTypeOK /\ InSetup(c) /\ setup[c].at = "profile"
  BY DEF SetupInv, ProfileRead, InSetup
<1>2. setup[c] \in SetupRecord /\ setup[c].who \in Principals
  BY <1>1, RunningSetup
<1>3. Append(profile, setup[c].who) = <<setup[c].who>>
      /\ Append(profile, setup[c].who) \in Seq(Principals)
  BY <1>2 DEF ProfileRead
<1>4. r \in SavingRecord
  BY <1>2, <1>3 DEF SetupRecord, SavingRecord
<1>5. setup' = [setup EXCEPT ![c] = r]
  BY DEF ProfileRead, SetupInv, SetupTypeOK
<1>6. r.at = "save" /\ r.who = setup[c].who /\ r.previous = setup[c].previous
      /\ r.serial = setup[c].serial /\ r.entries = <<setup[c].who>>
  BY <1>3
<1> HIDE DEF r
<1>7. /\ setup' \in [Setups -> SetupRecords] /\ setup'[c] = r
      /\ \A d \in Setups \ {c} : setup'[d] = setup[d]
  BY <1>1, <1>4, <1>5, SetupBecomes DEF SetupRecords
<1>8. ~Busy(c)
  BY <1>1 DEF SetupTypeOK
<1> QED
  BY <1>1, <1>6, <1>7, <1>8 DEF Moved, SetupsStay, ProfileRead, InSetup

LEMMA OthersMove ==
    ASSUME SetupInv, RecordsOK, NEW c \in Setups,
           SetupIssueRefused(c) \/ ProfileFails(c) \/ ProfileSaved(c) \/ Tell(c) \/ SetupDies(c)
    PROVE  Moved(c) /\ Disturbs(c)
<1>1. SetupTypeOK /\ InSetup(c)
  BY DEF SetupInv, SetupIssueRefused, ProfileFails, ProfileSaved, Tell, SetupDies, InSetup
<1>2. ~Busy(c)
  BY <1>1 DEF SetupTypeOK, RecordsOK, RecordOK, SetupIssueRefused, ProfileFails, ProfileSaved,
              Tell, SetupDies
<1>3. CASE SetupIssueRefused(c) \/ SetupDies(c)
  BY <1>1, <1>2, <1>3, SetupEnded DEF Moved, SetupsStay, SetupIssueRefused, SetupDies
<1>4. CASE ProfileFails(c)
  BY <1>1, <1>2, <1>4, SetupWent DEF Moved, SetupsStay, ProfileFails
<1>5. CASE ProfileSaved(c)
  BY <1>1, <1>2, <1>5, SetupWent DEF Moved, SetupsStay, ProfileSaved
<1>6. CASE Tell(c)
  BY <1>1, <1>2, <1>6, SetupEnded DEF Moved, SetupsStay, Tell
<1> QED BY <1>3, <1>4, <1>5, <1>6

\* The profile has one entry at most after any of them.
LEMMA ProfileShort ==
    ASSUME SetupInv, RecordsOK, NEW c \in Setups, UNCHANGED profile \/ ProfileSaved(c)
    PROVE  profile' \in Seq(Principals) /\ Len(profile') =< 1
<1>1. CASE UNCHANGED profile
  BY <1>1 DEF SetupInv, SetupTypeOK, OneEntry
<1>2. CASE ProfileSaved(c)
  <2>1. SetupTypeOK /\ InSetup(c) /\ setup[c].at = "save"
    BY <1>2 DEF SetupInv, ProfileSaved, InSetup
  <2>2. profile' = <<setup[c].who>> /\ setup[c].who \in Principals
    BY <1>2, <2>1, RunningSetup DEF ProfileSaved, RecordsOK, RecordOK
  <2> QED BY <2>2
<1> QED BY <1>1, <1>2

IssueSteps(c) ==
    SetupIssueReads(c) \/ SetupIssueOpens(c) \/ SetupIssueRereads(c) \/ SetupIssued(c)
    \/ SetupIssueFails(c)

LEMMA IssueStepsAreCli ==
    ASSUME NEW c \in Setups, Core, IssueSteps(c)
    PROVE  /\ CliStep(c) /\ Disturbs(c) /\ UNCHANGED <<profile, told, undone>>
           /\ InSetup(c) /\ setup[c].at = "issue"
           /\ setup[c] \in SetupRecord /\ setup[c].who \in Principals
<1>1. InSetup(c) /\ setup[c].at = "issue"
  BY DEF IssueSteps, SetupIssueReads, SetupIssueOpens, SetupIssueRereads, SetupIssued,
         SetupIssueFails, InSetup
<1>2. setup[c] \in SetupRecord /\ setup[c].who \in Principals
  BY <1>1, RunningSetup DEF Core, SetupInv
<1> QED
  BY <1>1, <1>2 DEF IssueSteps, SetupIssueReads, SetupIssueOpens, SetupIssueRereads, SetupIssued,
         SetupIssueFails, CliStep

\* What c's setup is after a step of its issue.
LEMMA IssueStepsSetup ==
    ASSUME NEW c \in Setups, Core, IssueSteps(c)
    PROVE  /\ setup' \in [Setups -> SetupRecords] /\ SetupsStay(c)
           /\ \/ ~InSetup(c)' /\ ~Busy(c)'
              \/ /\ InSetup(c) /\ InSetup(c)' /\ RecordOK(c)' /\ Tied(c)'
                 /\ setup'[c].who = setup[c].who
                 /\ setup'[c].previous = setup[c].previous
                 /\ setup'[c].serial = setup[c].serial \/ setup'[c].serial = issued + 1
<1>0. /\ StoreTypeOK /\ SetupTypeOK /\ c \in Procs /\ issued \in Nat
      /\ InSetup(c) /\ setup[c].at = "issue" /\ setup[c] \in SetupRecord
      /\ setup[c].who \in Principals /\ RecordOK(c) /\ StoreOK /\ Tied(c)
  BY IssueStepsAreCli, SetupsAssumption
     DEF Core, SetupInv, SetupTypeOK, StoreTypeOK, RecordsOK, Tied
<1>00. \A p \in Principals : setup[c].previous.doc[p].serial \in Nat
  BY <1>0, RunningSetup DEF Document
<1>1. CASE SetupIssueReads(c)
  <2> DEFINE r == [setup[c] EXCEPT !.serial = issued']
  <2>1. IssueRead(c, setup[c].who) /\ setup' = [setup EXCEPT ![c] = r] /\ setup[c].serial = 0
    BY <1>0, <1>1 DEF SetupIssueReads, SetupTypeOK
  <2>2. /\ issued' = issued + 1 /\ Busy(c)' /\ cli'[c].op = "issue"
        /\ cli'[c].who = setup[c].who /\ cli'[c].serial = issued'
    BY <1>0, <2>1, IssueReadEffect
  <2>3. r \in SetupRecord /\ r.at = "issue" /\ r.who = setup[c].who
        /\ r.previous = setup[c].previous /\ r.serial = issued + 1
    BY <1>0, <2>2 DEF SetupRecord
  <2>4. setup[c].previous.kind = "absent" => setup[c].previous.doc = EmptyDoc
    BY <1>0 DEF RecordOK
  <2>5. \A p \in Principals : setup[c].previous.doc[p].serial =< issued
    BY <1>0 DEF RecordOK
  <2> HIDE DEF r
  <2>6. setup' \in [Setups -> SetupRecords] /\ setup'[c] = r /\ SetupsStay(c)
    BY <1>0, <2>1, <2>3, SetupBecomes DEF SetupRecords, SetupsStay
  <2>7. RecordOK(c)'
    BY <1>0, <1>00, <2>2, <2>3, <2>4, <2>5, <2>6 DEF RecordOK
  <2> QED BY <1>0, <2>2, <2>3, <2>6, <2>7 DEF Tied, InSetup
<1>2. CASE SetupIssueOpens(c)
  <2>1. IssueOpen(c) /\ setup' = setup
    BY <1>2 DEF SetupIssueOpens
  <2>2. /\ Busy(c) /\ Busy(c)' /\ cli'[c].op = cli[c].op /\ cli'[c].who = cli[c].who
        /\ cli'[c].serial = cli[c].serial /\ issued' = issued
    BY <1>0, <2>1, IssueOpenEffect
  <2> QED BY <1>0, <2>1, <2>2 DEF Tied, RecordOK, InSetup, SetupsStay, SetupTypeOK, SetupRecords
<1>3. CASE SetupIssueRereads(c)
  <2>1. IssueReread(c) /\ IF Busy(c)' THEN setup' = setup ELSE SetupEnds(c)
    BY <1>3 DEF SetupIssueRereads
  <2>2. CASE Busy(c)'
    <3>1. /\ Busy(c) /\ cli'[c].op = cli[c].op /\ cli'[c].who = cli[c].who
          /\ cli'[c].serial = cli[c].serial /\ issued' = issued /\ setup' = setup
      BY <1>0, <2>1, <2>2, IssueRereadEffect
    <3> QED BY <1>0, <2>2, <3>1 DEF Tied, RecordOK, InSetup, SetupsStay, SetupTypeOK, SetupRecords
  <2>3. CASE ~Busy(c)'
    BY <1>0, <2>1, <2>3, SetupEnded DEF SetupsStay
  <2> QED BY <2>2, <2>3
<1>4. CASE SetupIssued(c)
  <2>1. (IssueFill(c) \/ RenameOver(c)) /\ SetupGoes(c, "profile")
    BY <1>4 DEF SetupIssued
  <2>2. Busy(c) /\ ~Busy(c)' /\ issued' = issued
    BY <1>0, <2>1, WriteEffect
  <2>3. /\ setup' \in [Setups -> SetupRecords] /\ SetupsStay(c)
        /\ InSetup(c)' /\ setup'[c].at = "profile"
        /\ setup'[c].who = setup[c].who /\ setup'[c].previous = setup[c].previous
        /\ setup'[c].serial = setup[c].serial
    BY <1>0, <2>1, SetupWent DEF SetupsStay
  <2> QED BY <1>0, <2>2, <2>3 DEF Tied, RecordOK, InSetup
<1>5. CASE SetupIssueFails(c)
  BY <1>0, <1>5, StopEffect, WriteEffect, SetupEnded DEF SetupIssueFails, SetupsStay
<1> QED BY <1>1, <1>2, <1>3, <1>4, <1>5 DEF IssueSteps

LEMMA IssueStepsKeep ==
    ASSUME NEW c \in Setups, Core, IssueSteps(c)
    PROVE  Core'
<1>1. CliStep(c) /\ Disturbs(c) /\ UNCHANGED <<profile, told, undone>> /\ c \in Procs
  BY IssueStepsAreCli, SetupsAssumption
<1> QED
  BY <1>1, IssueStepsSetup, CommandStepKeeps DEF Core

LEMMA CommandsKeep ==
    ASSUME NEW c \in Procs \ Setups, Core, Commands(c)
    PROVE  Core'
<1>1. /\ CliStep(c) /\ Disturbs(c) /\ UNCHANGED <<profile, told, undone>>
      /\ setup' \in [Setups -> SetupRecords] /\ SetupsStay(c)
  BY DEF Commands, Core, SetupInv, SetupTypeOK, SetupRecords, SetupsStay
<1> QED
  BY <1>1, CommandStepKeeps DEF Core

\* A setup that begins has read the store as it is.
LEMMA BeginsKeeps ==
    ASSUME NEW c \in Setups, NEW p \in Principals, Core, SetupBegins(c, p)
    PROVE  /\ Core'
           /\ setup'[c].at = "issue" /\ setup'[c].previous = file /\ setup'[c].serial = 0
           /\ SetupsStay(c)
<1> DEFINE r == [at |-> "issue", who |-> p, previous |-> file, serial |-> 0]
<1>0. /\ StoreTypeOK /\ SetupTypeOK /\ c \in Procs /\ issued \in Nat /\ OneEntry
      /\ ~InSetup(c) /\ ~Busy(c) /\ UNCHANGED <<storeVars, profile, told, undone>>
      /\ setup' = [setup EXCEPT ![c] = r]
  BY SetupsAssumption DEF Core, SetupInv, SetupTypeOK, StoreTypeOK, SetupBegins
<1>1. UNCHANGED <<file, cli, issued, shown, created, settled>>
  BY <1>0 DEF storeVars
<1>2. file.doc \in Document /\ file.kind \in {"absent", "doc"}
      /\ file \in [kind : {"absent", "doc"}, doc : Document]
  BY <1>0 DEF SetupBegins, StoreTypeOK
<1>3. r \in SetupRecord /\ r.at = "issue" /\ r.who = p /\ r.previous = file /\ r.serial = 0
  BY <1>2 DEF SetupRecord
<1> HIDE DEF r
<1>4. setup' \in [Setups -> SetupRecords] /\ setup'[c] = r /\ SetupsStay(c)
  BY <1>0, <1>3, SetupBecomes DEF SetupRecords, SetupsStay
<1>5. StoreTypeOK' /\ StoreOK'
  BY <1>0, <1>1 DEF Core, StoreTypeOK, StoreOK, IsDoc, Busy
<1>6. \A d \in Setups \ {c} : Tied(d)' /\ (InSetup(d)' => RecordOK(d)')
  <2>1. OthersStay(c)
    BY <1>1 DEF OthersStay, Busy
  <2> QED BY <1>0, <1>1, <1>4, <2>1, OthersRecords DEF Core
<1>7. Tied(c)' /\ RecordOK(c)'
  <2>1. ~Busy(c)'
    BY <1>0, <1>1 DEF Busy
  <2>2. file.kind = "absent" => file.doc = EmptyDoc
    BY DEF Core, StoreOK, IsDoc
  <2>3. \A q \in Principals : file.doc[q].serial =< issued
    BY DEF Core, StoreOK
  <2> QED BY <1>0, <1>1, <1>3, <1>4, <2>1, <2>2, <2>3 DEF Tied, RecordOK
<1>8. RecordsOK'
  BY <1>6, <1>7 DEF RecordsOK
<1>9. quiet' \in [Setups -> BOOLEAN]
  BY DEF SetupBegins, Undisturbed, Alone
<1>10. SetupInv'
  BY <1>0, <1>1, <1>4, <1>5, <1>6, <1>7, <1>9
     DEF SetupInv, SetupTypeOK, OneEntry, Tied, SetupRecords
<1>11. \A d \in Setups : InSetup(d)' =>
          \/ d = c
          \/ InSetup(d) /\ setup'[d] = setup[d]
  BY <1>4 DEF SetupsStay, InSetup
<1>12. SerialsOK'
  <2>1. setup'[c].serial = 0
    BY <1>3, <1>4
  <2> QED BY <1>0, <1>1, <1>11, <2>1 DEF Core, SerialsOK
<1>13. UndoneOK'
  <2> SUFFICES ASSUME NEW s \in undone
               PROVE  /\ s[2] \in 1 .. issued /\ s \notin told
                      /\ Gone(s)'
                      /\ \A d \in Setups : InSetup(d)' =>
                           /\ ~Verifies(setup'[d].previous.doc, s[1], s[2])
                           /\ setup'[d].serial # s[2]
    BY <1>0, <1>1 DEF UndoneOK
  <2>1. /\ s[2] \in 1 .. issued /\ s \notin told /\ Gone(s)
        /\ \A d \in Setups : InSetup(d) =>
             /\ ~Verifies(setup[d].previous.doc, s[1], s[2])
             /\ setup[d].serial # s[2]
    BY DEF Core, UndoneOK
  <2>2. Gone(s)'
    BY <1>1, <2>1 DEF Gone, Busy
  <2>3. ~Verifies(setup'[c].previous.doc, s[1], s[2]) /\ setup'[c].serial # s[2]
    BY <1>0, <1>3, <1>4, <2>1 DEF Gone
  <2> QED BY <1>11, <2>1, <2>2, <2>3
<1> QED BY <1>3, <1>4, <1>5, <1>8, <1>10, <1>12, <1>13 DEF Core

\* A rollback puts back what has none of the secrets that were taken back, and
\* not the one it takes back itself.
LEMMA RollbackKeeps ==
    ASSUME NEW c \in Setups, Core, QuietOK, Rollback(c)
    PROVE  Core'
<1>0. /\ StoreTypeOK /\ SetupTypeOK /\ c \in Procs /\ issued \in Nat /\ OneEntry
      /\ InSetup(c) /\ setup[c].at = "rollback" /\ file' = setup[c].previous
      /\ UNCHANGED <<cli, issued, shown, created, settled, profile, told>>
      /\ SetupEnds(c) /\ Disturbs(c)
      /\ undone' = undone \union (IF quiet[c] THEN {<<setup[c].who, setup[c].serial>>} ELSE {})
  BY SetupsAssumption
     DEF Core, SetupInv, SetupTypeOK, StoreTypeOK, Rollback, TakenBack, InSetup
<1>1. /\ setup[c].who \in Principals /\ setup[c].serial \in Nat
      /\ setup[c].previous.kind \in {"absent", "doc"}
      /\ setup[c].previous \in [kind : {"absent", "torn", "doc"}, doc : Document]
      /\ setup[c].previous.doc \in Document
  BY <1>0, RunningSetup
<1>2. /\ setup[c].previous.kind = "absent" => setup[c].previous.doc = EmptyDoc
      /\ \A p \in Principals : /\ setup[c].previous.doc[p].serial =< issued
                               /\ setup[c].previous.doc[p].serial < setup[c].serial
      /\ setup[c].serial > 0 /\ setup[c].serial =< issued
  BY <1>0, <1>1 DEF Core, RecordsOK, RecordOK
<1>3. StoreTypeOK' /\ StoreOK'
  BY <1>0, <1>1, <1>2 DEF Core, StoreTypeOK, StoreOK, IsDoc, Busy
<1>4. setup' \in [Setups -> SetupRecords] /\ ~InSetup(c)' /\ SetupsStay(c)
  BY <1>0, SetupEnded DEF SetupsStay
<1>5. \A d \in Setups : Tied(d)' /\ (InSetup(d)' => RecordOK(d)')
  <2>1. OthersStay(c) /\ ~Busy(c)'
    BY <1>0 DEF OthersStay, Busy, SetupTypeOK
  <2>2. \A d \in Setups \ {c} : Tied(d)' /\ (InSetup(d)' => RecordOK(d)')
    BY <1>0, <1>4, <2>1, OthersRecords DEF Core
  <2> QED BY <1>4, <2>1, <2>2 DEF Tied
<1>6. undone' \subseteq Principals \X Nat
  BY <1>0, <1>1 DEF SetupTypeOK
<1>7. SetupInv'
  BY <1>0, <1>3, <1>4, <1>5, <1>6, DisturbsType
     DEF SetupInv, SetupTypeOK, OneEntry, Tied, SetupRecords
<1>8. RecordsOK'
  BY <1>5 DEF RecordsOK
<1>9. \A d \in Setups : InSetup(d)' => d # c /\ InSetup(d) /\ setup'[d] = setup[d]
  BY <1>4 DEF SetupsStay, InSetup
<1>10. SerialsOK'
  BY <1>0, <1>9 DEF Core, SerialsOK
<1>11. UndoneOK'
  <2> SUFFICES ASSUME NEW s \in undone'
               PROVE  /\ s[2] \in 1 .. issued /\ s \notin told
                      /\ Gone(s)'
                      /\ \A d \in Setups : InSetup(d)' =>
                           /\ ~Verifies(setup'[d].previous.doc, s[1], s[2])
                           /\ setup'[d].serial # s[2]
    BY <1>0 DEF UndoneOK
  <2>1. CASE s \in undone
    <3>1. /\ s[2] \in 1 .. issued /\ s \notin told /\ Gone(s)
          /\ \A d \in Setups : InSetup(d) =>
               /\ ~Verifies(setup[d].previous.doc, s[1], s[2])
               /\ setup[d].serial # s[2]
      BY <2>1 DEF Core, UndoneOK
    <3>2. Gone(s)'
      BY <1>0, <3>1 DEF Gone, Busy
    <3> QED BY <1>9, <3>1, <3>2
  <2>2. CASE s \notin undone
    <3>1. quiet[c] /\ s = <<setup[c].who, setup[c].serial>>
      BY <1>0, <2>2
    <3>2. s[1] = setup[c].who /\ s[2] = setup[c].serial
      BY <3>1
    <3>3. \A x \in Procs \ {c} : ~Busy(x)
      BY <1>0, <3>1 DEF QuietOK, QuietFor, Undisturbed, Alone
    <3>4. \A d \in Setups \ {c} : ~InSetup(d)
      BY <1>0, <3>1 DEF QuietOK, QuietFor, Undisturbed
    <3>5. ~Busy(c)
      BY <1>0 DEF SetupTypeOK
    <3>6. s[2] \in 1 .. issued /\ s \notin told
      BY <1>0, <1>1, <1>2, <3>2 DEF Core, SerialsOK
    <3>7. ~Verifies(file'.doc, s[1], s[2])
      <4>1. setup[c].previous.doc[setup[c].who].serial \in Nat
        BY <1>1 DEF Document
      <4> QED BY <1>0, <1>1, <1>2, <3>2, <4>1 DEF Verifies
    <3> QED BY <1>0, <1>9, <3>3, <3>4, <3>5, <3>6, <3>7 DEF Gone, Busy
  <2> QED BY <2>1, <2>2
<1> QED BY <1>3, <1>7, <1>8, <1>10, <1>11 DEF Core

LEMMA EditKeeps ==
    ASSUME Core, EditProfile
    PROVE  Core'
<1>1. /\ UNCHANGED <<file, cli, issued, shown, created, settled, setup, told, undone>>
      /\ profile # <<>> /\ profile' = Tail(profile) /\ quiet' \in [Setups -> BOOLEAN]
  BY DEF EditProfile, storeVars
<1>2. profile' \in Seq(Principals) /\ Len(profile') =< 1
  BY <1>1 DEF Core, SetupInv, SetupTypeOK, OneEntry
<1> QED
  BY <1>1, <1>2 DEF Core, SetupInv, SetupTypeOK, OneEntry, StoreTypeOK, StoreOK, RecordsOK,
     RecordOK, SerialsOK, UndoneOK, Gone, IsDoc, Busy, InSetup

LEMMA CoreStep ==
    ASSUME Core, QuietOK, [Next]_vars
    PROVE  Core'
<1>1. ASSUME NEW c \in Setups, SetupStep(c) PROVE Core'
  <2>1. CASE \E p \in Principals : SetupBegins(c, p)
    BY <2>1, BeginsKeeps
  <2>2. CASE IssueSteps(c)
    BY <2>2, IssueStepsKeep
  <2>3. CASE ProfileRead(c)
    BY <2>3, ProfileReadMoves, ProfileShort, MovedKeeps DEF Core
  <2>4. CASE SetupIssueRefused(c) \/ ProfileFails(c) \/ ProfileSaved(c) \/ Tell(c) \/ SetupDies(c)
    <3>1. UNCHANGED profile \/ ProfileSaved(c)
      BY <2>4 DEF SetupIssueRefused, ProfileFails, Tell, SetupDies
    <3> QED BY <2>4, <3>1, OthersMove, ProfileShort, MovedKeeps DEF Core
  <2>5. CASE Rollback(c)
    BY <2>5, RollbackKeeps
  <2> QED BY <1>1, <2>1, <2>2, <2>3, <2>4, <2>5 DEF SetupStep, IssueSteps
<1>2. ASSUME NEW c \in Procs \ Setups, Commands(c) PROVE Core'
  BY <1>2, CommandsKeep
<1>3. CASE EditProfile
  BY <1>3, EditKeeps
<1>4. CASE UNCHANGED vars
  BY <1>4 DEF vars, storeVars, setupVars, Core, SetupInv, SetupTypeOK, OneEntry, StoreTypeOK,
     StoreOK, RecordsOK, RecordOK, SerialsOK, UndoneOK, Gone, IsDoc, Busy, InSetup
<1> QED BY <1>1, <1>2, <1>3, <1>4 DEF Next

-----------------------------------------------------------------------------
(* The setup that nobody disturbs.                                         *)

\* Whoever takes a step, only its own setup is still undisturbed.
LEMMA OnlyOwnQuiet ==
    ASSUME SetupTypeOK, NEW c \in Procs, Disturbs(c),
           c \in Setups /\ quiet[c] /\ InSetup(c)' => QuietFor(c)'
    PROVE  QuietOK'
BY DisturbsType DEF QuietOK

LEMMA StillUndisturbed ==
    ASSUME NEW c \in Setups, QuietFor(c), OthersStay(c), SetupsStay(c)
    PROVE  Undisturbed(c)'
BY DEF QuietFor, Undisturbed, Alone, OthersStay, SetupsStay, InSetup

LEMMA QuietIssue ==
    ASSUME NEW c \in Setups, Core, IssueSteps(c), QuietOK
    PROVE  QuietOK'
<1>0. /\ StoreTypeOK /\ SetupTypeOK /\ c \in Procs /\ issued \in Nat
      /\ CliStep(c) /\ Disturbs(c) /\ UNCHANGED <<profile, told, undone>>
      /\ InSetup(c) /\ setup[c].at = "issue" /\ setup[c] \in SetupRecord
      /\ setup[c].who \in Principals /\ RecordOK(c) /\ StoreOK /\ Tied(c) /\ SetupsStay(c)
  BY IssueStepsAreCli, IssueStepsSetup, SetupsAssumption
     DEF Core, SetupInv, SetupTypeOK, StoreTypeOK, RecordsOK, Tied
<1>1. OthersStay(c)
  BY <1>0, CliOthers
<1> SUFFICES ASSUME quiet[c], InSetup(c)'
             PROVE  QuietFor(c)'
  BY <1>0, OnlyOwnQuiet
<1>2. QuietFor(c)
  BY <1>0 DEF QuietOK
<1>3. Undisturbed(c)'
  BY <1>0, <1>1, <1>2, StillUndisturbed
<1>4. setup[c].previous.doc \in Document /\ setup[c].serial \in Nat
      /\ setup[c].previous.kind \in {"absent", "doc"}
  BY <1>0, RunningSetup
<1>5. CASE SetupIssueReads(c)
  <2>1. IssueRead(c, setup[c].who) /\ setup' = [setup EXCEPT ![c].serial = issued']
        /\ setup[c].serial = 0
    BY <1>0, <1>5 DEF SetupIssueReads
  <2>2. /\ issued' = issued + 1 /\ issued' \in Nat /\ Busy(c)' /\ file' = file
        /\ cli'[c].at \in {"open", "rename"}
        /\ cli'[c].next = WithIssued(DocOrEmpty, setup[c].who, issued')
    BY <1>0, <2>1, IssueReadEffect
  <2>3. /\ setup'[c].at = "issue" /\ setup'[c].who = setup[c].who
        /\ setup'[c].previous = setup[c].previous /\ setup'[c].serial = issued'
    BY <1>0, <2>1 DEF SetupTypeOK, SetupRecord
  <2>4. file = setup[c].previous
    BY <1>0, <1>2, <2>1 DEF QuietFor, RecordOK
  <2>5. DocOrEmpty = setup[c].previous.doc
    BY <1>0, <1>4, <2>4 DEF DocOrEmpty, IsDoc, RecordOK
  <2>6. OneMore(cli[c].next, c)'
    BY <1>0, <1>4, <2>2, <2>3, <2>5, WithIssuedType DEF OneMore
  <2> QED BY <1>3, <2>2, <2>3, <2>4, <2>6 DEF QuietFor
<1>6. CASE SetupIssueOpens(c)
  <2>1. IssueOpen(c) /\ setup' = setup
    BY <1>6 DEF SetupIssueOpens
  <2>2. /\ Busy(c) /\ Busy(c)' /\ cli[c].at = "open" /\ cli'[c].next = cli[c].next
        /\ cli'[c].at = "fill" \/ file' = file
    BY <1>0, <2>1, IssueOpenEffect
  <2>3. OneMore(cli[c].next, c) /\ file = setup[c].previous
    BY <1>0, <1>2, <2>2 DEF QuietFor
  <2>4. OneMore(cli[c].next, c)'
    BY <2>1, <2>2, <2>3 DEF OneMore
  <2> QED BY <1>0, <1>3, <2>1, <2>2, <2>3, <2>4 DEF QuietFor
<1>7. CASE SetupIssueRereads(c)
  <2>1. IssueReread(c) /\ Busy(c)' /\ setup' = setup
    BY <1>7, <1>0, SetupEnded DEF SetupIssueRereads
  <2>2. /\ Busy(c) /\ cli[c].at = "reread" /\ IsDoc /\ cli'[c].at = "rename" /\ file' = file
        /\ cli'[c].next = WithIssued(file.doc, cli[c].who, cli[c].serial)
    BY <1>0, <2>1, IssueRereadEffect
  <2>3. cli[c].who = setup[c].who /\ cli[c].serial = setup[c].serial
    BY <1>0, <2>2 DEF Tied, RecordOK
  <2>4. file = setup[c].previous
    BY <1>0, <1>2, <2>2 DEF QuietFor
  <2>5. OneMore(cli[c].next, c)'
    BY <1>0, <1>4, <2>1, <2>2, <2>3, <2>4, WithIssuedType DEF OneMore
  <2> QED BY <1>0, <1>3, <2>1, <2>2, <2>4, <2>5 DEF QuietFor
<1>8. CASE SetupIssued(c)
  <2>1. (IssueFill(c) \/ RenameOver(c)) /\ SetupGoes(c, "profile")
    BY <1>8 DEF SetupIssued
  <2>2. Busy(c) /\ ~Busy(c)' /\ file'.kind = "doc" /\ file'.doc = cli[c].next
    BY <1>0, <2>1, WriteEffect DEF DocFile
  <2>3. /\ setup'[c].at = "profile"
        /\ setup'[c].who = setup[c].who /\ setup'[c].previous = setup[c].previous
        /\ setup'[c].serial = setup[c].serial
    BY <1>0, <2>1, SetupWent
  <2>4. OneMore(cli[c].next, c)
    BY <1>0, <1>2, <2>2 DEF QuietFor
  <2>5. OneMore(file.doc, c)'
    BY <2>2, <2>3, <2>4 DEF OneMore
  <2> QED BY <1>3, <2>2, <2>3, <2>5 DEF QuietFor, IsDoc
<1>9. CASE SetupIssueFails(c)
  BY <1>0, <1>9, SetupEnded DEF SetupIssueFails
<1> QED BY <1>5, <1>6, <1>7, <1>8, <1>9 DEF IssueSteps

LEMMA QuietMoved ==
    ASSUME NEW c \in Setups, Core, QuietOK, Moved(c), Disturbs(c),
           InSetup(c)' /\ setup'[c].at = "print" => profile' = <<setup'[c].who>>
    PROVE  QuietOK'
<1>0. SetupTypeOK /\ c \in Procs /\ InSetup(c) /\ SetupsStay(c) /\ ~Busy(c)
      /\ file' = file /\ cli' = cli
  BY SetupsAssumption DEF Core, SetupInv, Moved, storeVars
<1> SUFFICES ASSUME quiet[c], InSetup(c)'
             PROVE  QuietFor(c)'
  BY <1>0, OnlyOwnQuiet
<1>1. QuietFor(c)
  BY <1>0 DEF QuietOK
<1>2. OthersStay(c)
  BY <1>0 DEF OthersStay, Busy
<1>3. Undisturbed(c)'
  BY <1>0, <1>1, <1>2, StillUndisturbed
<1>4. /\ setup[c].at # "issue" /\ setup'[c].at # "issue"
      /\ setup'[c].who = setup[c].who /\ setup'[c].previous = setup[c].previous
      /\ setup'[c].serial = setup[c].serial
  BY DEF Moved
<1>5. IsDoc /\ OneMore(file.doc, c)
  BY <1>1, <1>4 DEF QuietFor
<1>6. IsDoc' /\ OneMore(file.doc, c)'
  BY <1>0, <1>4, <1>5 DEF IsDoc, OneMore
<1> QED BY <1>3, <1>4, <1>6 DEF QuietFor

LEMMA QuietBegins ==
    ASSUME NEW c \in Setups, NEW p \in Principals, Core, QuietOK, SetupBegins(c, p)
    PROVE  QuietOK'
<1>1. /\ setup'[c].at = "issue" /\ setup'[c].previous = file /\ SetupsStay(c)
      /\ file' = file /\ cli' = cli /\ ~Busy(c)
      /\ quiet' = [d \in Setups |-> d = c /\ Undisturbed(c)]
  BY BeginsKeeps DEF SetupBegins, storeVars
<1> SUFFICES ASSUME Undisturbed(c)
             PROVE  QuietFor(c)'
  BY <1>1 DEF QuietOK
<1>2. Undisturbed(c)'
  BY <1>1 DEF Undisturbed, Alone, Busy, InSetup, SetupsStay
<1> QED BY <1>1, <1>2 DEF QuietFor, Busy

LEMMA QuietStep ==
    ASSUME Core, QuietOK, [Next]_vars
    PROVE  QuietOK'
<1>1. ASSUME NEW c \in Setups, SetupStep(c) PROVE QuietOK'
  <2>0. SetupTypeOK /\ RecordsOK /\ SetupInv /\ c \in Procs
    BY SetupsAssumption DEF Core, SetupInv
  <2>1. CASE \E p \in Principals : SetupBegins(c, p)
    BY <2>1, QuietBegins
  <2>2. CASE IssueSteps(c)
    BY <2>2, QuietIssue
  <2>3. CASE ProfileRead(c)
    <3>1. setup'[c].at # "print"
      BY <2>0, <2>3 DEF ProfileRead, SetupTypeOK
    <3> QED BY <2>0, <2>3, <3>1, ProfileReadMoves, QuietMoved
  <2>4. CASE SetupIssueRefused(c) \/ ProfileFails(c) \/ Tell(c) \/ SetupDies(c)
    <3>1. InSetup(c)' => setup'[c].at # "print"
      <4>1. CASE SetupIssueRefused(c) \/ Tell(c) \/ SetupDies(c)
        BY <2>0, <4>1, SetupEnded DEF SetupIssueRefused, Tell, SetupDies
      <4>2. CASE ProfileFails(c)
        BY <2>0, <4>2, SetupWent DEF ProfileFails
      <4> QED BY <2>4, <4>1, <4>2
    <3> QED BY <2>0, <2>4, <3>1, OthersMove, QuietMoved
  <2>5. CASE ProfileSaved(c)
    <3>1. setup[c].at = "save" /\ InSetup(c) /\ profile' = setup[c].entries
      BY <2>5 DEF ProfileSaved, InSetup
    <3>2. setup[c].entries = <<setup[c].who>>
      BY <2>0, <3>1 DEF RecordsOK, RecordOK
    <3>3. setup'[c].who = setup[c].who
      BY <2>0, <2>5, <3>1, SetupWent DEF ProfileSaved
    <3> QED BY <2>0, <2>5, <3>1, <3>2, <3>3, OthersMove, QuietMoved
  <2>6. CASE Rollback(c)
    <3>1. Disturbs(c) /\ ~InSetup(c)'
      BY <2>0, <2>6, SetupEnded DEF Rollback, TakenBack
    <3> QED BY <2>0, <3>1, OnlyOwnQuiet
  <2> QED BY <1>1, <2>1, <2>2, <2>3, <2>4, <2>5, <2>6 DEF SetupStep, IssueSteps
<1>2. ASSUME NEW c \in Procs \ Setups, Commands(c) PROVE QuietOK'
  BY <1>2, OnlyOwnQuiet DEF Commands, Core, SetupInv
<1>3. CASE EditProfile
  BY <1>3 DEF EditProfile, QuietOK
<1>4. CASE UNCHANGED vars
  BY <1>4 DEF vars, storeVars, setupVars, QuietOK, QuietFor, Undisturbed, Alone, OneMore, IsDoc,
     Busy, InSetup
<1> QED BY <1>1, <1>2, <1>3, <1>4 DEF Next

-----------------------------------------------------------------------------
(* The theorems.                                                           *)

LEMMA CommitInit == Init => CommitIInv
<1> SUFFICES ASSUME Init PROVE CommitIInv
  OBVIOUS
<1>1. /\ StoreInit /\ setup = [c \in Setups |-> IdleSetup] /\ profile = <<>>
      /\ told = {} /\ undone = {} /\ quiet = [c \in Setups |-> FALSE]
  BY DEF Init
<1>2. StoreTypeOK /\ file.doc = EmptyDoc /\ issued = 0 /\ \A c \in Procs : ~Busy(c)
  BY <1>1, StoreInitInv DEF StoreInv, StoreInit, AbsentFile, Busy, IdleCli
<1>3. \A c \in Setups : ~InSetup(c) /\ ~quiet[c]
  BY <1>1 DEF InSetup, IdleSetup
<1>4. StoreOK
  BY <1>2 DEF StoreOK, EmptyDoc, NoEntry
<1>5. SetupInv
  BY <1>1, <1>2, SetupsAssumption DEF SetupInv, SetupTypeOK, OneEntry
<1>6. RecordsOK /\ SerialsOK /\ UndoneOK /\ QuietOK
  BY <1>1, <1>3 DEF RecordsOK, SerialsOK, UndoneOK, QuietOK
<1> QED BY <1>4, <1>5, <1>6 DEF CommitIInv, Core

LEMMA CommitStep == CommitIInv /\ [Next]_vars => CommitIInv'
BY CoreStep, QuietStep DEF CommitIInv

\* The invariant of all setups, commands and editors together.
THEOREM CommitInvariant == Spec => []CommitIInv
<1> QED
  BY CommitInit, CommitStep, PTL DEF Spec

\* However many setups race, the profile gets one entry, and a setup is inside
\* issueCredential() only while it issues.
THEOREM ProfileHasOneEntry == Spec => []SetupInv
<1>1. CommitIInv => SetupInv
  BY DEF CommitIInv, Core
<1> QED
  BY <1>1, CommitInvariant, PTL

\* A secret that an undisturbed setup took back is told to nobody and never
\* verifies again, whatever others issue, revoke or roll back.
THEOREM RollbackIsForGood == Spec => []UndoneForGood
<1>1. CommitIInv => UndoneForGood
  BY DEF CommitIInv, Core, UndoneOK, UndoneForGood, Gone
<1> QED
  BY <1>1, CommitInvariant, PTL

\* Putting the store back loses nothing of what an undisturbed setup has found.
THEOREM RollbackLosesNothing == Spec => []AddsOneEntry
<1>1. CommitIInv => AddsOneEntry
  <2> SUFFICES ASSUME CommitIInv, NEW c \in Setups,
                      setup[c].at \in {"profile", "save", "rollback"}, quiet[c]
               PROVE  /\ IsDoc /\ Verifies(file.doc, setup[c].who, setup[c].serial)
                      /\ \A p \in Principals \ {setup[c].who} :
                           file.doc[p] = setup[c].previous.doc[p]
    BY DEF AddsOneEntry
  <2>1. InSetup(c) /\ setup[c].at # "issue"
    BY DEF InSetup
  <2>2. IsDoc /\ OneMore(file.doc, c)
    BY <2>1 DEF CommitIInv, QuietOK, QuietFor
  <2>3. setup[c].serial \in Nat /\ setup[c].serial > 0
    BY <2>1, RunningSetup DEF CommitIInv, Core, SetupInv, RecordsOK, RecordOK
  <2> QED BY <2>2, <2>3 DEF OneMore, Verifies, Active, HasEntry
<1> QED
  BY <1>1, CommitInvariant, PTL

\* The secret that an undisturbed setup prints works, for the principal that
\* the profile trusts.
THEOREM PrintedSecretsWork == Spec => ToldWorks
<1> DEFINE Works(c) ==
      setup[c].at = "print" /\ told' # told /\ quiet[c] /\ ~InSetup(c)' =>
        /\ profile' = <<setup[c].who>>
        /\ IsDoc' /\ Verifies(file'.doc, setup[c].who, setup[c].serial)
<1>1. CommitIInv /\ [Next]_vars => [\A c \in Setups : Works(c)]_vars
  <2> SUFFICES ASSUME CommitIInv, Next, NEW c \in Setups,
                      setup[c].at = "print", told' # told, quiet[c], ~InSetup(c)'
               PROVE  /\ profile' = <<setup[c].who>>
                      /\ IsDoc' /\ Verifies(file'.doc, setup[c].who, setup[c].serial)
    OBVIOUS
  <2>1. InSetup(c) /\ QuietFor(c) /\ SetupTypeOK
    BY DEF InSetup, CommitIInv, Core, SetupInv, QuietOK
  <2>2. PICK d \in Setups : Tell(d)
    BY DEF Next, SetupStep, Commands, EditProfile, SetupBegins, SetupIssueReads,
           SetupIssueRefused, SetupIssueOpens, SetupIssueRereads, SetupIssued, SetupIssueFails,
           ProfileRead, ProfileFails, ProfileSaved, Rollback, TakenBack, SetupDies
  <2>3. file' = file /\ profile' = profile
    BY <2>2 DEF Tell, storeVars
  <2>4. profile = <<setup[c].who>> /\ IsDoc /\ OneMore(file.doc, c)
    BY <2>1 DEF QuietFor
  <2>5. setup[c].serial \in Nat /\ setup[c].serial > 0
    BY <2>1, RunningSetup DEF CommitIInv, Core, RecordsOK, RecordOK
  <2> QED BY <2>3, <2>4, <2>5 DEF OneMore, Verifies, Active, HasEntry, IsDoc
<1> QED
  BY <1>1, CommitInvariant, PTL DEF Spec, ToldWorks
=============================================================================
