------------------------ MODULE CredentialStore_proofs ------------------------
(***************************************************************************)
(* Proofs about the credential store, for any principals and any number of *)
(* CLI processes.  StoreInv is inductive; what its parts say about the     *)
(* commands that are running is what FirstIssueKept and RevocationDurable, *)
(* which speak of the file alone, need to be preserved by the next write.  *)
(***************************************************************************)
EXTENDS CredentialStore, TLAPS

LEMMA EmptyDocType == EmptyDoc \in Document
BY DEF EmptyDoc, NoEntry, Document

LEMMA WithIssuedType ==
    ASSUME NEW d \in Document, NEW p \in Principals, NEW n \in Nat
    PROVE  /\ WithIssued(d, p, n) \in Document
           /\ WithIssued(d, p, n)[p] = [serial |-> n, revoked |-> FALSE]
           /\ \A q \in Principals \ {p} : WithIssued(d, p, n)[q] = d[q]
BY DEF WithIssued, Document

LEMMA WithRevokedType ==
    ASSUME NEW d \in Document, NEW p \in Principals
    PROVE  /\ WithRevoked(d, p) \in Document
           /\ WithRevoked(d, p)[p].serial = d[p].serial
           /\ WithRevoked(d, p)[p].revoked
           /\ \A q \in Principals \ {p} : WithRevoked(d, p)[q] = d[q]
BY DEF WithRevoked, Document

\* What the type invariant says of a process that is running a command.
LEMMA BusyIsCommand ==
    ASSUME StoreTypeOK, NEW c \in Procs, Busy(c)
    PROVE  cli[c] \in Command
BY DEF StoreTypeOK, Busy, IdleCli

\* The processes after c has begun command m.
Begun(c, m) ==
    /\ cli' \in [Procs -> {IdleCli} \union Command]
    /\ cli'[c] = m
    /\ \A x \in Procs \ {c} :
          /\ Busy(x)' <=> Busy(x)
          /\ cli'[x].at = cli[x].at
          /\ Busy(x) => /\ cli'[x].op = cli[x].op /\ cli'[x].who = cli[x].who
                        /\ cli'[x].serial = cli[x].serial /\ cli'[x].next = cli[x].next
                        /\ ~cli'[x].alone

LEMMA BeginEffect ==
    ASSUME StoreTypeOK, NEW c \in Procs, NEW m \in Command, Begin(c, m)
    PROVE  Begun(c, m)
<1>1. \A x \in Procs : Busy(x) => cli[x] \in Command
  BY BusyIsCommand
<1>2. \A k \in Command : [k EXCEPT !.alone = FALSE] \in Command
  BY DEF Command
<1>3. cli' \in [Procs -> {IdleCli} \union Command] /\ cli'[c] = m
  BY <1>1, <1>2 DEF Begin, StoreTypeOK
<1>4. \A x \in Procs \ {c} :
        cli'[x] = IF Busy(x) THEN [cli[x] EXCEPT !.alone = FALSE] ELSE cli[x]
  BY DEF Begin
<1>5. \A k \in Command :
        /\ [k EXCEPT !.alone = FALSE].at = k.at
        /\ [k EXCEPT !.alone = FALSE].op = k.op
        /\ [k EXCEPT !.alone = FALSE].who = k.who
        /\ [k EXCEPT !.alone = FALSE].serial = k.serial
        /\ [k EXCEPT !.alone = FALSE].next = k.next
        /\ ~[k EXCEPT !.alone = FALSE].alone
  BY DEF Command
<1> QED
  BY <1>1, <1>3, <1>4, <1>5 DEF Begun, Busy

\* The processes after c has moved on to another point, or has ended.
LEMMA MoveToEffect ==
    ASSUME StoreTypeOK, NEW c \in Procs, Busy(c), NEW pt \in Points, MoveTo(c, pt)
    PROVE  /\ cli' \in [Procs -> {IdleCli} \union Command]
           /\ cli'[c] = [cli[c] EXCEPT !.at = pt]
           /\ cli'[c].at = pt
           /\ cli'[c].op = cli[c].op /\ cli'[c].who = cli[c].who
           /\ cli'[c].serial = cli[c].serial /\ cli'[c].next = cli[c].next
           /\ cli'[c].alone = cli[c].alone
           /\ \A x \in Procs \ {c} : cli'[x] = cli[x]
<1>1. cli[c] \in Command
  BY BusyIsCommand
<1>2. cli' = [cli EXCEPT ![c] = [cli[c] EXCEPT !.at = pt]]
  BY DEF MoveTo, StoreTypeOK
<1>3. [cli[c] EXCEPT !.at = pt] \in Command
  BY <1>1 DEF Command
<1> QED
  BY <1>1, <1>2, <1>3 DEF StoreTypeOK, Command

LEMMA FinishEffect ==
    ASSUME StoreTypeOK, NEW c \in Procs, Finish(c)
    PROVE  /\ cli' \in [Procs -> {IdleCli} \union Command]
           /\ cli'[c] = IdleCli
           /\ ~Busy(c)'
           /\ \A x \in Procs \ {c} : cli'[x] = cli[x]
BY DEF Finish, StoreTypeOK, IdleCli, Busy

LEMMA StoreInitInv == StoreInit => StoreInv
<1>1. StoreInit => StoreTypeOK
  BY EmptyDocType DEF StoreInit, StoreTypeOK, AbsentFile, IdleCli
<1>2. StoreInit => CommandsOK /\ CreationOK /\ SettledOK
  BY DEF StoreInit, CommandsOK, CreationOK, SettledOK, AbsentFile, EmptyDoc, NoEntry,
         IdleCli, Busy, IsDoc
<1> QED
  BY <1>1, <1>2 DEF StoreInv

LEMMA IssueReadInv ==
    ASSUME StoreInv, NEW c \in Procs, NEW p \in Principals, IssueRead(c, p)
    PROVE  StoreInv'
<1> DEFINE d == DocOrEmpty
           new == [at     |-> IF IsEmptyDoc(d) THEN "open" ELSE "rename",
                   op     |-> "issue",
                   who    |-> p,
                   serial |-> issued + 1,
                   next   |-> WithIssued(d, p, issued + 1),
                   alone  |-> Alone(c)]
<1>1. /\ ~Busy(c) /\ issued \in Nat /\ issued' = issued + 1
      /\ file' = file /\ shown' = shown /\ created' = created /\ settled' = settled
  BY DEF IssueRead, StoreInv, StoreTypeOK
<1>2. d \in Document
  BY EmptyDocType DEF DocOrEmpty, StoreInv, StoreTypeOK
<1>3. /\ new.next \in Document
      /\ new.next[p] = [serial |-> issued + 1, revoked |-> FALSE]
      /\ \A q \in Principals \ {p} : new.next[q] = d[q]
  BY <1>1, <1>2, WithIssuedType
<1>4. new \in Command
  <2>1. Alone(c) \in BOOLEAN
    BY DEF Alone
  <2>2. new.at \in Points /\ issued + 1 \in Nat
    BY <1>1 DEF Points
  <2> QED
    BY <1>3, <2>1, <2>2 DEF Command, Document
<1>5. Begun(c, new)
  BY <1>4, BeginEffect DEF IssueRead, StoreInv
<1>6. StoreTypeOK'
  BY <1>1, <1>5 DEF StoreInv, StoreTypeOK, Begun
<1>7. CommandsOK'
  <2>1. \A q \in Principals : file.doc[q].serial \in Nat /\ file.doc[q].serial =< issued
    BY DEF StoreInv, StoreTypeOK, CommandsOK, Document
  <2>2. \A q \in Principals : new.next[q].serial =< issued + 1
    <3>1. \A q \in Principals : d[q].serial \in Nat /\ d[q].serial =< issued
      BY <1>1, <2>1 DEF DocOrEmpty, EmptyDoc, NoEntry
    <3> QED
      BY <1>1, <1>3, <3>1
  <2>3. \A x \in Procs \ {c} : Busy(x) =>
           /\ cli[x].serial \in Nat /\ cli[x].serial =< issued
           /\ \A q \in Principals :
                 cli[x].next[q].serial \in Nat /\ cli[x].next[q].serial =< issued
    BY DEF StoreInv, StoreTypeOK, CommandsOK, Busy, IdleCli, Command
  <2>4. \A x \in Procs \ {c} : Busy(x)' =>
           /\ cli'[x].serial =< issued'
           /\ \A q \in Principals : cli'[x].next[q].serial =< issued'
           /\ cli'[x].op = "revoke" =>
                cli'[x].at = "rename" /\ cli'[x].next[cli'[x].who].revoked
           /\ ~cli'[x].alone
    BY <1>1, <1>5, <2>3 DEF StoreInv, CommandsOK, Begun
  <2>5. new.alone => \A x \in Procs \ {c} : ~Busy(x)'
    BY <1>5 DEF Alone, Begun
  <2> QED
    BY <1>1, <1>5, <2>1, <2>2, <2>4, <2>5 DEF CommandsOK, Begun
<1>8. CreationOK'
  <2>1. IsDoc' <=> IsDoc
    BY <1>1 DEF IsDoc
  <2>2. ~IsEmptyDoc(d) => IsDoc /\ d = file.doc
    BY DEF DocOrEmpty, IsEmptyDoc, EmptyDoc, NoEntry, HasEntry
  <2>3. HasEntry(new.next, p)
    BY <1>1, <1>3 DEF HasEntry
  <2>4. new.at = "rename" => \A q \in created : HasEntry(new.next, q)
    BY <2>2, <2>3, <1>3 DEF HasEntry, StoreInv, CreationOK, StoreTypeOK
  <2> QED
    BY <1>1, <1>5, <2>1, <2>2, <2>3, <2>4 DEF StoreInv, CreationOK, Busy, IsDoc, Begun
<1>9. SettledOK'
  <2> SUFFICES ASSUME NEW s \in settled
               PROVE  /\ s[2] =< issued + 1
                      /\ IsDoc => ~Verifies(file.doc, s[1], s[2])
                      /\ \A x \in Procs : Busy(x)' =>
                            /\ ~Verifies(cli'[x].next, s[1], s[2])
                            /\ cli'[x].op = "issue" => s # <<cli'[x].who, cli'[x].serial>>
    BY <1>1 DEF SettledOK, IsDoc
  <2>1. s[1] \in Principals /\ s[2] \in Nat /\ s[2] =< issued
    BY DEF StoreInv, StoreTypeOK, SettledOK
  <2>2. IsDoc => ~Verifies(file.doc, s[1], s[2])
    BY DEF StoreInv, SettledOK
  <2>3. ~Verifies(new.next, s[1], s[2])
    <3>1. CASE s[1] = p
      BY <1>1, <1>3, <2>1, <3>1 DEF Verifies
    <3>2. CASE s[1] # p
      <4>1. new.next[s[1]] = d[s[1]]
        BY <1>3, <2>1, <3>2
      <4>2. ~Verifies(d, s[1], s[2])
        BY <2>1, <2>2 DEF Verifies, Active, HasEntry, DocOrEmpty, EmptyDoc, NoEntry
      <4> QED
        BY <4>1, <4>2 DEF Verifies, Active, HasEntry
    <3> QED
      BY <3>1, <3>2
  <2>4. s # <<p, issued + 1>>
    BY <1>1, <2>1
  <2> QED
    BY <1>1, <1>5, <2>1, <2>2, <2>3, <2>4 DEF StoreInv, SettledOK, Begun
<1> QED
  BY <1>6, <1>7, <1>8, <1>9 DEF StoreInv

LEMMA RevokeReadInv ==
    ASSUME StoreInv, NEW c \in Procs, NEW p \in Principals, RevokeRead(c, p)
    PROVE  StoreInv'
<1> DEFINE new == [at     |-> "rename",
                   op     |-> "revoke",
                   who    |-> p,
                   serial |-> file.doc[p].serial,
                   next   |-> WithRevoked(file.doc, p),
                   alone  |-> Alone(c)]
<1>1. /\ ~Busy(c) /\ IsDoc /\ HasEntry(file.doc, p)
      /\ file' = file /\ issued' = issued /\ shown' = shown
      /\ created' = created /\ settled' = settled
  BY DEF RevokeRead
<1>2. file.doc \in Document
  BY DEF StoreInv, StoreTypeOK
<1>3. /\ new.next \in Document
      /\ new.next[p].serial = file.doc[p].serial
      /\ new.next[p].revoked
      /\ \A q \in Principals \ {p} : new.next[q] = file.doc[q]
  BY <1>2, WithRevokedType
<1>4. new \in Command
  <2>1. Alone(c) \in BOOLEAN
    BY DEF Alone
  <2>2. file.doc[p].serial \in Nat
    BY <1>2 DEF Document
  <2> QED
    BY <1>3, <2>1, <2>2 DEF Command, Document, Points
<1>5. Begun(c, new)
  BY <1>4, BeginEffect DEF RevokeRead, StoreInv
<1>6. StoreTypeOK'
  BY <1>1, <1>5 DEF StoreInv, StoreTypeOK, Begun
<1>7. CommandsOK'
  <2>1. \A q \in Principals : new.next[q].serial =< issued
    BY <1>3 DEF StoreInv, CommandsOK
  <2>2. new.alone => \A x \in Procs \ {c} : ~Busy(x)'
    BY <1>5 DEF Alone, Begun
  <2> QED
    BY <1>1, <1>3, <1>5, <2>1, <2>2 DEF StoreInv, CommandsOK, Begun
<1>8. CreationOK'
  <2>1. \A q \in created : HasEntry(new.next, q)
    BY <1>1, <1>3 DEF HasEntry, StoreInv, CreationOK, StoreTypeOK
  <2> QED
    BY <1>1, <1>5, <2>1 DEF StoreInv, CreationOK, Busy, IsDoc, Begun
<1>9. SettledOK'
  <2>1. \A s \in settled : ~Verifies(new.next, s[1], s[2])
    BY <1>1, <1>3 DEF StoreInv, StoreTypeOK, SettledOK, Verifies, Active, HasEntry
  <2> QED
    BY <1>1, <1>5, <2>1 DEF StoreInv, SettledOK, Begun, IsDoc
<1> QED
  BY <1>6, <1>7, <1>8, <1>9 DEF StoreInv

LEMMA IssueOpenInv ==
    ASSUME StoreInv, NEW c \in Procs, IssueOpen(c)
    PROVE  StoreInv'
<1>1. Busy(c) /\ cli[c] \in Command /\ cli[c].at = "open"
  BY BusyIsCommand DEF IssueOpen, Busy, StoreInv
<1>2. issued' = issued /\ shown' = shown /\ settled' = settled
  BY DEF IssueOpen
<1>3. cli[c].op = "issue" /\ HasEntry(cli[c].next, cli[c].who)
  BY <1>1 DEF StoreInv, CommandsOK, CreationOK, Command
<1>4. CASE file.kind = "absent"
  <2>1. file' = TornFile /\ MoveTo(c, "fill") /\ created' = created \union {cli[c].who}
    BY <1>4 DEF IssueOpen
  <2>2. created = {} /\ ~IsDoc
    BY <1>4 DEF StoreInv, CreationOK, IsDoc
  <2>3. /\ cli' \in [Procs -> {IdleCli} \union Command]
        /\ cli'[c].at = "fill"
        /\ cli'[c].op = cli[c].op /\ cli'[c].who = cli[c].who
        /\ cli'[c].serial = cli[c].serial /\ cli'[c].next = cli[c].next
        /\ cli'[c].alone = cli[c].alone
        /\ \A x \in Procs \ {c} : cli'[x] = cli[x]
    BY <1>1, <2>1, MoveToEffect DEF StoreInv, Points
  <2>4. StoreTypeOK'
    BY <1>1, <1>2, <2>1, <2>3, EmptyDocType DEF StoreInv, StoreTypeOK, TornFile, Command
  <2>5. CommandsOK'
    <3>1. \A p \in Principals : file'.doc[p].serial =< issued
      BY <2>1 DEF TornFile, EmptyDoc, NoEntry, StoreInv, StoreTypeOK
    <3>2. \A x \in Procs : Busy(x)' <=> Busy(x)
      BY <1>1, <2>3 DEF Busy
    <3> QED
      BY <1>2, <1>3, <2>3, <3>1, <3>2 DEF StoreInv, CommandsOK
  <2>6. CreationOK'
    <3>1. cli[c].serial > 0 /\ \A x \in Procs : cli[x].at \notin {"fill", "rename"}
      BY <1>1, <1>4, <2>2 DEF StoreInv, CreationOK
    <3> QED
      BY <1>3, <2>1, <2>2, <2>3, <3>1 DEF StoreInv, CreationOK, TornFile, IsDoc
  <2>7. SettledOK'
    BY <1>1, <1>2, <2>1, <2>3 DEF StoreInv, SettledOK, TornFile, IsDoc, Busy
  <2> QED
    BY <2>4, <2>5, <2>6, <2>7 DEF StoreInv
<1>5. CASE file.kind # "absent"
  <2>1. file' = file /\ MoveTo(c, "reread") /\ created' = created
    BY <1>5 DEF IssueOpen
  <2>3. /\ cli' \in [Procs -> {IdleCli} \union Command]
        /\ cli'[c].at = "reread"
        /\ cli'[c].op = cli[c].op /\ cli'[c].who = cli[c].who
        /\ cli'[c].serial = cli[c].serial /\ cli'[c].next = cli[c].next
        /\ cli'[c].alone = cli[c].alone
        /\ \A x \in Procs \ {c} : cli'[x] = cli[x]
    BY <1>1, <2>1, MoveToEffect DEF StoreInv, Points
  <2>4. StoreTypeOK'
    BY <1>2, <2>1, <2>3 DEF StoreInv, StoreTypeOK
  <2>5. CommandsOK'
    <3>1. \A x \in Procs : Busy(x)' <=> Busy(x)
      BY <1>1, <2>3 DEF Busy
    <3> QED
      BY <1>2, <1>3, <2>1, <2>3, <3>1 DEF StoreInv, CommandsOK
  <2>6. CreationOK'
    BY <1>1, <2>1, <2>3 DEF StoreInv, CreationOK, IsDoc
  <2>7. SettledOK'
    BY <1>1, <1>2, <2>1, <2>3 DEF StoreInv, SettledOK, IsDoc, Busy
  <2> QED
    BY <2>4, <2>5, <2>6, <2>7 DEF StoreInv
<1> QED
  BY <1>4, <1>5

\* A write of the document a process holds, by IssueFill or by RenameOver: the
\* types and serials, which do not depend on how the file was replaced.
LEMMA WriteTypes ==
    ASSUME StoreInv, NEW c \in Procs, Busy(c), Finish(c),
           file' = DocFile(cli[c].next), issued' = issued,
           shown' \subseteq shown \union {<<cli[c].who, cli[c].serial>>},
           settled' \subseteq settled \union {<<cli[c].who, cli[c].serial>>},
           created' = created
    PROVE  StoreTypeOK' /\ CommandsOK'
<1>1. cli[c] \in Command
  BY BusyIsCommand DEF StoreInv
<1>2. /\ cli' \in [Procs -> {IdleCli} \union Command]
      /\ ~Busy(c)' /\ \A x \in Procs \ {c} : cli'[x] = cli[x]
  BY FinishEffect DEF StoreInv
<1>3. file' \in [kind : {"absent", "torn", "doc"}, doc : Document]
  BY <1>1 DEF DocFile, Command, Document
<1>4. StoreTypeOK'
  BY <1>1, <1>2, <1>3 DEF StoreInv, StoreTypeOK, Command
<1>5. CommandsOK'
  BY <1>2 DEF StoreInv, CommandsOK, DocFile, Busy
<1> QED
  BY <1>4, <1>5

LEMMA IssueFillInv ==
    ASSUME StoreInv, NEW c \in Procs, IssueFill(c)
    PROVE  StoreInv'
<1>1. Busy(c) /\ cli[c].at = "fill" /\ Finish(c)
  BY DEF IssueFill, Busy
<1>2. /\ file' = DocFile(cli[c].next) /\ issued' = issued
      /\ created' = created /\ settled' = settled
      /\ shown' = shown \union {<<cli[c].who, cli[c].serial>>}
  BY DEF IssueFill
<1>3. cli'[c] = IdleCli /\ ~Busy(c)' /\ \A x \in Procs \ {c} : cli'[x] = cli[x]
  BY <1>1, FinishEffect DEF StoreInv
<1>4. StoreTypeOK' /\ CommandsOK'
  BY <1>1, <1>2, WriteTypes
<1>5. IsDoc' /\ file'.kind = "doc" /\ file'.doc = cli[c].next
  BY <1>2 DEF DocFile, IsDoc
<1>6. CreationOK'
  BY <1>1, <1>2, <1>3, <1>5 DEF StoreInv, CreationOK, IsDoc, IdleCli
<1>7. SettledOK'
  BY <1>1, <1>2, <1>3, <1>5 DEF StoreInv, SettledOK, Busy
<1> QED
  BY <1>4, <1>6, <1>7 DEF StoreInv

LEMMA RenameOverInv ==
    ASSUME StoreInv, NEW c \in Procs, RenameOver(c)
    PROVE  StoreInv'
<1>1. Busy(c) /\ cli[c].at = "rename" /\ Finish(c) /\ cli[c] \in Command
  BY BusyIsCommand DEF RenameOver, Busy, StoreInv
<1>2. /\ file' = DocFile(cli[c].next) /\ issued' = issued /\ created' = created
      /\ shown' \subseteq shown \union {<<cli[c].who, cli[c].serial>>}
      /\ settled' = IF cli[c].op = "revoke" /\ cli[c].alone
                      THEN settled \union {<<cli[c].who, cli[c].serial>>} ELSE settled
  BY DEF RenameOver, Report
<1>3. cli'[c] = IdleCli /\ ~Busy(c)' /\ \A x \in Procs \ {c} : cli'[x] = cli[x]
  BY <1>1, FinishEffect DEF StoreInv
<1>4. StoreTypeOK' /\ CommandsOK'
  <2>1. settled' \subseteq settled \union {<<cli[c].who, cli[c].serial>>}
    BY <1>2
  <2> QED
    BY <1>1, <1>2, <2>1, WriteTypes
<1>5. IsDoc' /\ file'.kind = "doc" /\ file'.doc = cli[c].next
  BY <1>2 DEF DocFile, IsDoc
<1>6. CreationOK'
  BY <1>1, <1>2, <1>3, <1>5 DEF StoreInv, CreationOK, IsDoc, IdleCli
<1>7. SettledOK'
  <2>1. \A s \in settled :
          /\ s[2] =< issued
          /\ ~Verifies(file'.doc, s[1], s[2])
          /\ \A x \in Procs : Busy(x)' =>
                /\ ~Verifies(cli'[x].next, s[1], s[2])
                /\ cli'[x].op = "issue" => s # <<cli'[x].who, cli'[x].serial>>
    BY <1>1, <1>3, <1>5 DEF StoreInv, SettledOK, Busy
  <2>2. CASE cli[c].op = "revoke" /\ cli[c].alone
    <3>1. \A x \in Procs : ~Busy(x)'
      BY <1>1, <1>3, <2>2 DEF StoreInv, CommandsOK, Busy
    <3>2. cli[c].serial =< issued /\ cli[c].next[cli[c].who].revoked
      BY <1>1, <2>2 DEF StoreInv, CommandsOK
    <3> QED
      BY <1>2, <1>5, <2>1, <2>2, <3>1, <3>2 DEF SettledOK, Verifies, Active
  <2>3. CASE ~(cli[c].op = "revoke" /\ cli[c].alone)
    BY <1>2, <2>1, <2>3 DEF SettledOK
  <2> QED
    BY <2>2, <2>3
<1> QED
  BY <1>4, <1>6, <1>7 DEF StoreInv

LEMMA WriteThrowsInv ==
    ASSUME StoreInv, NEW c \in Procs, WriteThrows(c)
    PROVE  StoreInv'
<1>1. Busy(c) /\ cli[c].at \in {"fill", "rename"} /\ Finish(c)
  BY DEF WriteThrows, Busy
<1>2. /\ file' = DocFile(cli[c].next)
      /\ UNCHANGED <<issued, shown, created, settled>>
  BY DEF WriteThrows
<1>3. cli'[c] = IdleCli /\ ~Busy(c)' /\ \A x \in Procs \ {c} : cli'[x] = cli[x]
  BY <1>1, FinishEffect DEF StoreInv
<1>4. StoreTypeOK' /\ CommandsOK'
  BY <1>1, <1>2, WriteTypes
<1>5. IsDoc' /\ file'.kind = "doc" /\ file'.doc = cli[c].next
  BY <1>2 DEF DocFile, IsDoc
<1>6. CreationOK'
  BY <1>1, <1>2, <1>3, <1>5 DEF StoreInv, CreationOK, IsDoc, IdleCli
<1>7. SettledOK'
  BY <1>1, <1>2, <1>3, <1>5 DEF StoreInv, SettledOK, Busy
<1> QED
  BY <1>4, <1>6, <1>7 DEF StoreInv

LEMMA StopInv ==
    ASSUME StoreInv, NEW c \in Procs, Finish(c),
           UNCHANGED <<file, issued, shown, created, settled>>
    PROVE  StoreInv'
<1>1. /\ cli' \in [Procs -> {IdleCli} \union Command]
      /\ cli'[c] = IdleCli /\ ~Busy(c)' /\ \A x \in Procs \ {c} : cli'[x] = cli[x]
  BY FinishEffect DEF StoreInv
<1>2. StoreTypeOK'
  BY <1>1 DEF StoreInv, StoreTypeOK
<1>3. CommandsOK'
  BY <1>1 DEF StoreInv, CommandsOK, Busy
<1>4. CreationOK'
  BY <1>1 DEF StoreInv, CreationOK, IsDoc, IdleCli
<1>5. SettledOK'
  BY <1>1 DEF StoreInv, SettledOK, IsDoc, Busy
<1> QED
  BY <1>2, <1>3, <1>4, <1>5 DEF StoreInv

LEMMA IssueRereadInv ==
    ASSUME StoreInv, NEW c \in Procs, IssueReread(c)
    PROVE  StoreInv'
<1> DEFINE next == WithIssued(file.doc, cli[c].who, cli[c].serial)
<1>1. Busy(c) /\ cli[c] \in Command /\ cli[c].at = "reread"
  BY BusyIsCommand DEF IssueReread, Busy, StoreInv
<1>2. UNCHANGED <<file, issued, shown, created, settled>>
  BY DEF IssueReread
<1>3. CASE ~(IsDoc /\ ~Active(file.doc, cli[c].who))
  BY <1>2, <1>3, StopInv DEF IssueReread
<1>4. CASE IsDoc /\ ~Active(file.doc, cli[c].who)
  <2>1. cli' = [cli EXCEPT ![c] = [cli[c] EXCEPT !.at = "rename", !.next = next]]
    BY <1>4 DEF IssueReread, StoreInv, StoreTypeOK
  <2>2. /\ next \in Document
        /\ next[cli[c].who] = [serial |-> cli[c].serial, revoked |-> FALSE]
        /\ \A q \in Principals \ {cli[c].who} : next[q] = file.doc[q]
    BY <1>1, WithIssuedType DEF StoreInv, StoreTypeOK, Command
  <2>3. [cli[c] EXCEPT !.at = "rename", !.next = next] \in Command
    BY <1>1, <2>2 DEF Command, Points, Document
  <2>4. /\ cli' \in [Procs -> {IdleCli} \union Command]
        /\ cli'[c].at = "rename" /\ cli'[c].next = next
        /\ cli'[c].op = cli[c].op /\ cli'[c].who = cli[c].who
        /\ cli'[c].serial = cli[c].serial /\ cli'[c].alone = cli[c].alone
        /\ \A x \in Procs \ {c} : cli'[x] = cli[x]
    BY <1>1, <2>1, <2>3 DEF StoreInv, StoreTypeOK, Command
  <2>5. /\ cli[c].op = "issue" /\ cli[c].serial \in Nat /\ cli[c].serial =< issued
        /\ cli[c].who \in Principals
    BY <1>1 DEF StoreInv, CommandsOK, Command
  <2>6. StoreTypeOK'
    BY <1>2, <2>4 DEF StoreInv, StoreTypeOK
  <2>7. CommandsOK'
    <3>1. \A q \in Principals : next[q].serial =< issued
      <4>1. next[cli[c].who].serial =< issued
        BY <2>2, <2>5
      <4>2. \A q \in Principals \ {cli[c].who} : next[q].serial =< issued
        BY <2>2 DEF StoreInv, CommandsOK
      <4> QED
        BY <4>1, <4>2
    <3>2. \A x \in Procs : Busy(x)' <=> Busy(x)
      BY <1>1, <2>4 DEF Busy
    <3> QED
      BY <1>1, <1>2, <2>4, <2>5, <3>1, <3>2 DEF StoreInv, CommandsOK
  <2>8. CreationOK'
    <3>1. \A q \in created : q # cli[c].who => HasEntry(next, q)
      BY <1>4, <2>2 DEF HasEntry, StoreInv, CreationOK, StoreTypeOK
    <3>2. cli[c].serial > 0
      BY <1>1 DEF StoreInv, CreationOK
    <3> QED
      BY <1>2, <1>4, <2>2, <2>4, <3>1, <3>2 DEF StoreInv, CreationOK, IsDoc, HasEntry
  <2>9. SettledOK'
    <3>1. \A s \in settled : ~Verifies(next, s[1], s[2])
      <4> SUFFICES ASSUME NEW s \in settled PROVE ~Verifies(next, s[1], s[2])
        OBVIOUS
      <4>1. s = <<s[1], s[2]>> /\ s[1] \in Principals /\ s # <<cli[c].who, cli[c].serial>>
        BY <1>1, <2>5 DEF StoreInv, StoreTypeOK, SettledOK
      <4>2. CASE s[1] = cli[c].who
        BY <2>2, <4>1, <4>2 DEF Verifies
      <4>3. CASE s[1] # cli[c].who
        BY <1>4, <2>2, <4>1, <4>3 DEF StoreInv, SettledOK, Verifies, Active, HasEntry
      <4> QED
        BY <4>2, <4>3
    <3>2. \A x \in Procs : Busy(x)' <=> Busy(x)
      BY <1>1, <2>4 DEF Busy
    <3> QED
      BY <1>2, <2>4, <3>1, <3>2 DEF StoreInv, SettledOK, IsDoc
  <2> QED
    BY <2>6, <2>7, <2>8, <2>9 DEF StoreInv
<1> QED
  BY <1>3, <1>4

\* One step of the store, whoever takes it.
LEMMA StoreStepInv == StoreInv /\ [StoreNext]_storeVars => StoreInv'
<1> SUFFICES ASSUME StoreInv, [StoreNext]_storeVars PROVE StoreInv'
  OBVIOUS
<1>1. ASSUME NEW c \in Procs, CliStep(c) PROVE StoreInv'
  <2>1. ASSUME NEW p \in Principals, IssueRead(c, p) PROVE StoreInv'
    BY <2>1, IssueReadInv
  <2>2. ASSUME NEW p \in Principals, RevokeRead(c, p) PROVE StoreInv'
    BY <2>2, RevokeReadInv
  <2>3. CASE IssueOpen(c)
    BY <2>3, IssueOpenInv
  <2>4. CASE IssueFill(c)
    BY <2>4, IssueFillInv
  <2>5. CASE IssueReread(c)
    BY <2>5, IssueRereadInv
  <2>6. CASE RenameOver(c)
    BY <2>6, RenameOverInv
  <2>7. CASE Stop(c)
    BY <2>7, StopInv DEF Stop
  <2>8. CASE WriteThrows(c)
    BY <2>8, WriteThrowsInv
  <2> QED
    BY <1>1, <2>1, <2>2, <2>3, <2>4, <2>5, <2>6, <2>7, <2>8 DEF CliStep
<1>2. CASE UNCHANGED storeVars
  BY <1>2 DEF storeVars, StoreInv, StoreTypeOK, CommandsOK, CreationOK, SettledOK,
              IsDoc, Busy
<1> QED
  BY <1>1, <1>2 DEF StoreNext

\* The invariant holds in every run of the CLI processes.
THEOREM StoreInvariant == StoreSpec => []StoreInv
<1> QED
  BY StoreInitInv, StoreStepInv, PTL DEF StoreSpec

\* The entry that created the store file is never lost, however many first
\* issues race and whenever one of them dies.
THEOREM FirstIssueIsKept == StoreSpec => []FirstIssueKept
<1>1. StoreInv => FirstIssueKept
  BY DEF StoreInv, CreationOK, FirstIssueKept
<1> QED
  BY <1>1, StoreInvariant, PTL

\* A revocation that overlapped no other command is never undone, whatever
\* commands, concurrent or not, follow it.
THEOREM RevocationIsDurable == StoreSpec => []RevocationDurable
<1>1. StoreInv => RevocationDurable
  BY DEF StoreInv, SettledOK, RevocationDurable
<1> QED
  BY <1>1, StoreInvariant, PTL

\* A reader never meets a torn or missing file again once there is a document.
THEOREM DocumentIsNeverTorn == StoreSpec => DocumentNeverTorn
<1>1. StoreInv /\ [StoreNext]_storeVars => [IsDoc => file'.kind = "doc"]_storeVars
  <2> SUFFICES ASSUME StoreInv, NEW c \in Procs, CliStep(c), IsDoc
               PROVE  file'.kind = "doc"
    BY DEF StoreNext
  <2>1. CASE IssueFill(c) \/ RenameOver(c) \/ WriteThrows(c)
    BY <2>1 DEF IssueFill, RenameOver, WriteThrows, DocFile
  <2>2. CASE IssueOpen(c)
    BY <2>2 DEF IssueOpen, IsDoc
  <2>3. CASE IssueReread(c) \/ Stop(c)
    BY <2>3 DEF IssueReread, Stop, IsDoc
  <2>4. ASSUME NEW p \in Principals, IssueRead(c, p) \/ RevokeRead(c, p)
        PROVE  file'.kind = "doc"
    BY <2>4 DEF IssueRead, RevokeRead, IsDoc
  <2> QED
    BY <2>1, <2>2, <2>3, <2>4 DEF CliStep
<1> QED
  BY <1>1, StoreInvariant, PTL DEF StoreSpec, DocumentNeverTorn

\* The only writer a torn file ever meets is the one that created it: a command
\* about to rename has read a document, and a document never turns torn.
THEOREM TornIsLeftAlone == StoreSpec => TornLeftAlone
<1>1. StoreInv /\ [StoreNext]_storeVars
        => [file.kind = "torn" /\ file' # file =>
              \E c \in Procs : cli[c].at = "fill" /\ file' = DocFile(cli[c].next)]_storeVars
  <2> SUFFICES ASSUME StoreInv, NEW c \in Procs, CliStep(c), file.kind = "torn", file' # file
               PROVE  cli[c].at = "fill" /\ file' = DocFile(cli[c].next)
    BY DEF StoreNext
  <2>1. CASE IssueFill(c)
    BY <2>1 DEF IssueFill
  <2>2. CASE RenameOver(c)
    BY <2>2 DEF RenameOver, StoreInv, CreationOK, IsDoc
  <2>3. CASE IssueOpen(c)
    BY <2>3 DEF IssueOpen
  <2>4. CASE IssueReread(c) \/ Stop(c)
    BY <2>4 DEF IssueReread, Stop
  <2>5. ASSUME NEW p \in Principals, IssueRead(c, p) \/ RevokeRead(c, p)
        PROVE  FALSE
    BY <2>5 DEF IssueRead, RevokeRead
  <2>6. CASE WriteThrows(c)
    BY <2>6 DEF WriteThrows, StoreInv, CreationOK, IsDoc
  <2> QED
    BY <2>1, <2>2, <2>3, <2>4, <2>5, <2>6 DEF CliStep
<1> QED
  BY <1>1, StoreInvariant, PTL DEF StoreSpec, TornLeftAlone

\* No command ever tears the document of another, or takes a document that is
\* only being created for an empty store (writeCredentialStore).
THEOREM FileIsKeptWhole == StoreSpec => FileStaysWhole
  BY DocumentIsNeverTorn, TornIsLeftAlone DEF FileStaysWhole
=============================================================================
