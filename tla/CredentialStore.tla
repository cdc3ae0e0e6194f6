--------------------------- MODULE CredentialStore ---------------------------
(***************************************************************************)
(* The gateway-credential store: one JSON file, rewritten by short-lived   *)
(* CLI processes (issueCredential and revokeCredential of                  *)
(* src/auth/credential-store.mjs) that share no lock.  Every file system   *)
(* call another process can see is a step of its own: the read, the        *)
(* exclusive open that creates the file empty, the write that fills it,    *)
(* the second read after EEXIST, and the rename that replaces it.  A       *)
(* process may stop (a crash, a signal, a failed write) between any two.   *)
(***************************************************************************)
EXTENDS Naturals

CONSTANTS
    Principals,   \* the names credentials are issued to
    Procs,        \* the CLI processes that can run at the same time
    MaxSecrets    \* bound: how many secrets are ever generated

ASSUME MaxSecretsAssumption == MaxSecrets \in Nat

VARIABLES
    file,     \* the store file: absent, torn (not JSON yet) or a document
    cli,      \* what each CLI process is doing
    issued,   \* how many secrets were generated so far
    shown,    \* the secrets an issue command returned to its operator
    created,  \* history: the principals whose entry created the file
    settled   \* history: the secrets revoked while no other process ran

storeVars == <<file, cli, issued, shown, created, settled>>

-----------------------------------------------------------------------------
(* The document.  A secret is a serial number, as randomBytes(32) never    *)
(* repeats; serial 0 stands for "no entry".                                *)

NoEntry == [serial |-> 0, revoked |-> FALSE]

EmptyDoc == [p \in Principals |-> NoEntry]

AbsentFile == [kind |-> "absent", doc |-> EmptyDoc]
TornFile   == [kind |-> "torn",   doc |-> EmptyDoc]
DocFile(d) == [kind |-> "doc",    doc |-> d]

IsDoc == file.kind = "doc"

HasEntry(d, p) == d[p].serial > 0

Active(d, p) == HasEntry(d, p) /\ ~d[p].revoked

IsEmptyDoc(d) == \A p \in Principals : ~HasEntry(d, p)

\* lookupCredential: the unrevoked entry this secret verifies, if there is one.
Verifies(d, p, serial) == Active(d, p) /\ d[p].serial = serial

\* A re-issue that only clears the revoked flag and keeps the verifier.
WithIssued_Reenable(d, p, serial) ==
    [d EXCEPT ![p] = [serial  |-> IF HasEntry(d, p) THEN d[p].serial ELSE serial,
                      revoked |-> FALSE]]

\* The document an issue writes: the other entries and a fresh one for p.
WithIssued(d, p, serial) == [d EXCEPT ![p] = [serial |-> serial, revoked |-> FALSE]]

WithRevoked(d, p) == [d EXCEPT ![p].revoked = TRUE]

\* What a reader that takes a missing file for an empty store works on.
DocOrEmpty == IF IsDoc THEN file.doc ELSE EmptyDoc

Live(p) == IsDoc /\ Active(file.doc, p)

-----------------------------------------------------------------------------
(* The processes.                                                          *)

IdleCli == [at |-> "idle"]

Busy(c) == cli[c].at # "idle"

Points == {"open", "fill", "reread", "rename"}

Command == [at : Points, op : {"issue", "revoke"}, who : Principals, serial : Nat,
            next : [Principals -> [serial : Nat, revoked : BOOLEAN]], alone : BOOLEAN]

Alone(c) == \A y \in Procs \ {c} : ~Busy(y)

\* A command that starts now: it overlaps the others that are running.
Begin(c, command) ==
    cli' = [x \in Procs |->
              IF x = c THEN command
              ELSE IF Busy(x) THEN [cli[x] EXCEPT !.alone = FALSE]
              ELSE cli[x]]

MoveTo(c, point) == cli' = [cli EXCEPT ![c].at = point]

Finish(c) == cli' = [cli EXCEPT ![c] = IdleCli]

\* issueCredential up to its first write: a fresh secret, the read (a missing
\* file is an empty store, a torn one throws), the refusal of an active entry.
IssueRead(c, p) ==
    /\ ~Busy(c)
    /\ issued < MaxSecrets
    /\ issued' = issued + 1
    /\ file.kind # "torn"
    /\ ~Active(DocOrEmpty, p)
    /\ Begin(c, [at     |-> IF IsEmptyDoc(DocOrEmpty) THEN "open" ELSE "rename",
                 op     |-> "issue",
                 who    |-> p,
                 serial |-> issued + 1,
                 next   |-> WithIssued(DocOrEmpty, p, issued + 1),
                 alone  |-> Alone(c)])
    /\ UNCHANGED <<file, shown, created, settled>>

\* open(path, 'wx'): creates the file, empty, or fails with EEXIST.
IssueOpen(c) ==
    /\ cli[c].at = "open"
    /\ IF file.kind = "absent"
         THEN /\ file' = TornFile
              /\ MoveTo(c, "fill")
              /\ created' = created \union {cli[c].who}
         ELSE /\ MoveTo(c, "reread")
              /\ UNCHANGED <<file, created>>
    /\ UNCHANGED <<issued, shown, settled>>

\* handle.writeFile and close: the new file now holds the document.
IssueFill(c) ==
    /\ cli[c].at = "fill"
    /\ file' = DocFile(cli[c].next)
    /\ shown' = shown \union {<<cli[c].who, cli[c].serial>>}
    /\ Finish(c)
    /\ UNCHANGED <<issued, created, settled>>

\* After EEXIST an issue that writes the document of its first read.
IssueReread_Stale(c) ==
    /\ cli[c].at = "reread"
    /\ MoveTo(c, "rename")
    /\ UNCHANGED <<file, issued, shown, created, settled>>

\* After EEXIST: read again, refuse an active entry, write by rename.
IssueReread(c) ==
    /\ cli[c].at = "reread"
    /\ IF IsDoc /\ ~Active(file.doc, cli[c].who)
         THEN cli' = [cli EXCEPT ![c] =
                        [@ EXCEPT !.at = "rename",
                                  !.next = WithIssued(file.doc, cli[c].who, cli[c].serial)]]
         ELSE Finish(c)
    /\ UNCHANGED <<file, issued, shown, created, settled>>

\* revokeCredential up to its write: the entry must be there (revoked or not).
RevokeRead(c, p) ==
    /\ ~Busy(c)
    /\ IsDoc
    /\ HasEntry(file.doc, p)
    /\ Begin(c, [at     |-> "rename",
                 op     |-> "revoke",
                 who    |-> p,
                 serial |-> file.doc[p].serial,
                 next   |-> WithRevoked(file.doc, p),
                 alone  |-> Alone(c)])
    /\ UNCHANGED <<file, issued, shown, created, settled>>

\* The end of a command that succeeded: an issue returns its secret.
Report(c) ==
    /\ shown' = IF cli[c].op = "issue"
                  THEN shown \union {<<cli[c].who, cli[c].serial>>} ELSE shown
    /\ settled' = IF cli[c].op = "revoke" /\ cli[c].alone
                    THEN settled \union {<<cli[c].who, cli[c].serial>>} ELSE settled

\* A rewrite in place: the file is truncated first and written afterwards.
RenameOver_InPlace(c) ==
    /\ cli[c].at = "rename"
    /\ IF file.kind = "torn"
         THEN file' = DocFile(cli[c].next) /\ Report(c) /\ Finish(c)
         ELSE file' = TornFile /\ UNCHANGED <<cli, shown, settled>>
    /\ UNCHANGED <<issued, created>>

\* The temporary file, complete, takes the store's place in one step.
RenameOver(c) ==
    /\ cli[c].at = "rename"
    /\ file' = DocFile(cli[c].next)
    /\ Report(c)
    /\ Finish(c)
    /\ UNCHANGED <<issued, created>>

\* The process stops before its next file system call: a crash, a signal, or
\* a call that failed and threw.
Stop(c) ==
    /\ Busy(c)
    /\ Finish(c)
    /\ UNCHANGED <<file, issued, shown, created, settled>>

\* The document is in place, and the command fails all the same: its process
\* ends before it reports, or the close or the last chmod throws.
WriteThrows(c) ==
    /\ cli[c].at \in {"fill", "rename"}
    /\ file' = DocFile(cli[c].next)
    /\ Finish(c)
    /\ UNCHANGED <<issued, shown, created, settled>>

-----------------------------------------------------------------------------
StoreInit ==
    /\ file = AbsentFile
    /\ cli = [c \in Procs |-> IdleCli]
    /\ issued = 0
    /\ shown = {}
    /\ created = {}
    /\ settled = {}

CliStep(c) ==
    \/ \E p \in Principals : IssueRead(c, p) \/ RevokeRead(c, p)
    \/ IssueOpen(c)
    \/ IssueFill(c)
    \/ IssueReread(c)
    \/ RenameOver(c)
    \/ WriteThrows(c)
    \/ Stop(c)

StoreNext == \E c \in Procs : CliStep(c)

StoreSpec == StoreInit /\ [][StoreNext]_storeVars

-----------------------------------------------------------------------------
(* Properties.                                                             *)

Document == [Principals -> [serial : Nat, revoked : BOOLEAN]]

\* The type invariant: what the file, the processes and the histories hold.
StoreTypeOK ==
    /\ file \in [kind : {"absent", "torn", "doc"}, doc : Document]
    /\ cli \in [Procs -> {IdleCli} \union Command]
    /\ issued \in Nat
    /\ shown \subseteq Principals \X Nat
    /\ created \subseteq Principals
    /\ settled \subseteq Principals \X Nat

\* Serials are numbered in the order they were drawn, and a command that is
\* alone is the only one running.
CommandsOK ==
    /\ \A p \in Principals : file.doc[p].serial =< issued
    /\ \A c \in Procs : Busy(c) =>
          /\ cli[c].serial =< issued
          /\ \A p \in Principals : cli[c].next[p].serial =< issued
          /\ cli[c].op = "revoke" =>
               cli[c].at = "rename" /\ cli[c].next[cli[c].who].revoked
          /\ cli[c].alone => \A d \in Procs \ {c} : ~Busy(d)

\* At most one process is filling the file, and it is the one that created it;
\* one about to rename has read a document, with the creator's entry in it.
CreationOK ==
    /\ file.kind = "absent" => created = {}
    /\ IsDoc => \A p \in created : HasEntry(file.doc, p)
    /\ \A c \in Procs :
          /\ cli[c].at \in {"open", "fill"} => HasEntry(cli[c].next, cli[c].who)
          /\ cli[c].at \in {"open", "fill", "reread"} => cli[c].serial > 0
          /\ cli[c].at = "fill" =>
               /\ file.kind = "torn"
               /\ created \subseteq {cli[c].who}
               /\ \A d \in Procs : cli[d].at = "fill" => d = c
          /\ cli[c].at = "rename" =>
               IsDoc /\ \A p \in created : HasEntry(cli[c].next, p)

\* A secret that is revoked for good is live in no document, on disk or held
\* by a process that is going to write it.
SettledOK ==
    \A s \in settled :
        /\ s[2] =< issued
        /\ IsDoc => ~Verifies(file.doc, s[1], s[2])
        /\ \A c \in Procs : Busy(c) =>
              /\ ~Verifies(cli[c].next, s[1], s[2])
              /\ cli[c].op = "issue" => s # <<cli[c].who, cli[c].serial>>

\* The inductive invariant FirstIssueKept and RevocationDurable follow from.
StoreInv == StoreTypeOK /\ CommandsOK /\ CreationOK /\ SettledOK

\* The exclusive create works: the entry that brought the file into being is
\* in every later document, whatever other first issues were racing it
\* (credential-store.mjs: wx, EEXIST and the second read).
FirstIssueKept == IsDoc => \A p \in created : HasEntry(file.doc, p)

\* A revocation that no other CLI process overlapped is for good: no later
\* issue, re-issue or revocation makes that secret verify again.
RevocationDurable ==
    \A p \in Principals, n \in 1 .. MaxSecrets :
        <<p, n>> \in settled => ~(IsDoc /\ Verifies(file.doc, p, n))

\* Once the file is a document it stays one: a reader never meets a missing
\* or half-written store again, even when a writer dies (temporary + rename).
DocumentNeverTorn == [][IsDoc => file'.kind = "doc"]_storeVars

\* A file that its creator has not filled yet, or never will, is left alone:
\* whoever finds it refuses it as malformed and takes it for no empty store, so
\* that no command overwrites a first issue that is still under way.
TornLeftAlone ==
    [][file.kind = "torn" /\ file' # file =>
         \E c \in Procs : cli[c].at = "fill" /\ file' = DocFile(cli[c].next)]_storeVars

\* The two ways to write keep the file whole: the temporary file and its rename
\* once there is a document, and the exclusive create before there is one
\* (writeCredentialStore).
FileStaysWhole == DocumentNeverTorn /\ TornLeftAlone

\* Revocation is per principal and final: once a revoke command has
\* succeeded, its secret does not verify any more until it is issued anew.
\* Concurrent commands break it: each writes back all it read.
RevokedStaysRevoked ==
    [][\A p \in Principals, n \in 1 .. MaxSecrets :
         (IsDoc /\ file.doc[p] = [serial |-> n, revoked |-> TRUE])
           => ~Verifies(file'.doc, p, n)]_storeVars
=============================================================================
