----------------------------- MODULE SetupCommit -----------------------------
(***************************************************************************)
(* "setup" for the Headscale provider commits to two files: it issues a    *)
(* credential in the store, then writes the gateway's entry into the DSH   *)
(* profile, and takes the credential back when the profile cannot be       *)
(* written (commitHeadscaleSetup of src/setup/cli.mjs and                  *)
(* writeInitialProfileEntry of src/setup/profile.mjs).  It shares both     *)
(* files with other setups, with the credential commands of                *)
(* CredentialStore, and with whoever edits the profile.                    *)
(***************************************************************************)
EXTENDS CredentialStore, Sequences

CONSTANT Setups     \* the processes that run setup, the others run commands

ASSUME SetupsAssumption == Setups \subseteq Procs

VARIABLES
    setup,      \* what each setup is doing besides issuing
    profile,    \* the gateway entries in the profile: their principals
    told,       \* the secrets a setup has printed
    undone,     \* history: the secrets that a setup took back, all alone
    quiet       \* history: nobody else has done anything since a setup began

setupVars == <<setup, profile, told, undone, quiet>>
vars == <<storeVars, setupVars>>

-----------------------------------------------------------------------------
IdleSetup == [at |-> "idle"]

InSetup(c) == setup[c].at # "idle"
SetupGoes(c, point) == setup' = [setup EXCEPT ![c].at = point]
SetupEnds(c) == setup' = [setup EXCEPT ![c] = IdleSetup]

\* What c does disturbs every other setup.
Disturbs(c) == quiet' = [d \in Setups |-> quiet[d] /\ d = c]

Undisturbed(c) == Alone(c) /\ \A d \in Setups \ {c} : ~InSetup(d)

\* The write is confirmed; the store is read to be put back later.  A missing
\* file is remembered as such, a torn one throws.
SetupBegins(c, p) ==
    /\ ~InSetup(c) /\ ~Busy(c)
    /\ file.kind # "torn"
    /\ setup' = [setup EXCEPT ![c] = [at |-> "issue", who |-> p, previous |-> file, serial |-> 0]]
    /\ quiet' = [d \in Setups |-> d = c /\ Undisturbed(c)]
    /\ UNCHANGED <<storeVars, profile, told, undone>>

\* issueCredential() inside setup, step by step.
SetupIssueReads(c) ==
    /\ setup[c].at = "issue" /\ setup[c].serial = 0
    /\ IssueRead(c, setup[c].who)
    /\ setup' = [setup EXCEPT ![c].serial = issued']
    /\ Disturbs(c)
    /\ UNCHANGED <<profile, told, undone>>

\* It throws: an active entry, a torn file.
SetupIssueRefused(c) ==
    /\ setup[c].at = "issue" /\ setup[c].serial = 0
    /\ file.kind = "torn" \/ Active(DocOrEmpty, setup[c].who)
    /\ SetupEnds(c)
    /\ Disturbs(c)
    /\ UNCHANGED <<storeVars, profile, told, undone>>

SetupIssueOpens(c) ==
    /\ setup[c].at = "issue"
    /\ IssueOpen(c)
    /\ Disturbs(c)
    /\ UNCHANGED <<setup, profile, told, undone>>

SetupIssueRereads(c) ==
    /\ setup[c].at = "issue"
    /\ IssueReread(c)
    /\ IF Busy(c)' THEN UNCHANGED setup ELSE SetupEnds(c)
    /\ Disturbs(c)
    /\ UNCHANGED <<profile, told, undone>>

SetupIssued(c) ==
    /\ setup[c].at = "issue"
    /\ IssueFill(c) \/ RenameOver(c)
    /\ SetupGoes(c, "profile")
    /\ Disturbs(c)
    /\ UNCHANGED <<profile, told, undone>>

\* The issue throws, before or after its document is in place, and setup with it:
\* what was issued so far is not taken back.
SetupIssueFails(c) ==
    /\ setup[c].at = "issue"
    /\ Stop(c) \/ WriteThrows(c)
    /\ SetupEnds(c)
    /\ Disturbs(c)
    /\ UNCHANGED <<profile, told, undone>>

\* writeInitialProfileEntry(): the profile is read; one that has an entry of
\* the gateway's is refused.
ProfileRead_Unchecked(c) ==
    /\ setup[c].at = "profile"
    /\ setup' = [setup EXCEPT ![c] = [at |-> "save", who |-> @.who, previous |-> @.previous,
                                      serial |-> @.serial, entries |-> Append(profile, @.who)]]
    /\ Disturbs(c)
    /\ UNCHANGED <<storeVars, profile, told, undone>>

ProfileRead(c) ==
    /\ setup[c].at = "profile"
    /\ profile = <<>>
    /\ setup' = [setup EXCEPT ![c] = [at |-> "save", who |-> @.who, previous |-> @.previous,
                                      serial |-> @.serial, entries |-> Append(profile, @.who)]]
    /\ Disturbs(c)
    /\ UNCHANGED <<storeVars, profile, told, undone>>

\* The failure of the profile is caught and forgotten.
ProfileFails_Swallowed(c) ==
    /\ setup[c].at \in {"profile", "save"}
    /\ SetupGoes(c, "print")
    /\ Disturbs(c)
    /\ UNCHANGED <<storeVars, profile, told, undone>>

\* It has an entry, is no list, or cannot be read or written: roll back.
ProfileFails(c) ==
    /\ setup[c].at \in {"profile", "save"}
    /\ SetupGoes(c, "rollback")
    /\ Disturbs(c)
    /\ UNCHANGED <<storeVars, profile, told, undone>>

\* The new profile takes the place of the old one.
ProfileSaved(c) ==
    /\ setup[c].at = "save"
    /\ profile' = setup[c].entries
    /\ SetupGoes(c, "print")
    /\ Disturbs(c)
    /\ UNCHANGED <<storeVars, told, undone>>

\* The secret is printed, once.
Tell(c) ==
    /\ setup[c].at = "print"
    /\ told' = told \union {<<setup[c].who, setup[c].serial>>}
    /\ SetupEnds(c)
    /\ Disturbs(c)
    /\ UNCHANGED <<storeVars, profile, undone>>

TakenBack(c) ==
    /\ undone' = undone \union (IF quiet[c] THEN {<<setup[c].who, setup[c].serial>>} ELSE {})
    /\ SetupEnds(c)
    /\ Disturbs(c)
    /\ UNCHANGED <<cli, issued, shown, created, settled, profile, told>>

\* The rollback of a setup that found no store: it is left behind.
Rollback_KeepsNewStore(c) ==
    /\ setup[c].at = "rollback"
    /\ file' = IF setup[c].previous.kind = "absent" THEN file ELSE setup[c].previous
    /\ TakenBack(c)

\* The store becomes what setup has read: a document is renamed into its place,
\* a file that was not there is removed.
Rollback(c) ==
    /\ setup[c].at = "rollback"
    /\ file' = setup[c].previous
    /\ TakenBack(c)

\* The process is killed, or its rollback fails.
SetupDies(c) ==
    /\ setup[c].at \in {"profile", "save", "print", "rollback"}
    /\ SetupEnds(c)
    /\ Disturbs(c)
    /\ UNCHANGED <<storeVars, profile, told, undone>>

-----------------------------------------------------------------------------
\* The credential commands.
Commands(c) ==
    /\ CliStep(c)
    /\ Disturbs(c)
    /\ UNCHANGED <<setup, profile, told, undone>>

\* Somebody removes an entry from the profile.
EditProfile ==
    /\ profile # <<>>
    /\ profile' = Tail(profile)
    /\ quiet' = [d \in Setups |-> FALSE]
    /\ UNCHANGED <<storeVars, setup, told, undone>>

Init ==
    /\ StoreInit
    /\ setup = [c \in Setups |-> IdleSetup]
    /\ profile = <<>>
    /\ told = {}
    /\ undone = {}
    /\ quiet = [c \in Setups |-> FALSE]

SetupStep(c) ==
    \/ \E p \in Principals : SetupBegins(c, p)
    \/ SetupIssueReads(c) \/ SetupIssueRefused(c) \/ SetupIssueOpens(c) \/ SetupIssueRereads(c)
    \/ SetupIssued(c) \/ SetupIssueFails(c)
    \/ ProfileRead(c) \/ ProfileFails(c) \/ ProfileSaved(c) \/ Tell(c)
    \/ Rollback(c) \/ SetupDies(c)

Next ==
    \/ \E c \in Setups : SetupStep(c)
    \/ \E c \in Procs \ Setups : Commands(c)
    \/ EditProfile

Spec == Init /\ [][Next]_vars

-----------------------------------------------------------------------------
(* Properties.                                                             *)

SetupRecord ==
    [at : {"issue", "profile", "rollback"}, who : Principals,
     previous : [kind : {"absent", "doc"}, doc : Document], serial : Nat]

SavingRecord ==
    [at : {"save", "print", "rollback"}, who : Principals,
     previous : [kind : {"absent", "doc"}, doc : Document], serial : Nat,
     entries : Seq(Principals)]

\* The type invariant; a setup is inside issueCredential() only while it issues.
SetupTypeOK ==
    /\ StoreTypeOK
    /\ setup \in [Setups -> {IdleSetup} \union SetupRecord \union SavingRecord]
    /\ profile \in Seq(Principals)
    /\ told \subseteq Principals \X Nat
    /\ undone \subseteq Principals \X Nat
    /\ quiet \in [Setups -> BOOLEAN]
    /\ \A c \in Setups : Busy(c) => setup[c].at = "issue" /\ setup[c].serial = cli[c].serial

\* However many setups race, the profile gets one entry of the gateway's
\* (appendProfileEntry).
OneEntry == Len(profile) =< 1

SetupInv == SetupTypeOK /\ OneEntry

\* A setup that ran alone prints a secret that works: the store verifies it for
\* the principal that the profile now trusts (the order of commitHeadscaleSetup).
ToldWorks ==
    [][\A c \in Setups :
         setup[c].at = "print" /\ told' # told /\ quiet[c] /\ ~InSetup(c)' =>
           /\ profile' = <<setup[c].who>>
           /\ IsDoc' /\ Verifies(file'.doc, setup[c].who, setup[c].serial)]_vars

\* A secret that a setup took back, running alone, is gone for good: nobody was
\* told it, and no later issue, revocation or rollback brings it back.
UndoneForGood ==
    \A p \in Principals, n \in 1 .. MaxSecrets :
        <<p, n>> \in undone => <<p, n>> \notin told /\ ~(IsDoc /\ Verifies(file.doc, p, n))

\* A setup that runs alone adds its own entry to the store it found and changes
\* no other one, so that putting the store back loses nothing.
AddsOneEntry ==
    \A c \in Setups :
        setup[c].at \in {"profile", "save", "rollback"} /\ quiet[c] =>
          /\ IsDoc /\ Verifies(file.doc, setup[c].who, setup[c].serial)
          /\ \A p \in Principals \ {setup[c].who} : file.doc[p] = setup[c].previous.doc[p]
=============================================================================
