------------------------------- MODULE AuthStore -------------------------------
(***************************************************************************)
(* The credentials of a user's registries (core/auth.py), in one file that *)
(* every login, logout, push and pull reads and that a login or a logout   *)
(* rewrites in place: loaded, changed in memory, opened for writing, which *)
(* empties it, and written.  Each command is a process of its own, and no  *)
(* lock keeps them apart; one can be killed at any step.                   *)
(***************************************************************************)
EXTENDS Naturals, FiniteSets

CONSTANTS
    Process,      \* commands that run at the same time
    Spelling,     \* how registries are named: a host, and whether it is all there is (bare)
    Alias,        \* hosts that stand for Docker Hub
    Hub,          \* its registry, registry-1.docker.io
    User,         \* accounts, each with its password
    Nobody,       \* no account
    Unsure,       \* (history) no promise
    MaxCommands,  \* bound: logins, logouts and lookups, over all processes
    MaxKills      \* bound: commands that are killed or cannot write

ASSUME AuthAssumption ==
    /\ \A s \in Spelling : s.bare \in BOOLEAN
    /\ Nobody \notin User /\ Unsure \notin User \cup {Nobody}
    /\ MaxCommands \in Nat /\ MaxKills \in Nat

VARIABLES
    file,        \* auth.json: absent, empty, garbled or whole, and the accounts if whole
    pc,          \* pc[p]: idle, verify, load, save (open it for writing) or write
    command,     \* command[p]: the kind, the registry's name in the file, the account
    view,        \* view[p]: the accounts that p has in memory
    answer,      \* answer[p]: what the last lookup of p has found
    overlaps,    \* (history) the registries of the commands that overlap p's
    promise,     \* (history) promise[n]: the account that n has as far as was reported
    clashed,     \* (history) two commands have written at the same time
    interrupted, \* (history) a command ended in the middle of writing
    commands, kills

bounds == <<commands, kills>>
vars == <<file, pc, command, view, answer, overlaps, promise, clashed, interrupted, bounds>>

\* _normalize_registry: an alias of Docker Hub is looked up before the scheme and slashes
\* are taken off, so that https://docker.io keeps a name of its own.
Normalize(s) == IF s.bare /\ s.host \in Alias THEN Hub ELSE s.host

Registry == {Normalize(s) : s \in Spelling}
NoAccounts == [n \in {} |-> Nobody]
Whole(accounts) == [state |-> "whole", accounts |-> accounts]
Broken(state) == [state |-> state, accounts |-> NoAccounts]
IsBroken == file.state \in {"empty", "garbled"}

\* Between loading the accounts and writing them back.
Saving(p) == pc[p] \in {"save", "write"}

Goto(p, to) == pc' = [pc EXCEPT ![p] = to]

-------------------------------------------------------------------------------
Init ==
    /\ file = [state |-> "absent", accounts |-> NoAccounts]
    /\ pc = [p \in Process |-> "idle"]
    /\ command = [p \in Process |-> [kind |-> "none", registry |-> Nobody, user |-> Nobody]]
    /\ view = [p \in Process |-> NoAccounts]
    /\ answer = [p \in Process |-> Nobody]
    /\ overlaps = [p \in Process |-> {}]
    /\ promise = [n \in Registry |-> Nobody]
    /\ clashed = FALSE /\ interrupted = FALSE
    /\ commands = 0 /\ kills = 0

Begin(p, kind, s, u, at) ==
    /\ pc[p] = "idle" /\ commands < MaxCommands
    /\ command' = [command EXCEPT ![p] = [kind |-> kind, registry |-> Normalize(s), user |-> u]]
    /\ commands' = commands + 1
    /\ Goto(p, at)
    /\ UNCHANGED <<file, view, answer, overlaps, promise, clashed, interrupted, kills>>

Login(p, s, u) == Begin(p, "login", s, u, "verify")
Logout(p, s) == Begin(p, "logout", s, Nobody, "load")
GetCredentials(p, s) == Begin(p, "lookup", s, Nobody, "load")

\* _verify_credentials: the registry refuses them, and the login ends; or it does not, or
\* cannot be asked, and the login goes on.
Verify(p) ==
    /\ pc[p] = "verify"
    /\ Goto(p, "idle") \/ Goto(p, "load")
    /\ UNCHANGED <<file, command, view, answer, overlaps, promise, clashed, interrupted, bounds>>

\* (mutant) a file that cannot be parsed has no accounts.
LoadAuthFileBrokenAsNone == TRUE

\* _load_auth_file: the accounts of the file, none if there is none; it fails if there is
\* no JSON in it.
LoadAuthFile == ~IsBroken

\* The command ends with a CredentialStorageError.
LoadFails(p) ==
    /\ pc[p] = "load" /\ ~LoadAuthFile
    /\ Goto(p, "idle")
    /\ UNCHANGED <<file, command, view, answer, overlaps, promise, clashed, interrupted, bounds>>

\* The accounts are in memory, and changed there: p's command overlaps those between here
\* and their writing, and they overlap it.
Change(p, accounts) ==
    /\ view' = [view EXCEPT ![p] = accounts]
    /\ overlaps' = [q \in Process |->
          IF q = p THEN {command[o].registry : o \in {o \in Process : Saving(o)}}
          ELSE IF Saving(q) THEN overlaps[q] \cup {command[p].registry} ELSE overlaps[q]]
    /\ Goto(p, "save")

LoadForLogin(p) ==
    /\ pc[p] = "load" /\ command[p].kind = "login" /\ LoadAuthFile
    /\ LET n == command[p].registry IN
       Change(p, [m \in DOMAIN file.accounts \cup {n} |->
                      IF m = n THEN command[p].user ELSE file.accounts[m]])
    /\ UNCHANGED <<file, command, answer, promise, clashed, interrupted, bounds>>

\* (mutant) logout opens the file for writing before it looks for the account.
LoadForLogoutOpensFirst(p) ==
    /\ pc[p] = "load" /\ command[p].kind = "logout" /\ LoadAuthFile
    /\ LET n == command[p].registry IN
       IF n \in DOMAIN file.accounts
       THEN Change(p, [m \in DOMAIN file.accounts \ {n} |-> file.accounts[m]]) /\ UNCHANGED file
       ELSE file' = Broken("empty") /\ Goto(p, "idle") /\ UNCHANGED <<view, overlaps>>
    /\ UNCHANGED <<command, answer, promise, clashed, interrupted, bounds>>

\* Without an account there, logout writes nothing.
LoadForLogout(p) ==
    /\ pc[p] = "load" /\ command[p].kind = "logout" /\ LoadAuthFile
    /\ LET n == command[p].registry IN
       IF n \in DOMAIN file.accounts
       THEN Change(p, [m \in DOMAIN file.accounts \ {n} |-> file.accounts[m]])
       ELSE Goto(p, "idle") /\ UNCHANGED <<view, overlaps>>
    /\ UNCHANGED <<file, command, answer, promise, clashed, interrupted, bounds>>

\* get_credentials, for a push or a pull.
LoadForLookup(p) ==
    /\ pc[p] = "load" /\ command[p].kind = "lookup" /\ LoadAuthFile
    /\ LET n == command[p].registry IN
       answer' = [answer EXCEPT ![p] = IF n \in DOMAIN file.accounts THEN file.accounts[n]
                                       ELSE Nobody]
    /\ Goto(p, "idle")
    /\ UNCHANGED <<file, command, view, overlaps, promise, clashed, interrupted, bounds>>

\* _save_auth_file opens the file for writing,
Open(p) ==
    /\ pc[p] = "save"
    /\ file' = Broken("empty")
    /\ clashed' = (clashed \/ \E q \in Process \ {p} : pc[q] = "write")
    /\ Goto(p, "write")
    /\ UNCHANGED <<command, view, answer, overlaps, promise, interrupted, bounds>>

\* and writes it from the beginning.  What another has written since stays behind the end
\* of it if that was longer.  From here on the command has done what it was asked for;
\* what one that overlaps it may write over it is promised no more.
Write(p) ==
    /\ pc[p] = "write"
    /\ \/ file' = Whole(view[p])
       \/ file.state # "empty" /\ file' = Broken("garbled")
    /\ promise' = [n \in Registry |->
          IF n \in overlaps[p] \/ (n = command[p].registry /\ overlaps[p] # {}) THEN Unsure
          ELSE IF n = command[p].registry THEN command[p].user ELSE promise[n]]
    /\ overlaps' = [overlaps EXCEPT ![p] = {}]
    /\ view' = [view EXCEPT ![p] = NoAccounts]
    /\ Goto(p, "idle")
    /\ UNCHANGED <<command, answer, clashed, interrupted, bounds>>

\* The command is killed, or cannot write (a full disk).
Kill(p) ==
    /\ pc[p] # "idle" /\ kills < MaxKills
    /\ interrupted' = (interrupted \/ pc[p] = "write")
    /\ kills' = kills + 1
    /\ overlaps' = [overlaps EXCEPT ![p] = {}]
    /\ view' = [view EXCEPT ![p] = NoAccounts]
    /\ Goto(p, "idle")
    /\ UNCHANGED <<file, command, answer, promise, clashed, commands>>

Step(p) ==
    \/ \E s \in Spelling : Logout(p, s) \/ GetCredentials(p, s) \/ \E u \in User : Login(p, s, u)
    \/ Verify(p) \/ LoadFails(p)
    \/ LoadForLogin(p) \/ LoadForLogout(p) \/ LoadForLookup(p)
    \/ Open(p) \/ Write(p) \/ Kill(p)

Next == \E p \in Process : Step(p)

Spec == Init /\ [][Next]_vars

-------------------------------------------------------------------------------
(* Properties.                                                             *)

\* The types; a command has accounts in memory only between loading and writing.
TypeOK ==
    /\ file \in [state : {"absent", "empty", "garbled", "whole"},
                 accounts : UNION {[S -> User] : S \in SUBSET Registry}]
    /\ file.state # "whole" => file.accounts = NoAccounts
    /\ pc \in [Process -> {"idle", "verify", "load", "save", "write"}]
    /\ \A p \in Process : ~Saving(p) => view[p] = NoAccounts /\ overlaps[p] = {}
    /\ promise \in [Registry -> User \cup {Nobody, Unsure}]

\* What a login or a logout has reported stays true until another command for the same
\* registry, unless a command whose load and save overlap it writes over it; or the file
\* cannot be read.  It never loses the accounts of other registries, whatever is killed.
ReportedIsKept ==
    \A n \in Registry :
        \/ IsBroken \/ promise[n] = Unsure
        \/ promise[n] = Nobody /\ n \notin DOMAIN file.accounts
        \/ n \in DOMAIN file.accounts /\ file.accounts[n] = promise[n]

\* A push or a pull that gets an answer gets the account that was reported: while the file
\* is rewritten it fails, and is not told that there is none.
LookupsAnswerTruly ==
    [][\A p \in Process :
          LoadForLookup(p) =>
              promise[command[p].registry] \in {Unsure, answer'[p]}]_vars

\* Only an end in the middle of writing, or two commands that write at the same time,
\* leave a file that no command can read (and that stays so until it is removed by hand).
BrokenForAReason ==
    IsBroken => interrupted \/ clashed \/ \E p \in Process : pc[p] = "write"
===============================================================================
