---------------------------- MODULE AuthStore_proofs ----------------------------
(***************************************************************************)
(* Of AuthStore, for any processes, names of registries, accounts and      *)
(* commands that are killed: what was reported is kept, lookups answer it, *)
(* and the file is broken only for a reason.                               *)
(***************************************************************************)
EXTENDS AuthStore, TLAPS

Accounts == UNION {[S -> User] : S \in SUBSET Registry}
CommandRecord == [kind : {"none", "login", "logout", "lookup"}, registry : Registry \cup {Nobody},
                  user : User \cup {Nobody}]

\* The account of n, or nobody's.
Account(accounts, n) == IF n \in DOMAIN accounts THEN accounts[n] ELSE Nobody

Types ==
    /\ file \in [state : {"absent", "empty", "garbled", "whole"}, accounts : Accounts]
    /\ pc \in [Process -> {"idle", "verify", "load", "save", "write"}]
    /\ command \in [Process -> CommandRecord]
    /\ view \in [Process -> Accounts]
    /\ answer \in [Process -> User \cup {Nobody}]
    /\ overlaps \in [Process -> SUBSET Registry]
    /\ promise \in [Registry -> User \cup {Nobody, Unsure}]
    /\ clashed \in BOOLEAN /\ interrupted \in BOOLEAN

\* A command that runs has a registry; only a login has an account.
CommandInv(p) ==
    pc[p] # "idle" =>
        /\ command[p].registry \in Registry
        /\ command[p].kind = "login" => command[p].user \in User
        /\ command[p].kind # "login" => command[p].user = Nobody

\* What p will write: the account of its own command, and of every other registry what was
\* promised, but for those of commands that overlap it.
ViewInv(p) ==
    Saving(p) =>
        /\ Account(view[p], command[p].registry) = command[p].user
        /\ \A n \in Registry \ (overlaps[p] \cup {command[p].registry}) :
              promise[n] \in {Unsure, Account(view[p], n)}

\* Commands that overlap know of each other.
OverlapInv ==
    \A p, q \in Process : p # q /\ Saving(p) /\ Saving(q) => command[q].registry \in overlaps[p]

\* What was promised is in the file, if it can be read.
FileInv == ~IsBroken => \A n \in Registry : promise[n] \in {Unsure, Account(file.accounts, n)}

\* But for a clash, one process writes at a time, to an empty file.
WriteInv ==
    ~clashed =>
        /\ \A p, q \in Process : pc[p] = "write" /\ pc[q] = "write" => p = q
        /\ \A p \in Process : pc[p] = "write" => file.state = "empty"

Inv ==
    /\ Types /\ OverlapInv /\ FileInv /\ WriteInv /\ BrokenForAReason
    /\ \A p \in Process : CommandInv(p) /\ ViewInv(p)

-------------------------------------------------------------------------------

LEMMA NormalizeTyped == \A s \in Spelling : Normalize(s) \in Registry
BY DEF Registry

LEMMA NoAccountsTyped == NoAccounts \in Accounts /\ \A n : Account(NoAccounts, n) = Nobody
<1>1. NoAccounts \in [{} -> User]
  BY DEF NoAccounts
<1>2. DOMAIN NoAccounts = {}
  BY DEF NoAccounts
<1> QED
  BY <1>1, <1>2 DEF Accounts, Account

LEMMA AccountsFacts ==
    ASSUME NEW a \in Accounts
    PROVE  DOMAIN a \in SUBSET Registry /\ a \in [DOMAIN a -> User]
BY DEF Accounts

LEMMA AccountTyped ==
    ASSUME NEW a \in Accounts, NEW n PROVE Account(a, n) \in User \cup {Nobody}
BY AccountsFacts DEF Account

\* A login adds an account.
LEMMA LoginChanges ==
    ASSUME NEW a \in Accounts, NEW n \in Registry, NEW u \in User
    PROVE  LET with == [m \in DOMAIN a \cup {n} |-> IF m = n THEN u ELSE a[m]] IN
           /\ with \in Accounts /\ Account(with, n) = u
           /\ \A m : m # n => Account(with, m) = Account(a, m)
<1> DEFINE with == [m \in DOMAIN a \cup {n} |-> IF m = n THEN u ELSE a[m]]
<1>1. with \in [DOMAIN a \cup {n} -> User] /\ DOMAIN a \cup {n} \in SUBSET Registry
  BY AccountsFacts
<1>2. with \in Accounts
  BY <1>1 DEF Accounts
<1>3. Account(with, n) = u /\ \A m : m # n => Account(with, m) = Account(a, m)
  BY DEF Account
<1> QED
  BY <1>2, <1>3

\* A logout takes one away.
LEMMA LogoutChanges ==
    ASSUME NEW a \in Accounts, NEW n \in Registry
    PROVE  LET without == [m \in DOMAIN a \ {n} |-> a[m]] IN
           /\ without \in Accounts /\ Account(without, n) = Nobody
           /\ \A m : m # n => Account(without, m) = Account(a, m)
<1> DEFINE without == [m \in DOMAIN a \ {n} |-> a[m]]
<1>1. without \in [DOMAIN a \ {n} -> User] /\ DOMAIN a \ {n} \in SUBSET Registry
  BY AccountsFacts
<1>2. without \in Accounts
  BY <1>1 DEF Accounts
<1>3. Account(without, n) = Nobody /\ \A m : m # n => Account(without, m) = Account(a, m)
  BY DEF Account
<1> QED
  BY <1>2, <1>3

LEMMA InitInv == ASSUME Init PROVE Inv
<1>1. Types
  BY NoAccountsTyped DEF Init, Types, CommandRecord
<1>2. file.state = "absent" /\ ~IsBroken /\ \A n : Account(file.accounts, n) = Nobody
  BY NoAccountsTyped DEF Init, IsBroken
<1>3. \A p \in Process : pc[p] = "idle"
  BY DEF Init
<1>4. FileInv
  BY <1>2 DEF Init, FileInv
<1> QED
  BY <1>1, <1>2, <1>3, <1>4 DEF Inv, OverlapInv, WriteInv, BrokenForAReason, CommandInv, ViewInv, Saving

-------------------------------------------------------------------------------
\* A step of p that neither saves nor loads to save: nothing but p's own command changes.
LEMMA QuietStep ==
    ASSUME Inv, NEW p \in Process, pc[p] \in {"idle", "verify", "load"},
           NEW to \in {"idle", "verify", "load"}, Goto(p, to),
           command' \in [Process -> CommandRecord], answer' \in [Process -> User \cup {Nobody}],
           \A q \in Process \ {p} : command'[q] = command[q],
           CommandInv(p)',
           UNCHANGED <<file, view, overlaps, promise, clashed, interrupted>>
    PROVE  Inv'
<1>1. Types'
  BY DEF Inv, Types, Goto
<1>2. /\ \A q \in Process \ {p} : pc'[q] = pc[q]
      /\ pc'[p] = to
  BY DEF Inv, Types, Goto
<1>3. \A q \in Process : Saving(q)' <=> Saving(q) /\ q # p
  BY <1>2 DEF Saving
<1>4. OverlapInv'
  BY <1>3 DEF Inv, OverlapInv
<1>5. FileInv'
  BY DEF Inv, FileInv, IsBroken
<1>6. WriteInv'
  BY <1>2 DEF Inv, WriteInv
<1>7. BrokenForAReason'
  BY <1>2 DEF Inv, BrokenForAReason, IsBroken
<1>8. ASSUME NEW q \in Process PROVE CommandInv(q)' /\ ViewInv(q)'
  <2>1. CASE q = p
    BY <2>1, <1>3 DEF ViewInv
  <2>2. CASE q # p
    BY <2>2, <1>2, <1>3 DEF Inv, CommandInv, ViewInv
  <2> QED
    BY <2>1, <2>2
<1> QED
  BY <1>1, <1>4, <1>5, <1>6, <1>7, <1>8 DEF Inv

LEMMA BeginInv ==
    ASSUME Inv, NEW p \in Process, NEW s \in Spelling, NEW kind \in {"login", "logout", "lookup"},
           NEW u \in User \cup {Nobody}, kind = "login" => u \in User, kind # "login" => u = Nobody,
           NEW at \in {"verify", "load"}, Begin(p, kind, s, u, at)
    PROVE  Inv'
<1> DEFINE c == [kind |-> kind, registry |-> Normalize(s), user |-> u]
<1>1. c \in CommandRecord
  BY NormalizeTyped DEF CommandRecord
<1>2. command \in [Process -> CommandRecord] /\ command' = [command EXCEPT ![p] = c]
  BY DEF Begin, Inv, Types
<1>3. /\ command' \in [Process -> CommandRecord] /\ command'[p] = c
      /\ \A q \in Process \ {p} : command'[q] = command[q]
  BY <1>1, <1>2
<1>4. CommandInv(p)'
  BY <1>3, NormalizeTyped DEF CommandInv
<1>5. pc[p] = "idle" /\ Goto(p, at)
      /\ UNCHANGED <<file, view, answer, overlaps, promise, clashed, interrupted>>
  BY DEF Begin
<1>6. answer' \in [Process -> User \cup {Nobody}]
  BY <1>5 DEF Inv, Types
<1> QED
  BY <1>3, <1>4, <1>5, <1>6, QuietStep

LEMMA VerifyInv ==
    ASSUME Inv, NEW p \in Process, Verify(p) \/ LoadFails(p)
    PROVE  Inv'
<1>1. PICK to \in {"idle", "load"} : Goto(p, to)
  BY DEF Verify, LoadFails
<1>2. pc[p] \in {"verify", "load"}
      /\ UNCHANGED <<file, command, view, answer, overlaps, promise, clashed, interrupted>>
  BY DEF Verify, LoadFails
<1>3. CommandInv(p)'
  BY <1>2 DEF Inv, CommandInv
<1>4. command' \in [Process -> CommandRecord] /\ answer' \in [Process -> User \cup {Nobody}]
  BY <1>2 DEF Inv, Types
<1> QED
  BY <1>1, <1>2, <1>3, <1>4, QuietStep

LEMMA LookupInv ==
    ASSUME Inv, NEW p \in Process, LoadForLookup(p)
    PROVE  Inv'
<1> DEFINE n == command[p].registry
<1>1. file.accounts \in Accounts
  BY DEF Inv, Types
<1>2. answer' = [answer EXCEPT ![p] = Account(file.accounts, n)]
  BY DEF LoadForLookup, Account
<1>3. Account(file.accounts, n) \in User \cup {Nobody}
  BY <1>1, AccountTyped
<1>4. answer' \in [Process -> User \cup {Nobody}]
  BY <1>2, <1>3 DEF Inv, Types
<1>5. pc[p] = "load" /\ Goto(p, "idle")
      /\ UNCHANGED <<file, command, view, overlaps, promise, clashed, interrupted>>
  BY DEF LoadForLookup
<1>6. CommandInv(p)' /\ command' \in [Process -> CommandRecord]
  BY <1>5 DEF Inv, Types, CommandInv
<1> QED
  BY <1>4, <1>5, <1>6, QuietStep

\* The accounts that a command has loaded and changed.
LEMMA ChangeInv ==
    ASSUME Inv, NEW p \in Process, pc[p] = "load", ~IsBroken, NEW new \in Accounts, Change(p, new),
           Account(new, command[p].registry) = command[p].user,
           \A m : m # command[p].registry => Account(new, m) = Account(file.accounts, m),
           UNCHANGED <<file, command, answer, promise, clashed, interrupted>>
    PROVE  Inv'
<1>1. /\ pc' = [pc EXCEPT ![p] = "save"] /\ view' = [view EXCEPT ![p] = new]
      /\ pc \in [Process -> {"idle", "verify", "load", "save", "write"}]
      /\ view \in [Process -> Accounts]
  BY DEF Change, Goto, Inv, Types
<1>2. /\ pc'[p] = "save" /\ view'[p] = new
      /\ \A q \in Process \ {p} : pc'[q] = pc[q] /\ view'[q] = view[q]
  BY <1>1
<1>3. /\ Saving(p)' /\ ~Saving(p)
      /\ \A q \in Process \ {p} : Saving(q)' <=> Saving(q)
  BY <1>2 DEF Saving
<1>4. ASSUME NEW q \in Process, pc[q] # "idle" PROVE command[q].registry \in Registry
  BY <1>4 DEF Inv, CommandInv
<1>5. \A o \in Process : Saving(o) => command[o].registry \in Registry
  BY <1>4 DEF Saving
<1>6. overlaps' \in [Process -> SUBSET Registry]
  BY <1>4, <1>5 DEF Change, Inv, Types
<1>7. /\ \A o \in Process : Saving(o) => command[o].registry \in overlaps'[p]
      /\ \A q \in Process \ {p} : overlaps[q] \subseteq overlaps'[q]
      /\ \A q \in Process \ {p} : Saving(q) => command[p].registry \in overlaps'[q]
  BY DEF Change
<1>8. Types'
  BY <1>1, <1>6 DEF Inv, Types
<1>9. OverlapInv'
  <2> SUFFICES ASSUME NEW q \in Process, NEW o \in Process, q # o, Saving(q)', Saving(o)'
               PROVE  command[o].registry \in overlaps'[q]
    BY DEF OverlapInv
  <2>1. CASE q = p
    BY <2>1, <1>3, <1>7
  <2>2. CASE o = p
    BY <2>2, <1>3, <1>7
  <2>3. CASE q # p /\ o # p
    BY <2>3, <1>3, <1>7 DEF Inv, OverlapInv
  <2> QED
    BY <2>1, <2>2, <2>3
<1>10. FileInv'
  BY DEF Inv, FileInv, IsBroken
<1>11. WriteInv'
  BY <1>2 DEF Inv, WriteInv
<1>12. BrokenForAReason'
  BY DEF BrokenForAReason, IsBroken
<1>13. ASSUME NEW q \in Process PROVE CommandInv(q)'
  <2>1. CASE q = p
    BY <2>1 DEF Inv, CommandInv
  <2>2. CASE q # p
    BY <2>2, <1>2 DEF Inv, CommandInv
  <2> QED
    BY <2>1, <2>2
<1>14. ASSUME NEW q \in Process PROVE ViewInv(q)'
  <2>1. CASE q = p
    <3>1. \A n \in Registry : promise[n] \in {Unsure, Account(file.accounts, n)}
      BY DEF Inv, FileInv
    <3> QED
      BY <2>1, <3>1, <1>2 DEF ViewInv
  <2>2. CASE q # p
    BY <2>2, <1>2, <1>3, <1>7 DEF Inv, ViewInv
  <2> QED
    BY <2>1, <2>2
<1> QED
  BY <1>8, <1>9, <1>10, <1>11, <1>12, <1>13, <1>14 DEF Inv

LEMMA LoginInv ==
    ASSUME Inv, NEW p \in Process, LoadForLogin(p)
    PROVE  Inv'
<1> DEFINE n == command[p].registry
           a == file.accounts
           with == [m \in DOMAIN a \cup {n} |-> IF m = n THEN command[p].user ELSE a[m]]
<1>1. pc[p] = "load" /\ ~IsBroken /\ Change(p, with)
      /\ UNCHANGED <<file, command, answer, promise, clashed, interrupted>>
  BY DEF LoadForLogin, LoadAuthFile
<1>2. a \in Accounts /\ n \in Registry /\ command[p].user \in User
  BY <1>1 DEF LoadForLogin, Inv, Types, CommandInv
<1>3. /\ with \in Accounts /\ Account(with, n) = command[p].user
      /\ \A m : m # n => Account(with, m) = Account(a, m)
  BY <1>2, LoginChanges
<1> HIDE DEF with
<1> QED
  BY <1>1, <1>3, ChangeInv

LEMMA LogoutInv ==
    ASSUME Inv, NEW p \in Process, LoadForLogout(p)
    PROVE  Inv'
<1> DEFINE n == command[p].registry
           a == file.accounts
           without == [m \in DOMAIN a \ {n} |-> a[m]]
<1>1. pc[p] = "load" /\ ~IsBroken /\ command[p].kind = "logout"
      /\ UNCHANGED <<file, command, answer, promise, clashed, interrupted>>
  BY DEF LoadForLogout, LoadAuthFile
<1>2. a \in Accounts /\ n \in Registry /\ command[p].user = Nobody
  BY <1>1 DEF Inv, Types, CommandInv
<1>3. /\ without \in Accounts /\ Account(without, n) = Nobody
      /\ \A m : m # n => Account(without, m) = Account(a, m)
  BY <1>2, LogoutChanges
<1>4. Change(p, without) \/ (Goto(p, "idle") /\ UNCHANGED <<view, overlaps>>)
  BY DEF LoadForLogout
<1> HIDE DEF without
<1>5. CASE Change(p, without)
  BY <1>1, <1>2, <1>3, <1>5, ChangeInv
<1>6. CASE Goto(p, "idle") /\ UNCHANGED <<view, overlaps>>
  <2>1. CommandInv(p)' /\ command' \in [Process -> CommandRecord]
        /\ answer' \in [Process -> User \cup {Nobody}]
    BY <1>1 DEF Inv, Types, CommandInv
  <2>2. \A q \in Process \ {p} : command'[q] = command[q]
    BY <1>1
  <2> QED
    BY <1>1, <1>6, <2>1, <2>2, QuietStep
<1> QED
  BY <1>4, <1>5, <1>6

-------------------------------------------------------------------------------
\* Opening the file empties it.
LEMMA OpenInv ==
    ASSUME Inv, NEW p \in Process, Open(p)
    PROVE  Inv'
<1>1. /\ pc[p] = "save" /\ pc' = [pc EXCEPT ![p] = "write"]
      /\ pc \in [Process -> {"idle", "verify", "load", "save", "write"}]
      /\ file' = [state |-> "empty", accounts |-> NoAccounts]
      /\ UNCHANGED <<command, view, answer, overlaps, promise, interrupted>>
  BY DEF Open, Goto, Broken, Inv, Types
<1>2. pc'[p] = "write" /\ \A q \in Process \ {p} : pc'[q] = pc[q]
  BY <1>1
<1>3. \A q \in Process : Saving(q)' <=> Saving(q)
  BY <1>1, <1>2 DEF Saving
<1>4. file'.state = "empty" /\ IsBroken'
  BY <1>1 DEF IsBroken
<1>5. clashed' \in BOOLEAN
  BY DEF Open, Inv, Types
<1>6. Types'
  BY <1>1, <1>5, NoAccountsTyped DEF Inv, Types
<1>7. OverlapInv'
  BY <1>1, <1>3 DEF Inv, OverlapInv
<1>8. FileInv'
  BY <1>4 DEF FileInv
<1>9. WriteInv'
  <2>1. ~clashed' => \A q \in Process \ {p} : pc[q] # "write"
    BY DEF Open
  <2> QED
    BY <2>1, <1>2, <1>4 DEF WriteInv
<1>10. BrokenForAReason'
  BY <1>2 DEF BrokenForAReason
<1>11. ASSUME NEW q \in Process PROVE CommandInv(q)' /\ ViewInv(q)'
  BY <1>1, <1>2, <1>3 DEF Inv, CommandInv, ViewInv
<1> QED
  BY <1>6, <1>7, <1>8, <1>9, <1>10, <1>11 DEF Inv

\* What is written is what was promised.
LEMMA WriteKeeps ==
    ASSUME Inv, NEW p \in Process, Write(p)
    PROVE  Inv'
<1>1. /\ pc[p] = "write" /\ pc' = [pc EXCEPT ![p] = "idle"]
      /\ pc \in [Process -> {"idle", "verify", "load", "save", "write"}]
      /\ view' = [view EXCEPT ![p] = NoAccounts] /\ view \in [Process -> Accounts]
      /\ overlaps' = [overlaps EXCEPT ![p] = {}] /\ overlaps \in [Process -> SUBSET Registry]
      /\ UNCHANGED <<command, answer, clashed, interrupted>>
  BY DEF Write, Goto, Inv, Types
<1>2. /\ pc'[p] = "idle"
      /\ \A q \in Process \ {p} : /\ pc'[q] = pc[q] /\ view'[q] = view[q]
                                  /\ overlaps'[q] = overlaps[q]
  BY <1>1
<1>3. Saving(p) /\ \A q \in Process : Saving(q)' <=> Saving(q) /\ q # p
  BY <1>1, <1>2 DEF Saving
<1>4. command[p] \in CommandRecord /\ command[p].user \in User \cup {Nobody}
  BY DEF Inv, Types, CommandRecord
<1>5. promise' \in [Registry -> User \cup {Nobody, Unsure}]
  BY <1>4 DEF Write, Inv, Types
<1>6. file' = Whole(view[p]) \/ (file.state # "empty" /\ file' = Broken("garbled"))
  BY DEF Write
<1>7. file' \in [state : {"absent", "empty", "garbled", "whole"}, accounts : Accounts]
  BY <1>1, <1>6, NoAccountsTyped DEF Whole, Broken
<1>8. Types'
  BY <1>1, <1>5, <1>7, NoAccountsTyped DEF Inv, Types
<1>9. OverlapInv'
  BY <1>1, <1>2, <1>3 DEF Inv, OverlapInv
<1>10. \A n \in Registry : promise[n] = promise'[n] \/ promise'[n] = Unsure
                           \/ (n = command[p].registry /\ promise'[n] = command[p].user)
  BY DEF Write
<1>11. \A n \in Registry : promise'[n] \in {Unsure, Account(view[p], n)}
  <2> SUFFICES ASSUME NEW n \in Registry PROVE promise'[n] \in {Unsure, Account(view[p], n)}
    OBVIOUS
  <2>1. CASE n \in overlaps[p]
    BY <2>1 DEF Write
  <2>2. CASE n \notin overlaps[p] /\ n = command[p].registry
    BY <2>2, <1>3, <1>10 DEF Write, Inv, ViewInv
  <2>3. CASE n \notin overlaps[p] /\ n # command[p].registry
    <3>1. promise'[n] = promise[n]
      BY <2>3 DEF Write
    <3> QED
      BY <2>3, <3>1, <1>3 DEF Inv, ViewInv
  <2> QED
    BY <2>1, <2>2, <2>3
<1>12. FileInv'
  <2>1. ~IsBroken' => file' = Whole(view[p])
    BY <1>6 DEF IsBroken, Broken
  <2>2. Whole(view[p]).accounts = view[p]
    BY DEF Whole
  <2> QED
    BY <1>11, <2>1, <2>2 DEF FileInv
<1>13. WriteInv'
  BY <1>1, <1>2 DEF Inv, WriteInv
<1>14. BrokenForAReason'
  <2>1. IsBroken' => file.state # "empty"
    BY <1>6 DEF IsBroken, Whole
  <2>2. IsBroken' => clashed
    BY <2>1, <1>1 DEF Inv, WriteInv, Types
  <2> QED
    BY <2>2, <1>1 DEF BrokenForAReason
<1>15. ASSUME NEW q \in Process PROVE CommandInv(q)'
  BY <1>1, <1>2 DEF Inv, CommandInv
<1>16. ASSUME NEW q \in Process PROVE ViewInv(q)'
  <2>1. CASE q = p \/ ~Saving(q)
    BY <2>1, <1>3 DEF ViewInv
  <2>2. CASE q # p /\ Saving(q)
    <3>1. command[p].registry \in overlaps[q]
      BY <2>2, <1>3 DEF Inv, OverlapInv
    <3>2. \A n \in Registry \ (overlaps[q] \cup {command[q].registry}) :
             promise'[n] \in {Unsure, promise[n]}
      BY <3>1, <1>10
    <3>3. \A n \in Registry \ (overlaps[q] \cup {command[q].registry}) :
             promise[n] \in {Unsure, Account(view[q], n)}
      BY <2>2 DEF Inv, ViewInv
    <3>4. Account(view[q], command[q].registry) = command[q].user
      BY <2>2 DEF Inv, ViewInv
    <3> QED
      BY <2>2, <3>2, <3>3, <3>4, <1>1, <1>2 DEF ViewInv
  <2> QED
    BY <2>1, <2>2
<1> QED
  BY <1>8, <1>9, <1>12, <1>13, <1>14, <1>15, <1>16 DEF Inv

LEMMA KillInv ==
    ASSUME Inv, NEW p \in Process, Kill(p)
    PROVE  Inv'
<1>1. /\ pc' = [pc EXCEPT ![p] = "idle"]
      /\ pc \in [Process -> {"idle", "verify", "load", "save", "write"}]
      /\ view' = [view EXCEPT ![p] = NoAccounts] /\ view \in [Process -> Accounts]
      /\ overlaps' = [overlaps EXCEPT ![p] = {}] /\ overlaps \in [Process -> SUBSET Registry]
      /\ interrupted' = (interrupted \/ pc[p] = "write")
      /\ UNCHANGED <<file, command, answer, promise, clashed>>
  BY DEF Kill, Goto, Inv, Types
<1>2. /\ pc'[p] = "idle"
      /\ \A q \in Process \ {p} : /\ pc'[q] = pc[q] /\ view'[q] = view[q]
                                  /\ overlaps'[q] = overlaps[q]
  BY <1>1
<1>3. \A q \in Process : Saving(q)' <=> Saving(q) /\ q # p
  BY <1>2 DEF Saving
<1>4. interrupted' \in BOOLEAN
  BY <1>1 DEF Inv, Types
<1>5. Types'
  BY <1>1, <1>4, NoAccountsTyped DEF Inv, Types
<1>6. OverlapInv'
  BY <1>1, <1>2, <1>3 DEF Inv, OverlapInv
<1>7. FileInv'
  BY <1>1 DEF Inv, FileInv, IsBroken
<1>8. WriteInv'
  BY <1>1, <1>2 DEF Inv, WriteInv
<1>9. BrokenForAReason'
  BY <1>1, <1>2 DEF Inv, BrokenForAReason, IsBroken
<1>10. ASSUME NEW q \in Process PROVE CommandInv(q)' /\ ViewInv(q)'
  <2>1. CASE q = p
    BY <2>1, <1>2, <1>3 DEF CommandInv, ViewInv
  <2>2. CASE q # p
    BY <2>2, <1>1, <1>2, <1>3 DEF Inv, CommandInv, ViewInv
  <2> QED
    BY <2>1, <2>2
<1> QED
  BY <1>5, <1>6, <1>7, <1>8, <1>9, <1>10 DEF Inv

-------------------------------------------------------------------------------
LEMMA StepInv == ASSUME Inv, NEW p \in Process, Step(p) PROVE Inv'
<1>1. CASE \E s \in Spelling : Logout(p, s)
  BY <1>1, BeginInv DEF Logout
<1>2. CASE \E s \in Spelling : GetCredentials(p, s)
  BY <1>2, BeginInv DEF GetCredentials
<1>3. CASE \E s \in Spelling : \E u \in User : Login(p, s, u)
  BY <1>3, BeginInv DEF Login
<1>4. CASE Verify(p) \/ LoadFails(p)
  BY <1>4, VerifyInv
<1>5. CASE LoadForLogin(p)
  BY <1>5, LoginInv
<1>6. CASE LoadForLogout(p)
  BY <1>6, LogoutInv
<1>7. CASE LoadForLookup(p)
  BY <1>7, LookupInv
<1>8. CASE Open(p)
  BY <1>8, OpenInv
<1>9. CASE Write(p)
  BY <1>9, WriteKeeps
<1>10. CASE Kill(p)
  BY <1>10, KillInv
<1> QED
  BY <1>1, <1>2, <1>3, <1>4, <1>5, <1>6, <1>7, <1>8, <1>9, <1>10 DEF Step

LEMMA StutterInv == ASSUME Inv, UNCHANGED vars PROVE Inv'
BY DEF Inv, Types, CommandInv, ViewInv, OverlapInv, FileInv, WriteInv, BrokenForAReason,
       Saving, IsBroken, vars

\* The invariant that the theorems rest on.
THEOREM Invariant == Spec => []Inv
<1>1. Inv /\ [Next]_vars => Inv'
  BY StepInv, StutterInv DEF Next
<1> QED
  BY InitInv, <1>1, PTL DEF Spec

\* ReportedIsKept, for every number of commands that run at once: what a login or a logout
\* has reported is in auth.json until another command changes it, or overlaps it.
THEOREM ReportedStaysTrue == Spec => []ReportedIsKept
<1>1. Inv => ReportedIsKept
  <2> SUFFICES ASSUME Inv, NEW n \in Registry, ~IsBroken, promise[n] # Unsure
               PROVE  \/ promise[n] = Nobody /\ n \notin DOMAIN file.accounts
                      \/ n \in DOMAIN file.accounts /\ file.accounts[n] = promise[n]
    BY DEF ReportedIsKept
  <2>1. promise[n] = Account(file.accounts, n)
    BY DEF Inv, FileInv
  <2>2. CASE n \in DOMAIN file.accounts
    BY <2>1, <2>2 DEF Account
  <2>3. CASE n \notin DOMAIN file.accounts
    BY <2>1, <2>3 DEF Account
  <2> QED
    BY <2>2, <2>3
<1> QED
  BY Invariant, <1>1, PTL

\* BrokenForAReason: but for an end in the middle of writing, or two writers at once, what
\* _save_auth_file leaves can be read.
THEOREM BrokenOnlyForAReason == Spec => []BrokenForAReason
<1>1. Inv => BrokenForAReason
  BY DEF Inv
<1> QED
  BY Invariant, <1>1, PTL

\* LookupsAnswerTruly: get_credentials answers the account that was reported, or fails.
THEOREM LookupsAreTrue == Spec => LookupsAnswerTruly
<1>1. Inv /\ [Next]_vars => [\A p \in Process : LoadForLookup(p) =>
                               promise[command[p].registry] \in {Unsure, answer'[p]}]_vars
  <2> SUFFICES ASSUME Inv, NEW p \in Process, LoadForLookup(p)
               PROVE  promise[command[p].registry] \in {Unsure, answer'[p]}
    OBVIOUS
  <2>1. answer'[p] = Account(file.accounts, command[p].registry)
    BY DEF LoadForLookup, Account, Inv, Types
  <2>2. command[p].registry \in Registry /\ ~IsBroken
    BY DEF LoadForLookup, LoadAuthFile, Inv, CommandInv
  <2> QED
    BY <2>1, <2>2 DEF Inv, FileInv
<1> QED
  BY Invariant, <1>1, PTL DEF Spec, LookupsAnswerTruly
================================================================================
