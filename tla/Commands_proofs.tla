---------------------------- MODULE Commands_proofs ----------------------------
(***************************************************************************)
(* Of Commands, for any commands, tags and deaths of the daemon: a command *)
(* is executed at most once, its exit status says what has happened, and   *)
(* the user's own images go only when that was asked for, or by a write of *)
(* their listing that failed or overlapped with another.                   *)
(***************************************************************************)
EXTENDS Commands, TLAPS

Undecided == {"start", "probe", "connect"}
Saves == {"save", "saving"}
Direct == {"direct", "cache", "caching", "cached", "ask", "purge", "registry", "prepare", "upload"}
          \cup Saves

\* The types of all variables.
Types ==
    /\ job \in [Command -> Work]
    /\ pc \in [Command -> Undecided \cup Direct \cup {"wait", "ended"}]
    /\ request \in [Command -> {"none", "sent", "done", "answered", "lost"}]
    /\ success \in [Command -> BOOLEAN]
    /\ exit \in [Command -> {0, 1, 2}]
    /\ effects \in [Command -> Nat]
    /\ confirmed \in [Command -> BOOLEAN]
    /\ excuse \in [Command -> BOOLEAN]

\* What c is at a step that only one kind of command takes.
Kind(c) ==
    /\ job[c].kind = "push" => pc[c] \in {"start", "registry", "prepare", "upload", "ended"}
    /\ pc[c] \in {"registry", "prepare", "upload"} => job[c].kind = "push"
    /\ pc[c] \in {"cache", "caching", "cached"} => job[c].kind = "build"
    /\ pc[c] \in Saves => job[c].kind \in {"build", "rm", "purge"}
    /\ pc[c] \in {"ask", "purge"} => job[c].kind = "purge"
    /\ pc[c] = "purge" \/ (pc[c] \in Saves /\ job[c].kind = "purge") => confirmed[c]
    /\ confirmed[c] => job[c].kind = "purge" /\ pc[c] \in {"purge", "ended"} \cup Saves

\* Before the daemon may have the request of c, and on the way without the daemon until it
\* has ended, nothing is done; nor is it while the daemon has not begun.
NotYet(c) ==
    /\ pc[c] \in Undecided \cup Direct => request[c] = "none"
    /\ pc[c] \in Undecided \cup Direct \/ request[c] = "sent" => effects[c] = 0
    /\ pc[c] = "wait" => request[c] # "none"

\* What the daemon answers is what it has done.
AnswerTrue(c) ==
    request[c] \in {"done", "answered"} =>
        /\ success[c] /\ job[c].kind # "ls" => effects[c] = 1
        /\ ~success[c] /\ effects[c] > 0 => excuse[c]

\* A command that has left before the answer is excused, and has failed.
LeftEarly(c) ==
    /\ pc[c] # "ended" <=> exit[c] = 2
    /\ pc[c] = "ended" /\ request[c] \in {"sent", "done", "lost"} => exit[c] = 1 /\ excuse[c]

Truth(c) ==
    /\ exit[c] = 0 /\ ~NothingAsked(c) => effects[c] = 1
    /\ exit[c] = 1 /\ effects[c] > 0 => excuse[c]

CommandInv(c) ==
    Kind(c) /\ NotYet(c) /\ AnswerTrue(c) /\ LeftEarly(c) /\ Truth(c) /\ effects[c] <= 1

Inv == Types /\ \A c \in Command : CommandInv(c)

USE DEF Undecided, Direct, Saves

LEMMA JobKind == ASSUME Types, NEW c \in Command PROVE job[c].kind \in Kinds /\ job[c].force \in BOOLEAN
BY CommandsAssumption DEF Types

LEMMA InitInv == ASSUME Init PROVE Inv
<1>1. Types
  BY DEF Types, Init
<1>2. ASSUME NEW c \in Command PROVE CommandInv(c)
  <2>1. /\ pc[c] = "start" /\ ~confirmed[c] /\ request[c] = "none" /\ exit[c] = 2 /\ effects[c] = 0
    BY DEF Init
  <2> QED
    BY <2>1 DEF CommandInv, Kind, NotYet, AnswerTrue, LeftEarly, Truth
<1> QED
  BY <1>1, <1>2 DEF Inv

LEMMA Others ==
    ASSUME NEW c \in Command, Inv,
           job' = job,
           \A d \in Command \ {c} :
               /\ pc'[d] = pc[d] /\ request'[d] = request[d] /\ success'[d] = success[d]
               /\ exit'[d] = exit[d] /\ effects'[d] = effects[d]
               /\ confirmed'[d] = confirmed[d] /\ excuse'[d] = excuse[d],
           Types', CommandInv(c)'
    PROVE  Inv'
<1>1. ASSUME NEW d \in Command, d # c PROVE CommandInv(d)'
  <2>1. CommandInv(d)
    BY DEF Inv
  <2> QED
    BY <2>1, <1>1 DEF CommandInv, Kind, NotYet, AnswerTrue, LeftEarly, Truth, NothingAsked
<1> QED
  BY <1>1 DEF Inv

LEMMA StartBuildKeeps == ASSUME NEW c \in Command, Inv, StartBuild(c) PROVE Inv'
<1> USE DEF StartBuild, Is, Goto, Exit, client, daemon
<1>0. Types /\ CommandInv(c)
  BY DEF Inv
<1>1. Types'
  BY <1>0, JobKind DEF Types
<1>2. CommandInv(c)'
  BY <1>0, JobKind DEF Types, CommandInv, Kind, NotYet, AnswerTrue, LeftEarly, Truth, NothingAsked
<1> QED
  BY <1>0, <1>1, <1>2, Others DEF Types

LEMMA IsAvailableKeeps == ASSUME NEW c \in Command, Inv, IsAvailable(c) PROVE Inv'
<1> USE DEF IsAvailable, Goto, client, daemon
<1>0. Types /\ CommandInv(c)
  BY DEF Inv
<1>1. Types'
  BY <1>0, JobKind DEF Types
<1>2. CommandInv(c)'
  BY <1>0, JobKind DEF Types, CommandInv, Kind, NotYet, AnswerTrue, LeftEarly, Truth, NothingAsked
<1> QED
  BY <1>0, <1>1, <1>2, Others DEF Types

LEMMA ConnectKeeps == ASSUME NEW c \in Command, Inv, Connect(c) PROVE Inv'
<1> USE DEF Connect, Goto, Exit, client, daemon
<1>0. Types /\ CommandInv(c)
  BY DEF Inv
<1>1. Types'
  BY <1>0, JobKind DEF Types
<1>2. CommandInv(c)'
  BY <1>0, JobKind DEF Types, CommandInv, Kind, NotYet, AnswerTrue, LeftEarly, Truth, NothingAsked
<1> QED
  BY <1>0, <1>1, <1>2, Others DEF Types

LEMMA LeaveKeeps == ASSUME NEW c \in Command, Inv, Leave(c) PROVE Inv'
<1> USE DEF Leave, Exit, client, daemon
<1>0. Types /\ CommandInv(c)
  BY DEF Inv
<1>1. Types'
  BY <1>0, JobKind DEF Types
<1>2. CommandInv(c)'
  BY <1>0, JobKind DEF Types, CommandInv, Kind, NotYet, AnswerTrue, LeftEarly, Truth, NothingAsked
<1> QED
  BY <1>0, <1>1, <1>2, Others DEF Types

LEMMA ConnectionLostKeeps == ASSUME NEW c \in Command, Inv, ConnectionLost(c) PROVE Inv'
<1> USE DEF ConnectionLost, Exit, client, daemon
<1>0. Types /\ CommandInv(c)
  BY DEF Inv
<1>1. Types'
  BY <1>0, JobKind DEF Types
<1>2. CommandInv(c)'
  BY <1>0, JobKind DEF Types, CommandInv, Kind, NotYet, AnswerTrue, LeftEarly, Truth, NothingAsked
<1> QED
  BY <1>0, <1>1, <1>2, Others DEF Types

LEMMA BuildAnsweredKeeps == ASSUME NEW c \in Command, Inv, BuildAnswered(c) PROVE Inv'
<1> USE DEF BuildAnswered, Is, Exit, client, daemon
<1>0. Types /\ CommandInv(c)
  BY DEF Inv
<1>1. Types'
  BY <1>0, JobKind DEF Types
<1>2. CommandInv(c)'
  BY <1>0, JobKind DEF Types, CommandInv, Kind, NotYet, AnswerTrue, LeftEarly, Truth, NothingAsked
<1> QED
  BY <1>0, <1>1, <1>2, Others DEF Types

LEMMA RemoveAnsweredKeeps == ASSUME NEW c \in Command, Inv, RemoveAnswered(c) PROVE Inv'
<1> USE DEF RemoveAnswered, Is, Exit, client, daemon
<1>0. Types /\ CommandInv(c)
  BY DEF Inv
<1>1. Types'
  BY <1>0, JobKind DEF Types
<1>2. CommandInv(c)'
  BY <1>0, JobKind DEF Types, CommandInv, Kind, NotYet, AnswerTrue, LeftEarly, Truth, NothingAsked
<1> QED
  BY <1>0, <1>1, <1>2, Others DEF Types

LEMMA PurgeAnsweredKeeps == ASSUME NEW c \in Command, Inv, PurgeAnswered(c) PROVE Inv'
<1> USE DEF PurgeAnswered, Is, Exit, client, daemon
<1>0. Types /\ CommandInv(c)
  BY DEF Inv
<1>1. Types'
  BY <1>0, JobKind DEF Types
<1>2. CommandInv(c)'
  BY <1>0, JobKind DEF Types, CommandInv, Kind, NotYet, AnswerTrue, LeftEarly, Truth, NothingAsked
<1> QED
  BY <1>0, <1>1, <1>2, Others DEF Types

LEMMA ListAnsweredKeeps == ASSUME NEW c \in Command, Inv, ListAnswered(c) PROVE Inv'
<1> USE DEF ListAnswered, Is, Exit, client, daemon
<1>0. Types /\ CommandInv(c)
  BY DEF Inv
<1>1. Types'
  BY <1>0, JobKind DEF Types
<1>2. CommandInv(c)'
  BY <1>0, JobKind DEF Types, CommandInv, Kind, NotYet, AnswerTrue, LeftEarly, Truth, NothingAsked
<1> QED
  BY <1>0, <1>1, <1>2, Others DEF Types

LEMMA CountBeforePurgeKeeps == ASSUME NEW c \in Command, Inv, CountBeforePurge(c) PROVE Inv'
<1> USE DEF CountBeforePurge, Is, Goto, Exit, client, daemon
<1>0. Types /\ CommandInv(c)
  BY DEF Inv
<1>1. Types'
  BY <1>0, JobKind DEF Types
<1>2. CommandInv(c)'
  BY <1>0, JobKind DEF Types, CommandInv, Kind, NotYet, AnswerTrue, LeftEarly, Truth, NothingAsked
<1> QED
  BY <1>0, <1>1, <1>2, Others DEF Types

LEMMA ConfirmKeeps == ASSUME NEW c \in Command, Inv, Confirm(c) PROVE Inv'
<1> USE DEF Confirm, Is, Goto, Exit, client, daemon
<1>0. Types /\ CommandInv(c)
  BY DEF Inv
<1>1. Types'
  BY <1>0, JobKind DEF Types
<1>2. CommandInv(c)'
  BY <1>0, JobKind DEF Types, CommandInv, Kind, NotYet, AnswerTrue, LeftEarly, Truth, NothingAsked
<1> QED
  BY <1>0, <1>1, <1>2, Others DEF Types

LEMMA StartPushKeeps == ASSUME NEW c \in Command, Inv, StartPush(c) PROVE Inv'
<1> USE DEF StartPush, Is, Goto, Exit, client, daemon
<1>0. Types /\ CommandInv(c)
  BY DEF Inv
<1>1. Types'
  BY <1>0, JobKind DEF Types
<1>2. CommandInv(c)'
  BY <1>0, JobKind DEF Types, CommandInv, Kind, NotYet, AnswerTrue, LeftEarly, Truth, NothingAsked
<1> QED
  BY <1>0, <1>1, <1>2, Others DEF Types

LEMMA AskRegistryKeeps == ASSUME NEW c \in Command, Inv, AskRegistry(c) PROVE Inv'
<1> USE DEF AskRegistry, Is, Goto, Exit, client, daemon
<1>0. Types /\ CommandInv(c)
  BY DEF Inv
<1>1. Types'
  BY <1>0, JobKind DEF Types
<1>2. CommandInv(c)'
  BY <1>0, JobKind DEF Types, CommandInv, Kind, NotYet, AnswerTrue, LeftEarly, Truth, NothingAsked
<1> QED
  BY <1>0, <1>1, <1>2, Others DEF Types

LEMMA PrepareImageForPushKeeps == ASSUME NEW c \in Command, Inv, PrepareImageForPush(c) PROVE Inv'
<1> USE DEF PrepareImageForPush, Is, Goto, Exit, client, daemon
<1>0. Types /\ CommandInv(c)
  BY DEF Inv
<1>1. Types'
  BY <1>0, JobKind DEF Types
<1>2. CommandInv(c)'
  BY <1>0, JobKind DEF Types, CommandInv, Kind, NotYet, AnswerTrue, LeftEarly, Truth, NothingAsked
<1> QED
  BY <1>0, <1>1, <1>2, Others DEF Types

LEMMA DismissKeeps == ASSUME NEW c \in Command, Inv, Dismiss(c) PROVE Inv'
<1> USE DEF Dismiss, client, daemon
<1>0. Types /\ CommandInv(c)
  BY DEF Inv
<1>1. Types'
  BY <1>0, JobKind DEF Types
<1>2. CommandInv(c)'
  BY <1>0, JobKind DEF Types, CommandInv, Kind, NotYet, AnswerTrue, LeftEarly, Truth, NothingAsked
<1> QED
  BY <1>0, <1>1, <1>2, Others DEF Types

LEMMA HandleListKeeps == ASSUME NEW c \in Command, Inv, HandleList(c) PROVE Inv'
<1> USE DEF HandleList, Handling, Handled, Untouched, client, daemon
<1>0. Types /\ CommandInv(c)
  BY DEF Inv
<1>1. Types'
  BY <1>0, JobKind DEF Types
<1>2. CommandInv(c)'
  BY <1>0, JobKind DEF Types, CommandInv, Kind, NotYet, AnswerTrue, LeftEarly, Truth, NothingAsked
<1> QED
  BY <1>0, <1>1, <1>2, Others DEF Types

LEMMA AnswerKeeps == ASSUME NEW c \in Command, Inv, Answer(c) PROVE Inv'
<1> USE DEF Answer, client, daemon
<1>0. Types /\ CommandInv(c)
  BY DEF Inv
<1>1. Types'
  BY <1>0, JobKind DEF Types
<1>2. CommandInv(c)'
  BY <1>0, JobKind DEF Types, CommandInv, Kind, NotYet, AnswerTrue, LeftEarly, Truth, NothingAsked
<1> QED
  BY <1>0, <1>1, <1>2, Others DEF Types

(* What an attempt does to the history of c: what was asked for is done, nothing is, or   *)
(* either with the repository's failure as an excuse.                                      *)
Did(c) == effects' = [effects EXCEPT ![c] = @ + 1] /\ UNCHANGED excuse
DidNothing == UNCHANGED <<effects, excuse>>
Failed(c) ==
    /\ effects' \in {effects, [effects EXCEPT ![c] = @ + 1]}
    /\ excuse' = [excuse EXCEPT ![c] = TRUE]

LEMMA Attempted ==
    ASSUME NEW c \in Command, Types, Did(c) \/ DidNothing \/ Failed(c)
    PROVE  /\ effects' \in [Command -> Nat] /\ excuse' \in [Command -> BOOLEAN]
           /\ \A d \in Command \ {c} : effects'[d] = effects[d] /\ excuse'[d] = excuse[d]
           /\ Did(c) => effects'[c] = effects[c] + 1 /\ excuse'[c] = excuse[c]
           /\ DidNothing => effects'[c] = effects[c] /\ excuse'[c] = excuse[c]
           /\ Failed(c) => effects'[c] \in {effects[c], effects[c] + 1} /\ excuse'[c]
<1>1. CASE Did(c)
  <2>1. effects \in [Command -> Nat] /\ excuse \in [Command -> BOOLEAN] /\ excuse' = excuse
    BY <1>1 DEF Types, Did
  <2>2. effects' = [effects EXCEPT ![c] = @ + 1] /\ effects[c] \in Nat
    BY <1>1, <2>1 DEF Did
  <2>3. ~DidNothing
    BY <2>1, <2>2 DEF DidNothing
  <2>4. Failed(c) => excuse'[c]
    BY <2>1 DEF Failed
  <2> QED BY <2>1, <2>2, <2>3, <2>4
<1>2. CASE DidNothing
  <2>1. effects \in [Command -> Nat] /\ excuse \in [Command -> BOOLEAN] /\ effects' = effects /\ excuse' = excuse
    BY <1>2 DEF Types, DidNothing
  <2>2. effects[c] \in Nat
    BY <2>1
  <2>3. ~Did(c)
    BY <2>1, <2>2 DEF Did
  <2>4. Failed(c) => excuse'[c]
    BY <2>1 DEF Failed
  <2> QED BY <2>1, <2>2, <2>3, <2>4
<1>3. CASE Failed(c)
  <2>1. effects \in [Command -> Nat] /\ excuse \in [Command -> BOOLEAN] /\ effects[c] \in Nat
    BY DEF Types
  <2>2. excuse' = [excuse EXCEPT ![c] = TRUE]
    BY <1>3 DEF Failed
  <2>3. effects' = effects \/ effects' = [effects EXCEPT ![c] = @ + 1]
    BY <1>3 DEF Failed
  <2>4. DidNothing => effects'[c] = effects[c] /\ excuse'[c] = excuse[c]
    BY DEF DidNothing
  <2>5. Did(c) => effects'[c] = effects[c] + 1 /\ excuse'[c] = excuse[c]
    BY <2>1 DEF Did
  <2>6. excuse'[c] /\ excuse' \in [Command -> BOOLEAN] /\ \A d \in Command \ {c} : excuse'[d] = excuse[d]
    BY <2>1, <2>2
  <2>7. /\ effects' \in [Command -> Nat] /\ effects'[c] \in {effects[c], effects[c] + 1}
        /\ \A d \in Command \ {c} : effects'[d] = effects[d]
    <3>1. CASE effects' = effects
      BY <3>1, <2>1
    <3>2. CASE effects' = [effects EXCEPT ![c] = @ + 1]
      BY <3>2, <2>1
    <3> QED BY <3>1, <3>2, <2>3
  <2> QED BY <2>4, <2>5, <2>6, <2>7
<1> QED
  BY <1>1, <1>2, <1>3

(* A command that works on the user's repository itself, and ends.                         *)
LEMMA DirectKeeps ==
    ASSUME NEW c \in Command, Inv, pc[c] \in Direct,
           NEW status \in {0, 1}, Exit(c, status), UNCHANGED daemon,
           \/ status = 0 /\ Did(c)
           \/ status = 1 /\ (DidNothing \/ Failed(c))
    PROVE  Inv'
<1>0. Types /\ CommandInv(c)
  BY DEF Inv
<1>1. /\ pc' = [pc EXCEPT ![c] = "ended"] /\ exit' = [exit EXCEPT ![c] = status]
      /\ UNCHANGED <<job, confirmed, request, success>>
  BY DEF Exit, daemon
<1>2. request[c] = "none" /\ effects[c] = 0
  BY <1>0 DEF CommandInv, NotYet
<1>3. /\ effects' \in [Command -> Nat] /\ excuse' \in [Command -> BOOLEAN]
      /\ \A d \in Command \ {c} : effects'[d] = effects[d] /\ excuse'[d] = excuse[d]
  BY <1>0, Attempted
<1>4. \/ status = 0 /\ effects'[c] = 1
      \/ status = 1 /\ effects'[c] = 0
      \/ status = 1 /\ effects'[c] \in {0, 1} /\ excuse'[c]
  BY <1>0, <1>2, Attempted
<1>5. Types'
  BY <1>0, <1>1, <1>3 DEF Types
<1>6. pc'[c] = "ended" /\ exit'[c] = status /\ request'[c] = "none"
  BY <1>0, <1>1, <1>2 DEF Types
<1>7. CommandInv(c)'
  BY <1>0, <1>1, <1>4, <1>6 DEF CommandInv, Kind, NotYet, AnswerTrue, LeftEarly, Truth
<1> QED
  BY <1>0, <1>1, <1>3, <1>5, <1>7, Others DEF Types

(* The daemon does what a client that may have left by then has asked for.                 *)
LEMMA HandledKeeps ==
    ASSUME NEW c \in Command, Inv, request[c] = "sent",
           NEW ok \in BOOLEAN, Handled(c, ok),
           \/ ok /\ Did(c)
           \/ ~ok /\ (DidNothing \/ Failed(c))
    PROVE  Inv'
<1>0. Types /\ CommandInv(c)
  BY DEF Inv
<1>1. /\ request' = [request EXCEPT ![c] = "done"] /\ success' = [success EXCEPT ![c] = ok]
      /\ UNCHANGED <<job, pc, exit, confirmed>>
  BY DEF Handled
<1>2. effects[c] = 0
  BY <1>0 DEF CommandInv, NotYet
<1>3. /\ effects' \in [Command -> Nat] /\ excuse' \in [Command -> BOOLEAN]
      /\ \A d \in Command \ {c} : effects'[d] = effects[d] /\ excuse'[d] = excuse[d]
  BY <1>0, Attempted
<1>4. /\ effects'[c] \in {0, 1}
      /\ ok => effects'[c] = 1
      /\ ~ok /\ effects'[c] > 0 => excuse'[c]
      /\ excuse[c] => excuse'[c]
  BY <1>0, <1>2, Attempted
<1>5. Types'
  BY <1>0, <1>1, <1>3 DEF Types
<1>6. request'[c] = "done" /\ success'[c] = ok
  BY <1>0, <1>1 DEF Types
<1>7. CommandInv(c)'
  <2>1. AnswerTrue(c)'
    BY <1>4, <1>6 DEF AnswerTrue
  <2>2. Kind(c)' /\ NotYet(c)' /\ LeftEarly(c)'
    BY <1>0, <1>1, <1>4, <1>6 DEF CommandInv, Kind, NotYet, LeftEarly
  <2>3. Truth(c)'
    BY <1>0, <1>1, <1>4, <1>6 DEF CommandInv, LeftEarly, Truth, Types, NotYet
  <2> QED BY <2>1, <2>2, <2>3, <1>4 DEF CommandInv
<1> QED
  BY <1>0, <1>1, <1>3, <1>5, <1>7, Others DEF Types

LEMMA DirectListKeeps == ASSUME NEW c \in Command, Inv, DirectList(c) PROVE Inv'
<1> USE DEF DirectList, Is, Untouched, client, daemon
<1>0. Types /\ CommandInv(c)
  BY DEF Inv
<1>1. Types'
  BY <1>0, JobKind DEF Types
<1>2. CommandInv(c)'
  BY <1>0, JobKind DEF Types, CommandInv, Kind, NotYet, AnswerTrue, LeftEarly, Truth, NothingAsked
<1> QED
  BY <1>0, <1>1, <1>2, Others DEF Types

(* A command that works on the user's repository goes on to its next step.                  *)
LEMMA GoesOn ==
    ASSUME NEW c \in Command, Inv, pc[c] \in Direct, NEW step \in Direct, Goto(c, step),
           UNCHANGED <<confirmed, request, success, effects, excuse>>,
           step \in {"cache", "caching", "cached"} => job[c].kind = "build",
           step \in Saves => job[c].kind \in {"build", "rm", "purge"},
           step \in Saves /\ job[c].kind = "purge" => confirmed[c],
           confirmed[c] => step \in Saves, step \notin {"ask", "purge", "registry", "prepare", "upload"},
           job[c].kind # "push"
    PROVE  Inv'
<1>0. Types /\ CommandInv(c)
  BY DEF Inv
<1>1. pc' = [pc EXCEPT ![c] = step] /\ UNCHANGED <<job, shown, exit>>
  BY DEF Goto
<1>2. Types' /\ pc'[c] = step
  BY <1>0, <1>1 DEF Types
<1>3. CommandInv(c)'
  BY <1>0, <1>1, <1>2 DEF CommandInv, Kind, NotYet, AnswerTrue, LeftEarly, Truth, NothingAsked
<1> QED
  BY <1>0, <1>1, <1>2, <1>3, Others DEF Types

LEMMA DirectFailsKeeps == ASSUME NEW c \in Command, Inv, DirectFails(c) PROVE Inv'
BY DirectKeeps DEF DirectFails, Untouched, DidNothing

LEMMA EmptyKeeps == ASSUME NEW c \in Command, Inv, Empty(c) PROVE Inv'
<1>1. CommandInv(c) /\ UNCHANGED <<confirmed, request, success, effects, excuse>>
  BY DEF Inv, Empty, daemon
<1>2. CASE pc[c] = "cache" /\ Goto(c, "caching")
  BY <1>1, <1>2, GoesOn DEF CommandInv, Kind
<1>3. CASE pc[c] = "save" /\ Goto(c, "saving")
  BY <1>1, <1>3, GoesOn DEF CommandInv, Kind
<1> QED
  BY <1>2, <1>3 DEF Empty

LEMMA CacheBaseKeeps == ASSUME NEW c \in Command, Inv, CacheBase(c) PROVE Inv'
<1>1. CommandInv(c) /\ UNCHANGED <<confirmed, request, success, effects, excuse>>
  BY DEF Inv, CacheBase, Load, daemon
<1>2. pc[c] = "direct" /\ job[c].kind = "build" /\ Goto(c, "cache")
  BY DEF CacheBase, Load, Is
<1> QED
  BY <1>1, <1>2, GoesOn DEF CommandInv, Kind

LEMMA BaseCachedKeeps == ASSUME NEW c \in Command, Inv, BaseCached(c) PROVE Inv'
<1>1. CommandInv(c) /\ UNCHANGED <<confirmed, request, success, effects, excuse>>
  BY DEF Inv, BaseCached, daemon
<1>2. pc[c] = "caching" /\ Goto(c, "cached")
  BY DEF BaseCached
<1> QED
  BY <1>1, <1>2, GoesOn DEF CommandInv, Kind

LEMMA DirectBuildKeeps == ASSUME NEW c \in Command, Inv, DirectBuild(c) PROVE Inv'
<1>1. CommandInv(c) /\ UNCHANGED <<confirmed, request, success, effects, excuse>>
  BY DEF Inv, DirectBuild, Load, daemon
<1>2. pc[c] \in {"direct", "cached"} /\ job[c].kind = "build" /\ Goto(c, "save")
  BY DEF DirectBuild, Load, Is
<1> QED
  BY <1>1, <1>2, GoesOn DEF CommandInv, Kind

LEMMA DirectRemoveKeeps == ASSUME NEW c \in Command, Inv, DirectRemove(c) PROVE Inv'
<1>0. CommandInv(c) /\ pc[c] = "direct" /\ job[c].kind = "rm"
  BY DEF Inv, DirectRemove, Is
<1>1. CASE Exit(c, 1) /\ Untouched /\ UNCHANGED daemon
  BY <1>0, <1>1, DirectKeeps DEF Untouched, DidNothing
<1>2. CASE Goto(c, "save") /\ UNCHANGED <<confirmed, request, success, effects, excuse>>
  BY <1>0, <1>2, GoesOn DEF CommandInv, Kind
<1> QED
  BY <1>1, <1>2 DEF DirectRemove, Load, daemon

LEMMA DirectPurgeKeeps == ASSUME NEW c \in Command, Inv, DirectPurge(c) PROVE Inv'
<1>0. CommandInv(c) /\ pc[c] = "purge" /\ job[c].kind = "purge"
  BY DEF Inv, DirectPurge, Is
<1>1. CASE Exit(c, 1) /\ Untouched /\ UNCHANGED daemon
  BY <1>0, <1>1, DirectKeeps DEF Untouched, DidNothing
<1>2. CASE Goto(c, "save") /\ UNCHANGED <<confirmed, request, success, effects, excuse>>
  BY <1>0, <1>2, GoesOn DEF CommandInv, Kind
<1> QED
  BY <1>1, <1>2 DEF DirectPurge, Load, daemon

LEMMA SaveKeeps == ASSUME NEW c \in Command, Inv, Save(c) PROVE Inv'
BY DirectKeeps DEF Save, Done, Did, Failed

LEMMA SaveFailsKeeps == ASSUME NEW c \in Command, Inv, SaveFails(c) PROVE Inv'
BY DirectKeeps DEF SaveFails, Failed

LEMMA PushImageKeeps == ASSUME NEW c \in Command, Inv, PushImage(c) PROVE Inv'
BY DirectKeeps DEF PushImage, Is, Done, Did, Failed

LEMMA HandleBuildKeeps == ASSUME NEW c \in Command, Inv, HandleBuild(c) PROVE Inv'
BY HandledKeeps DEF HandleBuild, Handling, Done, Did, DidNothing

LEMMA HandleRemoveKeeps == ASSUME NEW c \in Command, Inv, HandleRemove(c) PROVE Inv'
BY HandledKeeps DEF HandleRemove, Handling, Fault, Done, Untouched, Did, DidNothing, Failed

LEMMA HandlePurgeKeeps == ASSUME NEW c \in Command, Inv, HandlePurge(c) PROVE Inv'
BY HandledKeeps DEF HandlePurge, Handling, Fault, Done, Did, Failed

LEMMA DieKeeps == ASSUME Inv, Die PROVE Inv'
<1>1. /\ \A d \in Command : request'[d] = IF request[d] \in {"sent", "done"} THEN "lost" ELSE request[d]
      /\ UNCHANGED <<job, pc, exit, confirmed, success, effects, excuse>>
  BY DEF Die, client
<1>2. Types /\ Types'
  BY <1>1 DEF Inv, Types, Die
<1>3. ASSUME NEW d \in Command PROVE CommandInv(d)'
  <2>1. CommandInv(d)
    BY DEF Inv
  <2> QED
    BY <2>1, <1>1 DEF CommandInv, Kind, NotYet, AnswerTrue, LeftEarly, Truth, NothingAsked
<1> QED
  BY <1>2, <1>3 DEF Inv

LEMMA StepInv == ASSUME Inv, [Next]_vars PROVE Inv'
<1>1. ASSUME NEW c \in Command, ClientStep(c) PROVE Inv'
  BY <1>1, StartBuildKeeps, IsAvailableKeeps, ConnectKeeps, LeaveKeeps, ConnectionLostKeeps,
     BuildAnsweredKeeps, RemoveAnsweredKeeps, PurgeAnsweredKeeps, ListAnsweredKeeps,
     CacheBaseKeeps, BaseCachedKeeps, DirectBuildKeeps, DirectListKeeps, DirectRemoveKeeps,
     CountBeforePurgeKeeps, ConfirmKeeps, DirectPurgeKeeps, DirectFailsKeeps, EmptyKeeps,
     SaveKeeps, SaveFailsKeeps, StartPushKeeps, AskRegistryKeeps, PrepareImageForPushKeeps,
     PushImageKeeps DEF ClientStep
<1>2. ASSUME NEW c \in Command, DaemonStep(c) PROVE Inv'
  BY <1>2, DismissKeeps, HandleBuildKeeps, HandleListKeeps, HandleRemoveKeeps, HandlePurgeKeeps, AnswerKeeps DEF DaemonStep
<1>3. CASE StartDaemon \/ UNCHANGED vars
  BY <1>3 DEF StartDaemon, vars, client, daemon, Inv, Types, CommandInv, Kind, NotYet, AnswerTrue,
     LeftEarly, Truth, NothingAsked
<1> QED
  BY <1>1, <1>2, <1>3, DieKeeps DEF Next

LEMMA Invariant == Spec => []Inv
<1>1. Init => Inv
  BY InitInv
<1>2. Inv /\ [Next]_vars => Inv'
  BY StepInv
<1> QED
  BY <1>1, <1>2, PTL DEF Spec

-------------------------------------------------------------------------------
(* Whose images stay.                                                                      *)

Emptied(c) == pc[c] \in {"caching", "saving"}

\* What has to be in the listing that c is going to write.
After(c) == IF pc[c] \in Saves THEN KeptAfter(c) ELSE kept

Keeping(c) ==
    /\ listing[c] \subseteq Tag
    /\ Rewriting(c) => After(c) \subseteq listing[c]
    /\ Rewriting(c) /\ clash[c] => kept = {}
    /\ Rewriting(c) /\ ~clash[c] => \A d \in Command \ {c} : ~Rewriting(d)
    /\ Emptied(c) /\ ~clash[c] => images.user = {}

Owned ==
    /\ images \in [{"daemon", "user"} -> SUBSET Tag] /\ kept \subseteq Tag
    /\ clash \in [Command -> BOOLEAN] /\ listing \in [Command -> SUBSET Tag]
    /\ \A c \in Command : Keeping(c)
    /\ OwnImagesKept

LEMMA EmptiedRewrites == \A c \in Command : Emptied(c) => Rewriting(c)
BY DEF Emptied, Rewriting

LEMMA JobTag == ASSUME Types, NEW c \in Command PROVE job[c].tag \in Tag
BY CommandsAssumption DEF Types

LEMMA RepositoryFacts ==
    ASSUME Owned, NEW r \in {"daemon", "user"}, NEW tags \in SUBSET Tag, Repository(r, tags)
    PROVE  /\ images' \in [{"daemon", "user"} -> SUBSET Tag]
           /\ r = "user" => images'.user = tags
           /\ r = "daemon" => images'.user = images.user
BY DEF Owned, Repository

\* A step that begins no writing and touches nothing of the user's.
LEMMA OwnSame ==
    ASSUME Owned, UNCHANGED own, images' \in [{"daemon", "user"} -> SUBSET Tag],
           images'.user = images.user,
           \A d \in Command :
              /\ Rewriting(d)' => pc'[d] = pc[d] /\ confirmed'[d] = confirmed[d] /\ job'[d] = job[d]
              /\ Emptied(d) => Emptied(d)'
    PROVE  Owned'
<1>1. ASSUME NEW d \in Command PROVE Keeping(d)'
  <2>1. Keeping(d) /\ (Rewriting(d)' => Rewriting(d)) /\ (Emptied(d)' => Emptied(d))
    BY DEF Owned, Rewriting, Emptied
  <2>2. \A e \in Command : Rewriting(e)' => Rewriting(e)
    BY DEF Rewriting
  <2>3. Rewriting(d)' => After(d)' = After(d)
    BY DEF After, KeptAfter, own
  <2> QED
    BY <2>1, <2>2, <2>3 DEF Keeping, own
<1>2. OwnImagesKept'
  BY DEF Owned, OwnImagesKept, Emptied, own
<1> QED
  BY <1>1, <1>2 DEF Owned, own

\* c reads the listing.
LEMMA LoadOwned ==
    ASSUME NEW c \in Command, Inv, Owned, ~Rewriting(c), NEW next \in SUBSET Tag,
           NEW step \in {"cache", "save"}, Load(c, next, step),
           kept' \subseteq images.user => After(c)' \subseteq next
    PROVE  Owned'
<1> DEFINE others == {o \in Command \ {c} : Rewriting(o)}
<1>1. /\ listing' = [listing EXCEPT ![c] = next]
      /\ clash' = [o \in Command |-> IF o = c THEN others # {} ELSE clash[o] \/ o \in others]
      /\ kept' = IF others = {} THEN kept ELSE {}
      /\ pc' = [pc EXCEPT ![c] = step] /\ UNCHANGED <<job, confirmed, images>>
  BY DEF Load, Goto
<1>2. /\ listing' \in [Command -> SUBSET Tag] /\ listing'[c] = next
      /\ \A d \in Command \ {c} : listing'[d] = listing[d]
  BY <1>1 DEF Owned
<1>3. /\ pc'[c] = step /\ \A d \in Command \ {c} : pc'[d] = pc[d]
      /\ Rewriting(c)' /\ ~Emptied(c)' /\ ~Emptied(c)
      /\ \A d \in Command \ {c} : (Rewriting(d)' <=> Rewriting(d)) /\ (Emptied(d)' <=> Emptied(d))
  BY <1>1 DEF Inv, Types, Rewriting, Emptied
<1>4. clash' \in [Command -> BOOLEAN]
  <2> HIDE DEF others
  <2>1. clash \in [Command -> BOOLEAN]
    BY DEF Owned
  <2> QED
    BY <1>1, <2>1
<1>5. CASE others = {}
  <2>1. \A d \in Command : ~Rewriting(d) /\ ~Emptied(d)
    BY <1>5, EmptiedRewrites
  <2>2. kept \subseteq images.user /\ kept' = kept
    BY <1>1, <1>5, <2>1 DEF Owned, OwnImagesKept, Emptied
  <2>3. ~clash'[c]
    BY <1>1, <1>5
  <2>4. Keeping(c)'
    BY <1>2, <1>3, <2>1, <2>2, <2>3 DEF Keeping
  <2>5. \A d \in Command \ {c} : Keeping(d)'
    BY <1>2, <1>3, <2>1 DEF Keeping, Owned
  <2>6. OwnImagesKept'
    BY <1>1, <2>2 DEF OwnImagesKept
  <2> QED
    BY <1>1, <1>2, <1>4, <2>2, <2>4, <2>5, <2>6 DEF Owned
<1>6. CASE others # {}
  <2>1. kept' = {} /\ clash'[c]
    BY <1>1, <1>6
  <2>2. Keeping(c)'
    BY <1>2, <1>3, <2>1 DEF Keeping
  <2>3. ASSUME NEW d \in Command \ {c} PROVE Keeping(d)'
    <3>1. Keeping(d) /\ (Rewriting(d)' => clash'[d]) /\ listing'[d] \subseteq Tag
      BY <1>1, <1>2, <1>3 DEF Owned
    <3>2. Rewriting(d)' => After(d)' \subseteq After(d)
      BY <1>1, <1>3, <2>1 DEF After, KeptAfter
    <3>3. Emptied(d)' => Rewriting(d)'
      BY DEF Emptied, Rewriting
    <3> QED
      BY <1>2, <1>3, <2>1, <3>1, <3>2, <3>3 DEF Keeping
  <2>4. OwnImagesKept'
    BY <2>1 DEF OwnImagesKept
  <2> QED
    BY <1>1, <1>2, <1>4, <2>1, <2>2, <2>3, <2>4 DEF Owned
<1> QED
  BY <1>5, <1>6

\* c writes the listing, or leaves it empty: what has to be kept is in it.
LEMMA WriteOwned ==
    ASSUME NEW c \in Command, Inv, Owned, Emptied(c), ~Rewriting(c)',
           \A d \in Command \ {c} : pc'[d] = pc[d],
           UNCHANGED <<job, confirmed, listing, clash>>,
           \/ kept' = {} /\ images' = images
           \/ kept' = (IF clash[c] THEN kept ELSE After(c)) /\ Write(c)
    PROVE  Owned'
<1>1. /\ Keeping(c) /\ Rewriting(c)
      /\ \A d \in Command \ {c} : (Rewriting(d)' <=> Rewriting(d)) /\ (Emptied(d)' <=> Emptied(d))
      /\ ~Emptied(c)'
  BY EmptiedRewrites DEF Owned, Rewriting, Emptied
<1>2. images' \in [{"daemon", "user"} -> SUBSET Tag]
  BY <1>1, RepositoryFacts DEF Owned, Write, Keeping
<1>3. kept' \subseteq images'.user
  <2>1. CASE kept' = {}
    BY <2>1
  <2>2. CASE clash[c] /\ kept' = kept
    BY <1>1, <2>2 DEF Keeping
  <2>3. CASE ~clash[c] /\ kept' = After(c) /\ Write(c)
    <3>1. images.user = {} /\ After(c) \subseteq listing[c] /\ listing[c] \in SUBSET Tag
      BY <1>1, <2>3 DEF Keeping
    <3>2. images'.user = listing[c]
      BY <2>3, <3>1, RepositoryFacts DEF Write
    <3> QED
      BY <2>3, <3>1, <3>2
  <2> QED
    BY <2>1, <2>2, <2>3
<1>4. kept' \subseteq Tag
  BY <1>2, <1>3
<1>5. ASSUME NEW d \in Command \ {c} PROVE Keeping(d)'
  <2>1. Keeping(d)
    BY DEF Owned
  <2>2. CASE Rewriting(d)
    <3>1. clash[d] /\ clash[c] /\ kept = {}
      BY <1>1, <2>1, <2>2 DEF Keeping
    <3>2. kept' = {}
      BY <3>1
    <3>3. After(d)' = After(d)
      BY <3>1, <3>2 DEF After, KeptAfter
    <3> QED
      BY <1>1, <2>1, <2>2, <3>1, <3>2, <3>3 DEF Keeping
  <2>3. CASE ~Rewriting(d)
    BY <1>1, <2>1, <2>3, EmptiedRewrites DEF Keeping
  <2> QED
    BY <2>2, <2>3
<1>6. Keeping(c)'
  BY <1>1 DEF Keeping
<1>7. OwnImagesKept'
  BY <1>3 DEF OwnImagesKept
<1> QED
  BY <1>2, <1>4, <1>5, <1>6, <1>7 DEF Owned

LEMMA EmptyOwned ==
    ASSUME NEW c \in Command, Inv, Owned, Empty(c)
    PROVE  Owned'
<1>1. /\ \/ pc[c] = "cache" /\ pc' = [pc EXCEPT ![c] = "caching"]
         \/ pc[c] = "save" /\ pc' = [pc EXCEPT ![c] = "saving"]
      /\ Repository("user", {}) /\ UNCHANGED <<job, confirmed, listing, clash, kept>>
  BY DEF Empty, Goto, own
<1>2. images' \in [{"daemon", "user"} -> SUBSET Tag] /\ images'.user = {}
  BY <1>1, RepositoryFacts
<1>3. /\ \A d \in Command \ {c} : pc'[d] = pc[d]
      /\ Rewriting(c) /\ Rewriting(c)' /\ Emptied(c)'
      /\ \/ pc[c] = "cache" /\ pc'[c] = "caching"
         \/ pc[c] = "save" /\ pc'[c] = "saving"
  BY <1>1 DEF Inv, Types, Rewriting, Emptied
<1>4. \A d \in Command : (Rewriting(d)' <=> Rewriting(d)) /\ After(d)' = After(d)
  BY <1>1, <1>3 DEF Rewriting, After, KeptAfter
<1>5. \A d \in Command : Keeping(d)'
  BY <1>1, <1>2, <1>4 DEF Owned, Keeping
<1>6. OwnImagesKept'
  BY <1>3 DEF OwnImagesKept, Emptied
<1> QED
  BY <1>1, <1>2, <1>5, <1>6 DEF Owned

LEMMA ClientOwned ==
    ASSUME Inv, Owned, NEW c \in Command, ClientStep(c)
    PROVE  Owned'
<1>0. /\ Types /\ CommandInv(c) /\ job[c].tag \in Tag /\ Base \in Tag /\ images.user \in SUBSET Tag
      /\ job[c].kind \in Kinds
  BY JobTag, JobKind, CommandsAssumption DEF Inv, Owned
<1>1. CASE CacheBase(c)
  <2>1. /\ Load(c, images.user \cup {Base}, "cache") /\ pc[c] = "direct"
        /\ pc' = [pc EXCEPT ![c] = "cache"]
    BY <1>1 DEF CacheBase, Is, Load, Goto
  <2>2. pc'[c] = "cache" /\ ~Rewriting(c)
    BY <1>0, <2>1 DEF Types, Rewriting
  <2>3. After(c)' = kept'
    BY <2>2 DEF After
  <2> QED
    BY <1>0, <2>1, <2>2, <2>3, LoadOwned
<1>2. CASE DirectBuild(c)
  <2>1. /\ Load(c, images.user \cup {job[c].tag}, "save") /\ pc[c] \in {"direct", "cached"}
        /\ pc' = [pc EXCEPT ![c] = "save"] /\ job[c].kind = "build" /\ job' = job
    BY <1>2 DEF DirectBuild, Is, Load, Goto
  <2>2. pc'[c] = "save" /\ ~Rewriting(c)
    BY <1>0, <2>1 DEF Types, Rewriting
  <2>3. After(c)' = kept' \cup {job[c].tag}
    BY <2>1, <2>2 DEF After, KeptAfter
  <2> QED
    BY <1>0, <2>1, <2>2, <2>3, LoadOwned
<1>3. CASE DirectRemove(c) /\ job[c].tag \in images.user
  <2>1. /\ Load(c, images.user \ {job[c].tag}, "save") /\ pc[c] = "direct"
        /\ pc' = [pc EXCEPT ![c] = "save"] /\ job[c].kind = "rm" /\ job' = job
    BY <1>3 DEF DirectRemove, Is, Load, Goto
  <2>2. pc'[c] = "save" /\ ~Rewriting(c)
    BY <1>0, <2>1 DEF Types, Rewriting
  <2>3. After(c)' = kept' \ {job[c].tag}
    BY <2>1, <2>2 DEF After, KeptAfter
  <2>4. images.user \ {job[c].tag} \in SUBSET Tag
    BY <1>0
  <2> QED
    BY <1>0, <2>1, <2>2, <2>3, <2>4, LoadOwned
<1>4. CASE DirectPurge(c) /\ Load(c, {}, "save")
  <2>1. /\ Load(c, {}, "save") /\ pc[c] = "purge" /\ confirmed[c]
        /\ pc' = [pc EXCEPT ![c] = "save"] /\ job[c].kind = "purge" /\ UNCHANGED <<job, confirmed>>
    BY <1>0, <1>4 DEF DirectPurge, Is, Load, Goto, CommandInv, Kind
  <2>2. pc'[c] = "save" /\ ~Rewriting(c)
    BY <1>0, <2>1 DEF Types, Rewriting
  <2>3. After(c)' = {}
    BY <2>1, <2>2 DEF After, KeptAfter
  <2> QED
    BY <1>0, <2>1, <2>2, <2>3, LoadOwned
<1>5. CASE Empty(c)
  BY <1>5, EmptyOwned
<1>6. CASE BaseCached(c)
  <2>1. /\ pc[c] = "caching" /\ pc' = [pc EXCEPT ![c] = "cached"]
        /\ UNCHANGED <<job, confirmed, listing, clash>>
        /\ \/ kept' = {} /\ images' = images
           \/ kept' = kept /\ Write(c)
    BY <1>6 DEF BaseCached, Goto
  <2>2. /\ Emptied(c) /\ ~Rewriting(c)' /\ After(c) = kept
        /\ \A d \in Command \ {c} : pc'[d] = pc[d]
    BY <1>0, <2>1 DEF Types, Emptied, Rewriting, After
  <2> QED
    BY <2>1, <2>2, WriteOwned
<1>7. CASE Save(c) \/ (SaveFails(c) /\ pc[c] = "saving") \/ (SaveFails(c) /\ pc[c] = "caching")
  <2>1. /\ pc[c] \in {"caching", "saving"} /\ pc' = [pc EXCEPT ![c] = "ended"]
        /\ UNCHANGED <<job, confirmed, listing, clash>>
        /\ \/ kept' = {} /\ images' = images
           \/ pc[c] = "saving" /\ kept' = (IF clash[c] THEN kept ELSE KeptAfter(c)) /\ Write(c)
    BY <1>7 DEF Save, SaveFails, Exit
  <2>2. /\ Emptied(c) /\ ~Rewriting(c)' /\ (pc[c] = "saving" => After(c) = KeptAfter(c))
        /\ \A d \in Command \ {c} : pc'[d] = pc[d]
    BY <1>0, <2>1 DEF Types, Emptied, Rewriting, After
  <2> QED
    BY <2>1, <2>2, WriteOwned
<1>8. CASE UNCHANGED <<own, images>> /\ pc[c] \notin {"caching", "saving"}
           /\ \E step \in Undecided \cup Direct \cup {"wait", "ended"} :
                 /\ step \notin {"cache", "caching", "save", "saving"}
                 /\ pc' = [pc EXCEPT ![c] = step]
           /\ job' = job /\ \A d \in Command \ {c} : confirmed'[d] = confirmed[d]
  <2>1. /\ ~Rewriting(c)' /\ ~Emptied(c) /\ \A d \in Command \ {c} : pc'[d] = pc[d]
    BY <1>0, <1>8 DEF Types, Rewriting, Emptied
  <2>2. \A d \in Command \ {c} : Emptied(d) => Emptied(d)'
    BY <2>1 DEF Emptied
  <2>3. images' \in [{"daemon", "user"} -> SUBSET Tag]
    BY <1>8 DEF Owned
  <2> QED
    BY <1>8, <2>1, <2>2, <2>3, OwnSame
<1>9. ASSUME StartBuild(c) \/ IsAvailable(c) \/ Connect(c) \/ Leave(c) \/ ConnectionLost(c)
             \/ BuildAnswered(c) \/ RemoveAnswered(c) \/ PurgeAnswered(c) \/ ListAnswered(c)
      PROVE  Owned'
  BY <1>0, <1>8, <1>9 DEF StartBuild, IsAvailable, Connect, Leave, ConnectionLost, BuildAnswered,
     RemoveAnswered, PurgeAnswered, ListAnswered, Is, Goto, Exit, Types
<1>10. ASSUME \/ CountBeforePurge(c) \/ Confirm(c) \/ StartPush(c) \/ AskRegistry(c)
              \/ PrepareImageForPush(c) \/ PushImage(c) \/ DirectList(c) \/ DirectFails(c)
              \/ (DirectRemove(c) /\ job[c].tag \notin images.user)
              \/ (DirectPurge(c) /\ ~Load(c, {}, "save"))
       PROVE  Owned'
  BY <1>0, <1>8, <1>10 DEF CountBeforePurge, Confirm, StartPush, AskRegistry, PrepareImageForPush,
     PushImage, DirectList, DirectFails, DirectRemove, DirectPurge, Untouched, Is, Goto, Exit, Types
<1> QED
  BY <1>1, <1>2, <1>3, <1>4, <1>5, <1>6, <1>7, <1>9, <1>10 DEF ClientStep, SaveFails

\* The daemon works on its own repository.
LEMMA DaemonOwned ==
    ASSUME Inv, Owned, NEW c \in Command, DaemonStep(c)
    PROVE  Owned'
<1>1. job[c].tag \in Tag /\ Base \in Tag /\ images.daemon \in SUBSET Tag
  BY JobTag, CommandsAssumption DEF Inv, Owned
<1>2. UNCHANGED images \/ \E tags \in SUBSET Tag : Repository("daemon", tags)
  <2>1. CASE HandleBuild(c)
    BY <1>1, <2>1 DEF HandleBuild
  <2>2. CASE HandleRemove(c)
    <3>1. \E tags \in {images.daemon \ {job[c].tag}, {}} : UNCHANGED images \/ Repository("daemon", tags)
      BY <2>2 DEF HandleRemove, Fault, Untouched
    <3> QED
      BY <1>1, <3>1
  <2>3. CASE HandlePurge(c)
    <3>1. UNCHANGED images \/ Repository("daemon", {})
      BY <2>3 DEF HandlePurge, Fault
    <3> QED
      BY <3>1
  <2> QED
    BY <2>1, <2>2, <2>3 DEF DaemonStep, Dismiss, HandleList, Untouched, Answer
<1>3. images' \in [{"daemon", "user"} -> SUBSET Tag] /\ images'.user = images.user
  BY <1>2, RepositoryFacts DEF Owned
<1>4. UNCHANGED <<pc, job, confirmed, own>>
  BY DEF DaemonStep, Dismiss, HandleBuild, HandleList, HandleRemove, HandlePurge, Handled, Answer, client
<1>5. \A d \in Command : Emptied(d)' <=> Emptied(d)
  BY <1>4 DEF Emptied
<1> QED
  BY <1>3, <1>4, <1>5, OwnSame

LEMMA StepOwned == ASSUME Inv, Owned, [Next]_vars PROVE Owned'
<1>1. CASE Die \/ StartDaemon \/ UNCHANGED vars
  <2>1. UNCHANGED <<pc, job, confirmed, own>>
    BY <1>1 DEF Die, StartDaemon, vars, client
  <2>2. images' \in [{"daemon", "user"} -> SUBSET Tag] /\ images'.user = images.user
    BY <1>1, RepositoryFacts DEF Die, StartDaemon, vars, Owned
  <2>3. \A d \in Command : Emptied(d)' <=> Emptied(d)
    BY <2>1 DEF Emptied
  <2> QED
    BY <2>1, <2>2, <2>3, OwnSame
<1> QED
  BY <1>1, ClientOwned, DaemonOwned DEF Next

-------------------------------------------------------------------------------

\* An exit status of 0 is only given for what has been done, and of 1 only if nothing has
\* been and nothing will be, but for a lost daemon or a repository that failed: for the
\* routing and exit statuses of cli/main.py and daemon/client.py, with any number of commands.
THEOREM ExitStatusIsTrue == Spec => []ExitTellsTruth
<1>1. Inv => ExitTellsTruth
  BY DEF Inv, CommandInv, Truth, ExitTellsTruth
<1> QED
  BY <1>1, Invariant, PTL

\* What a command asks for is done at most once, however often the daemon dies and wherever
\* the client gives up: no way through cli/main.py leads from a request to direct execution.
THEOREM DoneAtMostOnce == Spec => []AtMostOnce
<1>1. Inv => AtMostOnce
  BY DEF Inv, CommandInv, AtMostOnce
<1> QED
  BY <1>1, Invariant, PTL

\* The user's own images stay until a removal of their tag or a purge that was forced or
\* confirmed takes them, whatever the daemon does to its own and however many commands are
\* run, dismissed or fail; but for writes of metadata.json that fail or overlap.
THEOREM OwnImagesStay == Spec => []OwnImagesKept
<1>1. Init => Owned
  <2> SUFFICES ASSUME Init PROVE Owned
    OBVIOUS
  <2>1. \A c \in Command : ~Rewriting(c) /\ ~Emptied(c) /\ listing[c] \subseteq Tag
    BY DEF Init, Rewriting, Emptied
  <2> QED
    BY <2>1 DEF Init, Owned, Keeping, OwnImagesKept
<1>2. Inv /\ Owned /\ [Next]_vars => Owned'
  BY StepOwned
<1>3. Owned => OwnImagesKept
  BY DEF Owned
<1> QED
  BY <1>1, <1>2, <1>3, Invariant, PTL DEF Spec
================================================================================
