------------------------------- MODULE Commands -------------------------------
(***************************************************************************)
(* The command line (cli/main.py) and the daemon's client (daemon/client.py)*)
(* with the daemon behind it: which of the two repositories a command works*)
(* on, and what its exit status says of what has happened.  build, ls, rm  *)
(* and purge go to the daemon if it answers a connection, and are executed *)
(* in the process itself, on the user's own repository, if not; push always*)
(* is.  A repository is the set of tags that its metadata.json lists; one  *)
(* that is torn lists nothing.  The daemon's is changed in single steps,   *)
(* which is what its locks make of them (ImageStore); the user's has none, *)
(* and is read, emptied and written in steps of their own.  What happens   *)
(* between the daemon's threads is DaemonServer's subject, and what a push *)
(* does at the registry RegistryClient's.                                  *)
(***************************************************************************)
EXTENDS Naturals

CONSTANTS
    Command,    \* commands that are run
    Work,       \* what a command may be: records of a kind, a tag, and force
    Tag,
    Base,       \* the tag of the base image that builds pull
    MaxDeaths   \* bound: times that the daemon dies

Kinds == {"build", "ls", "rm", "purge", "push"}

ASSUME CommandsAssumption ==
    /\ Work \subseteq [kind : Kinds, tag : Tag, force : BOOLEAN]
    /\ Base \in Tag /\ MaxDeaths \in Nat

VARIABLES
    up,        \* the daemon listens
    images,    \* images.daemon, images.user: the tags that the two repositories list
    listing,   \* listing[c]: what c, that works on the user's repository, is going to write there
    cache,     \* the user's cache of base images has something in it
    job,       \* job[c]: what command c is
    pc,        \* pc[c]: its next step
    request,   \* request[c]: its request: none, sent, done (but not answered), answered, lost
    success,   \* success[c]: what the answer says
    shown,     \* shown[c]: the tags that ls has shown
    exit,      \* exit[c]: its exit status, 2 while it runs
    effects,   \* (history) effects[c]: how often what it asked for has been done
    confirmed, \* (history) confirmed[c]: the user has forced or confirmed it
    excuse,    \* (history) excuse[c]: it has lost the daemon, or a repository failed midway
    clash,     \* (history) clash[c]: another was between reading and writing while c was
    kept,      \* (history) the user's images that were stored and not asked to be removed; none
               \* of those before a write that failed or one that clashed
    deaths

client == <<job, pc, shown, exit, confirmed>>
daemon == <<request, success>>
own == <<listing, clash, kept>>
vars == <<up, images, cache, client, daemon, effects, excuse, own, deaths>>

Is(c, kind, step) == pc[c] = step /\ job[c].kind = kind
Goto(c, step) == pc' = [pc EXCEPT ![c] = step] /\ UNCHANGED <<job, shown, exit>>

\* ctx.exit, or the end of the command.  An exit status other than 0 is an exception that
\* `except Exception' around the command catches: it is always 1.
Exit(c, status) ==
    /\ pc' = [pc EXCEPT ![c] = "ended"]
    /\ exit' = [exit EXCEPT ![c] = status]
    /\ UNCHANGED <<job, shown, confirmed>>

-------------------------------------------------------------------------------
(* What is done in a repository, with the outcomes it has for its caller.  *)

\* What c asks for is done once more.
Done(c) == effects' = [effects EXCEPT ![c] = @ + 1]
Repository(r, tags) == images' = [images EXCEPT ![r] = tags]
Untouched == UNCHANGED <<images, effects, excuse>>

-------------------------------------------------------------------------------
(* Routing, and the request.                                               *)

\* build: the paths are resolved; without a Dockerfile there is no build.
StartBuild(c) ==
    /\ Is(c, "build", "start")
    /\ \/ Goto(c, "probe") /\ UNCHANGED confirmed
       \/ Exit(c, 1)
    /\ UNCHANGED <<up, images, cache, daemon, effects, excuse, own, deaths>>

\* is_available: a connection that is closed at once.  It fails, too, if it is refused to
\* the user or takes more than a second.
IsAvailable(c) ==
    /\ pc[c] = "probe" \/ (pc[c] = "start" /\ job[c].kind \in {"ls", "rm", "purge"})
    /\ \/ up /\ Goto(c, "connect")
       \/ Goto(c, "direct")
    /\ UNCHANGED <<confirmed, up, images, cache, daemon, effects, excuse, own, deaths>>

\* _connect, and the request is sent; or a DaemonConnectionError, DaemonTimeoutError or
\* DaemonProtocolError.
Connect(c) ==
    /\ pc[c] = "connect"
    /\ \/ /\ up
          /\ request' = [request EXCEPT ![c] = "sent"]
          /\ Goto(c, "wait") /\ UNCHANGED confirmed
       \/ Exit(c, 1) /\ UNCHANGED request
    /\ UNCHANGED <<up, images, cache, success, effects, excuse, own, deaths>>

\* The client waits no longer: a timeout of 600 s, a message that it refuses
\* (DaemonProtocolError), or the user has interrupted it.
Leave(c) ==
    /\ pc[c] = "wait"
    /\ excuse' = [excuse EXCEPT ![c] = TRUE]
    /\ Exit(c, 1)
    /\ UNCHANGED <<up, images, cache, daemon, effects, own, deaths>>

\* (mutant) the command does what the daemon has failed to answer itself.
ConnectionLostElseDirect(c) ==
    /\ pc[c] = "wait" /\ request[c] = "lost"
    /\ excuse' = [excuse EXCEPT ![c] = TRUE]
    /\ Goto(c, "direct") /\ UNCHANGED confirmed
    /\ UNCHANGED <<up, images, cache, daemon, effects, own, deaths>>

\* The connection ends before there is an answer.
ConnectionLost(c) ==
    /\ pc[c] = "wait" /\ request[c] = "lost"
    /\ excuse' = [excuse EXCEPT ![c] = TRUE]
    /\ Exit(c, 1)
    /\ UNCHANGED <<up, images, cache, daemon, effects, own, deaths>>

\* (mutant) the exit status of a build that the daemon has refused or failed is lost.
BuildAnsweredAlways(c) ==
    /\ Is(c, "build", "wait") /\ request[c] = "answered"
    /\ Exit(c, 0)
    /\ UNCHANGED <<up, images, cache, daemon, effects, excuse, own, deaths>>

\* send_build_request returns the response; so do those of rm and purge.
BuildAnswered(c) ==
    /\ Is(c, "build", "wait") /\ request[c] = "answered"
    /\ Exit(c, IF success[c] THEN 0 ELSE 1)
    /\ UNCHANGED <<up, images, cache, daemon, effects, excuse, own, deaths>>

RemoveAnswered(c) ==
    /\ Is(c, "rm", "wait") /\ request[c] = "answered"
    /\ Exit(c, IF success[c] THEN 0 ELSE 1)
    /\ UNCHANGED <<up, images, cache, daemon, effects, excuse, own, deaths>>

PurgeAnswered(c) ==
    /\ Is(c, "purge", "wait") /\ request[c] = "answered"
    /\ Exit(c, IF success[c] THEN 0 ELSE 1)
    /\ UNCHANGED <<up, images, cache, daemon, effects, excuse, own, deaths>>

\* send_list_request returns what the daemon has listed: shown[c] since HandleList.
ListAnswered(c) ==
    /\ Is(c, "ls", "wait") /\ request[c] = "answered"
    /\ Exit(c, 0)
    /\ UNCHANGED <<up, images, cache, daemon, effects, excuse, own, deaths>>

-------------------------------------------------------------------------------
(* The daemon, which goes on whether or not the client waits.              *)

Handling(c, kind) == up /\ request[c] = "sent" /\ job[c].kind = kind
Handled(c, ok) ==
    /\ request' = [request EXCEPT ![c] = "done"]
    /\ success' = [success EXCEPT ![c] = ok]
    /\ UNCHANGED <<up, cache, job, pc, exit, confirmed, deaths>>

\* The connection is closed without an answer: not allowed, not a request
\* (deserialize_message), or no permit for a build in time.
Dismiss(c) ==
    /\ up /\ request[c] = "sent"
    /\ request' = [request EXCEPT ![c] = "lost"]
    /\ UNCHANGED <<up, images, cache, client, success, effects, excuse, own, deaths>>

\* A fault in the middle (StorageError), after which what was asked for may be done or not;
\* a write that fails has emptied metadata.json before.
Fault(c, tags) ==
    /\ \/ Repository("daemon", tags) /\ Done(c)
       \/ (Repository("daemon", {}) \/ UNCHANGED images) /\ UNCHANGED effects
    /\ excuse' = [excuse EXCEPT ![c] = TRUE]

\* The build caches its base image, or fails to and goes on; and stores its own, or fails
\* before that, or in it.
HandleBuild(c) ==
    /\ Handling(c, "build")
    /\ \E tags \in {images.daemon, images.daemon \cup {Base}, {}} :
          \/ /\ Repository("daemon", tags \cup {job[c].tag}) /\ Done(c) /\ UNCHANGED excuse
             /\ Handled(c, TRUE)
          \/ /\ Repository("daemon", tags) /\ UNCHANGED <<effects, excuse>>
             /\ Handled(c, FALSE)
    /\ UNCHANGED <<shown, own>>

\* A listing that fails is an empty one.
HandleList(c) ==
    /\ Handling(c, "ls")
    /\ \E tags \in {images.daemon, {}} : shown' = [shown EXCEPT ![c] = tags]
    /\ Untouched /\ Handled(c, TRUE) /\ UNCHANGED own

HandleRemove(c) ==
    /\ Handling(c, "rm")
    /\ LET rest == images.daemon \ {job[c].tag} IN
       \/ /\ job[c].tag \in images.daemon
          /\ Repository("daemon", rest) /\ Done(c) /\ UNCHANGED excuse /\ Handled(c, TRUE)
       \/ job[c].tag \notin images.daemon /\ Untouched /\ Handled(c, FALSE)
       \/ job[c].tag \in images.daemon /\ Fault(c, rest) /\ Handled(c, FALSE)
    /\ UNCHANGED <<shown, own>>

\* The force of the request is not looked at.
HandlePurge(c) ==
    /\ Handling(c, "purge")
    /\ \/ Repository("daemon", {}) /\ Done(c) /\ UNCHANGED excuse /\ Handled(c, TRUE)
       \/ Fault(c, {}) /\ Handled(c, FALSE)
    /\ UNCHANGED <<shown, own>>

Answer(c) ==
    /\ up /\ request[c] = "done"
    /\ request' = [request EXCEPT ![c] = "answered"]
    /\ UNCHANGED <<up, images, cache, client, success, effects, excuse, own, deaths>>

\* The daemon dies, in the middle of everything that it has not answered, writes of
\* metadata.json included; and starts.
Die ==
    /\ up /\ deaths < MaxDeaths
    /\ up' = FALSE /\ deaths' = deaths + 1
    /\ request' = [c \in Command |-> IF request[c] \in {"sent", "done"} THEN "lost" ELSE request[c]]
    /\ \/ UNCHANGED images
       \/ /\ \E c \in Command : request[c] = "sent" /\ job[c].kind \in {"build", "rm", "purge"}
          /\ Repository("daemon", {})
    /\ UNCHANGED <<cache, client, success, effects, excuse, own>>

StartDaemon ==
    /\ ~up /\ up' = TRUE
    /\ UNCHANGED <<images, cache, client, daemon, effects, excuse, own, deaths>>

-------------------------------------------------------------------------------
(* Direct execution, in the user's repository, without a lock: metadata.json*)
(* is read, emptied when it is opened to be written, and written.          *)

\* c is between its reading of metadata.json and the end of its writing.
Rewriting(c) == pc[c] \in {"cache", "caching", "save", "saving"}

\* _load_metadata: c is going to write the tags `next' of what it has read.
Load(c, next, step) ==
    LET others == {o \in Command \ {c} : Rewriting(o)} IN
    /\ listing' = [listing EXCEPT ![c] = next]
    /\ clash' = [o \in Command |->
                    IF o = c THEN others # {} ELSE clash[o] \/ o \in others]
    /\ kept' = IF others = {} THEN kept ELSE {}
    /\ Goto(c, step) /\ UNCHANGED <<confirmed, up, images, daemon, effects, excuse, deaths>>

\* A failure before anything is written, or the user interrupts it.
DirectFails(c) ==
    /\ pc[c] \in {"direct", "cached", "cache", "save"}
    /\ Exit(c, 1)
    /\ Untouched /\ UNCHANGED <<up, cache, daemon, own, deaths>>

\* open(metadata_path, 'w').
Empty(c) ==
    /\ \/ pc[c] = "cache" /\ Goto(c, "caching")
       \/ pc[c] = "save" /\ Goto(c, "saving")
    /\ Repository("user", {})
    /\ UNCHANGED <<confirmed, up, cache, daemon, effects, excuse, own, deaths>>

\* The listing is written over what there is; if that is not empty, by another, the file may
\* be a mixture of the two.
Write(c) ==
    \/ Repository("user", listing[c])
    \/ images.user # {} /\ Repository("user", {})

\* The build engine caches the base image that it has pulled: stores it like any other.
CacheBase(c) ==
    /\ Is(c, "build", "direct")
    /\ Load(c, images.user \cup {Base}, "cache")
    /\ cache' = TRUE

\* A failure to is passed over with a warning.
BaseCached(c) ==
    /\ pc[c] = "caching"
    /\ \/ Write(c) /\ UNCHANGED kept
       \/ UNCHANGED images /\ kept' = {}
    /\ Goto(c, "cached")
    /\ UNCHANGED <<confirmed, up, cache, daemon, effects, excuse, listing, clash, deaths>>

\* build_image, with or without a base image to cache, and store_image.
DirectBuild(c) ==
    /\ Is(c, "build", "direct") \/ Is(c, "build", "cached")
    /\ Load(c, images.user \cup {job[c].tag}, "save")
    /\ UNCHANGED cache

DirectRemove(c) ==
    /\ Is(c, "rm", "direct")
    /\ \/ job[c].tag \in images.user /\ Load(c, images.user \ {job[c].tag}, "save")
       \/ /\ job[c].tag \notin images.user /\ Exit(c, 1)
          /\ Untouched /\ UNCHANGED <<up, daemon, own, deaths>>
    /\ UNCHANGED cache

\* What the user may count on after c has written its listing.
KeptAfter(c) ==
    CASE job[c].kind = "build" -> kept \cup {job[c].tag}
      [] job[c].kind = "rm" -> kept \ {job[c].tag}
      [] OTHER -> IF confirmed[c] THEN {} ELSE kept

\* The end of _save_metadata.  What follows may still fail: a removal has the index to
\* change, and a purge the blobs and the cache to remove.
Save(c) ==
    /\ pc[c] = "saving"
    /\ Write(c) /\ Done(c)
    /\ kept' = IF clash[c] THEN kept ELSE KeptAfter(c)
    /\ \/ /\ Exit(c, 0) /\ UNCHANGED excuse
          /\ cache' = (cache /\ job[c].kind # "purge")
       \/ /\ Exit(c, 1) /\ excuse' = [excuse EXCEPT ![c] = TRUE]
          /\ cache' \in {cache, cache /\ job[c].kind # "purge"}
    /\ UNCHANGED <<up, daemon, listing, clash, deaths>>

\* The disk is full, or the process is killed: metadata.json stays as it is, emptied.
SaveFails(c) ==
    /\ pc[c] \in {"caching", "saving"}
    /\ kept' = {}
    /\ excuse' = [excuse EXCEPT ![c] = TRUE]
    /\ Exit(c, 1)
    /\ UNCHANGED <<up, images, cache, daemon, effects, listing, clash, deaths>>

DirectList(c) ==
    /\ Is(c, "ls", "direct")
    /\ shown' = [shown EXCEPT ![c] = images.user]
    /\ pc' = [pc EXCEPT ![c] = "ended"] /\ exit' = [exit EXCEPT ![c] = 0]
    /\ Untouched /\ UNCHANGED <<job, confirmed, up, cache, daemon, own, deaths>>

\* What there is is counted.  Without anything the command is done; with --force it goes
\* on; else the user is asked.
CountBeforePurge(c) ==
    /\ Is(c, "purge", "direct")
    /\ \/ images.user = {} /\ ~cache /\ Exit(c, 0)
       \/ /\ images.user # {} \/ cache
          /\ Goto(c, IF job[c].force THEN "purge" ELSE "ask")
          /\ confirmed' = [confirmed EXCEPT ![c] = job[c].force]
    /\ UNCHANGED <<up, images, cache, daemon, effects, excuse, own, deaths>>

\* (mutant) whatever is answered but `n' is a yes.
ConfirmAll(c) ==
    /\ Is(c, "purge", "ask")
    /\ \/ Goto(c, "purge") /\ confirmed' = [confirmed EXCEPT ![c] = TRUE]
       \/ Goto(c, "purge") /\ UNCHANGED confirmed
       \/ Exit(c, 0)
    /\ UNCHANGED <<up, images, cache, daemon, effects, excuse, own, deaths>>

\* The user's answer; without a yes the command is done.
Confirm(c) ==
    /\ Is(c, "purge", "ask")
    /\ \/ Goto(c, "purge") /\ confirmed' = [confirmed EXCEPT ![c] = TRUE]
       \/ Exit(c, 0)
    /\ UNCHANGED <<up, images, cache, daemon, effects, excuse, own, deaths>>

\* remove_all_images: what it reads is only counted, and the cache is cleared after it.
DirectPurge(c) ==
    /\ Is(c, "purge", "purge")
    /\ \/ Load(c, {}, "save")
       \/ Exit(c, 1) /\ Untouched /\ UNCHANGED <<up, daemon, own, deaths>>
    /\ UNCHANGED cache

-------------------------------------------------------------------------------
(* push, from the user's repository whether or not the daemon is up.       *)

\* The credentials of the registry, and whether there is such an image.
StartPush(c) ==
    /\ Is(c, "push", "start")
    /\ \/ job[c].tag \in images.user /\ Goto(c, "registry") /\ UNCHANGED confirmed
       \/ Exit(c, 1)
    /\ UNCHANGED <<up, images, cache, daemon, effects, excuse, own, deaths>>

\* check_connectivity and verify_authentication.
AskRegistry(c) ==
    /\ Is(c, "push", "registry")
    /\ \/ Goto(c, "prepare") /\ UNCHANGED confirmed
       \/ Exit(c, 1)
    /\ UNCHANGED <<up, images, cache, daemon, effects, excuse, own, deaths>>

\* prepare_image_for_push reads the whole image, if it is still there.
PrepareImageForPush(c) ==
    /\ Is(c, "push", "prepare")
    /\ \/ job[c].tag \in images.user /\ Goto(c, "upload") /\ UNCHANGED confirmed
       \/ Exit(c, 1)
    /\ UNCHANGED <<up, images, cache, daemon, effects, excuse, own, deaths>>

\* push_image.  When it fails, the registry may have taken the image all the same.
PushImage(c) ==
    /\ Is(c, "push", "upload")
    /\ \/ Done(c) /\ Exit(c, 0) /\ UNCHANGED excuse
       \/ /\ Done(c) \/ UNCHANGED effects
          /\ excuse' = [excuse EXCEPT ![c] = TRUE] /\ Exit(c, 1)
    /\ UNCHANGED <<up, images, cache, daemon, own, deaths>>

-------------------------------------------------------------------------------
Init ==
    /\ up \in BOOLEAN
    /\ images \in [{"daemon", "user"} -> SUBSET Tag]
    /\ cache \in BOOLEAN
    /\ job \in [Command -> Work]
    /\ pc = [c \in Command |-> "start"]
    /\ request = [c \in Command |-> "none"]
    /\ success = [c \in Command |-> FALSE]
    /\ shown = [c \in Command |-> {}]
    /\ exit = [c \in Command |-> 2]
    /\ effects = [c \in Command |-> 0]
    /\ confirmed = [c \in Command |-> FALSE]
    /\ excuse = [c \in Command |-> FALSE]
    /\ listing = [c \in Command |-> {}]
    /\ clash = [c \in Command |-> FALSE]
    /\ kept = images.user
    /\ deaths = 0

ClientStep(c) ==
    \/ StartBuild(c) \/ IsAvailable(c) \/ Connect(c) \/ Leave(c) \/ ConnectionLost(c)
    \/ BuildAnswered(c) \/ RemoveAnswered(c) \/ PurgeAnswered(c) \/ ListAnswered(c)
    \/ CacheBase(c) \/ BaseCached(c) \/ DirectBuild(c) \/ DirectList(c) \/ DirectRemove(c)
    \/ CountBeforePurge(c) \/ Confirm(c) \/ DirectPurge(c)
    \/ DirectFails(c) \/ Empty(c) \/ Save(c) \/ SaveFails(c)
    \/ StartPush(c) \/ AskRegistry(c) \/ PrepareImageForPush(c) \/ PushImage(c)

DaemonStep(c) ==
    Dismiss(c) \/ HandleBuild(c) \/ HandleList(c) \/ HandleRemove(c) \/ HandlePurge(c) \/ Answer(c)

Next == (\E c \in Command : ClientStep(c) \/ DaemonStep(c)) \/ Die \/ StartDaemon

Spec == Init /\ [][Next]_vars

-------------------------------------------------------------------------------
(* Properties.                                                             *)

\* The types; a command has an exit status when it has ended.
TypeOK ==
    /\ up \in BOOLEAN /\ cache \in BOOLEAN
    /\ images \in [{"daemon", "user"} -> SUBSET Tag]
    /\ listing \in [Command -> SUBSET Tag] /\ kept \in SUBSET Tag
    /\ job \in [Command -> Work]
    /\ request \in [Command -> {"none", "sent", "done", "answered", "lost"}]
    /\ shown \in [Command -> SUBSET Tag]
    /\ effects \in [Command -> Nat]
    /\ \A c \in Command : pc[c] = "ended" <=> exit[c] \in {0, 1}

\* A purge may have nothing to do, or the user may not confirm it.
NothingAsked(c) == job[c].kind = "ls" \/ (job[c].kind = "purge" /\ request[c] = "none" /\ ~confirmed[c])

\* The exit status says what has happened, on both ways: 0 only if it is done; 1 only if it
\* is not and never will be, unless the command has lost the daemon or its repository has
\* failed midway (`derpy build && derpy push' and cron jobs go by it).
ExitTellsTruth ==
    \A c \in Command :
        /\ exit[c] = 0 /\ ~NothingAsked(c) => effects[c] = 1
        /\ exit[c] = 1 /\ effects[c] > 0 => excuse[c]

\* What one command asks for is done at most once, and in one place: once the daemon may
\* have the request, the command does not execute it itself.
AtMostOnce == \A c \in Command : effects[c] <= 1

\* An image stays in the user's own repository until a removal of its tag, or a purge that was
\* forced or confirmed, takes it; but for a write of metadata.json that fails or is
\* interrupted, and for commands that read and write it at the same time.
OwnImagesKept ==
    (\A c \in Command : pc[c] \notin {"caching", "saving"}) => kept \subseteq images.user

\* "Ensure atomic metadata updates (write to temp file, then rename)"
\* (.kiro/specs/image-removal-commands/design.md): when all commands have succeeded, what was
\* built here and not asked to be removed is listed.
UpdatesAreAtomic ==
    (\A c \in Command : exit[c] = 0) =>
        \A c \in Command : job[c].kind = "build" /\ request[c] = "none" =>
            \/ job[c].tag \in images.user
            \/ \E d \in Command :
                  job[d].kind = "purge" \/ (job[d].kind = "rm" /\ job[d].tag = job[c].tag)

\* "THE CLI SHALL prompt the user for confirmation before proceeding with removal"
\* (.kiro/specs/image-removal-commands/requirements.md): of the daemon's images, too.
PurgesAreConfirmed ==
    \A c \in Command :
        job[c].kind = "purge" /\ ~job[c].force /\ effects[c] > 0 => confirmed[c]
===============================================================================
