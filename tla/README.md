# derpy in TLA+

derpy is a container build tool written in Python: it parses a Dockerfile,
builds an image in a chroot, and keeps images in a local OCI repository. It runs
either directly (one process per command) or as `derpyd`, a privileged daemon
that serves clients over a Unix socket with a pool of threads. These modules
model the parts of it in which the order of events matters. TLC checks them on
small instances, and the TLA+ proof system proves the central invariants for
any number of threads, tags, images, clients, signals, paths, RUNs, messages,
processes and commands.

| File | What it is |
|---|---|
| `TagStore.tla` | what the image repository promises: a map from tags to images |
| `ImageStore.tla`, `MCImageStore.tla`, `store_*.cfg` | the repository's files under the daemon's worker threads |
| `ImageStore_proofs.tla` | its types, its refinement of `TagStore`, no circle of waiting threads, "what is listed is stored", index and listing agree, images stay complete |
| `DaemonServer.tla`, `MCDaemonServer.tla`, `server_*.cfg` | start, stop, signals, accept thread, thread pool, permits |
| `DaemonServer_proofs.tla` | its types, the accounting of permits, the draining of the pool, sole holders of connections |
| `BuildOutput.tla`, `MCBuildOutput.tla`, `output_*.cfg` | the redirection of stdout and stderr to clients, and the answers |
| `BuildRootfs.tla`, `MCBuildRootfs.tla`, `rootfs_*.cfg` | one isolated build: RUNs in a chroot, snapshots, layers, extraction, clean-up |
| `BuildRootfs_proofs.tla` | its types, the round trip of plain changes, deleted files, the clean-up |
| `MessageChannel.tla` | what one direction of a daemon connection promises: a queue of messages |
| `MessageFraming.tla`, `MCMessageFraming.tla`, `framing*.cfg` | messages over a byte stream: chunks, the buffer, the size limit, the end |
| `Connection_proofs.tla` | the refinement of `MessageChannel`, whole messages, the limit, the end; and, of `BuildOutput`, true answers, whole output, the streams put back |
| `RegistryClient.tla`, `MCRegistryClient.tla`, `registry*.cfg` | pushes, pulls and logins at a registry, with tokens, repeated and failing requests |
| `RegistryClient_proofs.tla` | manifests after their blobs, pulls of one image, failures that have a reason |
| `AuthStore.tla`, `MCAuthStore.tla`, `auth.cfg` | the credentials file under processes without a lock |
| `AuthStore_proofs.tla` | what was reported is kept, lookups answer truly, when the file is broken |
| `LayerExtraction.tla`, `MCLayerExtraction.tla`, `extraction*.cfg` | builds that extract layers at once, through directories they share |
| `LayerExtraction_proofs.tla` | a build alone in its directories gets the image, up to errors passed over; nothing is left over |
| `Commands.tla`, `MCCommands.tla`, `commands*.cfg` | the command line: daemon or direct, its two repositories, the exit status |
| `Commands_proofs.tla` | exit statuses tell the truth, nothing is done twice, the user's images stay |
| `PROJECT.json` | components, runs, source map, findings, hazards, theorems |

To check: `tlc -config store_daemon.cfg MCImageStore`, and so on for the other
configurations; `tlapm ImageStore_proofs.tla`, and so on for the other seven `_proofs` modules.

## 1. Inventory

Paths are relative to `src/derpy/`.

**Image repository** (`storage/manager.py`, `oci/layout.py`). State: the blob
files `blobs/sha256/*`, `index.json` (an ordered list of entries, one per
manifest digest, each with a tag), `metadata.json` (tag to image summary).
Operations: store, get, list, remove, remove all, delete, clean up orphaned
blobs, and an initialisation in the constructor. Every file is overwritten in
place, in two steps (`open(.., 'w')` truncates, the content follows). It is
correct when concurrent callers do not lose one another's updates, what is
listed can be loaded, the two indexes agree, and no blob in use is deleted.
Hard: read-modify-write of whole files, three files updated one after the other,
failures and crashes in between, blobs shared by images.

**Daemon request handlers** (`daemon/handlers.py`). State: two module-level
locks, `storage_lock` and `base_image_cache_lock`, and the process's `sys.stdout`
and `sys.stderr`. Operations: build, list, remove, purge. They construct an
`ImageManager` per request *outside* the locks, pull the base image under the
cache lock (which calls the repository, under the other lock), extract and build
under no lock, and store under `storage_lock`. Correct when locks are always
taken in that order, each client sees its own output, and every request is
answered truthfully.

**Daemon server** (`daemon/server.py`, `daemon/__main__.py`). State: `_running`,
`_shutdown_requested`, the listening socket and its file, the executor's queue,
a semaphore of `max_workers` permits, the counter of active builds. The main
thread starts and stops, signal handlers run in it between any two of its
steps, the accept thread hands connections to the pool, and pool threads serve
them. Correct when permits and counter are exact on all paths, no accepted
connection is lost or handled twice, stopping drains the pool and ends, and
signals are heeded.

**Daemon client** (`daemon/client.py`): tests whether a daemon answers, connects, sends one
request, reads output lines until the response, leaves on a timeout. Correct when it shows
everything and returns the status of its own request.

**Framing and protocol** (`daemon/framing.py`, `daemon/protocol.py`):
newline-delimited JSON over a stream; state is the receive buffer. Correct when
messages are the ones sent, whatever the chunks, a size limit refuses only what is large,
and the end of the stream is told from a break in the middle of a message.

**Base images** (`build/base_image.py`): cache lookup, pull, extraction through a
temporary directory per layer digest, whiteouts, merging into a rootfs. State, beside the
repository: the directories `extract_<digest>`, one per layer and not per build. Correct when
a build gets the image whole and nothing is left in the cache. Hard: those directories are
shared by builds that run at the same time, filled, walked and removed under no lock.

**Build engine** (`build/engine.py`, `pipeline.py`): runs the instructions, takes
a snapshot before and after each RUN, makes layers. Hard: clean-up after a
failure, with mounts in place.

**Isolation** (`build/isolation.py`): chroot, bind mounts, `resolv.conf` of the
host copied into the rootfs and restored afterwards, streaming of a command's
output. Hard: the order of set-up and clean-up when steps fail, several RUNs.

**Layers** (`build/diff.py`, `build/layers.py`): file-tree differences with
whiteouts. Correct when applying the layer to the old tree gives the new one.

**Registry client** (`registry/client.py`): push and pull, token authentication
with one repetition of a request. State: the cached token of a client; at the registry, blobs
and what a tag names. Correct when a tag never names an image that lacks a blob, a pull
returns one image, and a job fails only when it must. Hard: requests that fail after they
have taken effect, tokens that expire, tags that move.

**Credential store** (`core/auth.py`): one JSON file, loaded, changed and rewritten in place by
every login and logout, each a process. Correct when what was reported stays and
lookups do not take a file in the making for an empty one. Hard: no lock, and ends in between.

**Command line** (`cli/main.py`): `build`, `ls`, `rm` and `purge` go to the daemon if
one answers and are executed in the process itself, on the user's own repository, if not;
`push` always is. Correct when the exit status says what has happened and a command is
executed once, in one place. Hard: a daemon that dies, dismisses, or answers too late; direct
commands that rewrite one `metadata.json` at the same time.

**Dockerfile parser**, **OCI data classes**, **sanitising**,
**platform helpers, logging, exceptions**: see `PROJECT.json`; pure functions,
records with (de)serialisation, wording and I/O.

How they interact: `cli` calls the client if a daemon answers, otherwise the
same building blocks as the handlers directly; login, push and pull look into the credential
store; client and server exchange messages over a
socket; server threads call the handlers; handlers share the repository, the
locks and the process's streams; a build calls base images, engine, isolation
and layers, and the repository at both ends.

`PROJECT.json` lists the hazards of each part at their lines, with the
properties that cover them or, where there is none yet, why.

## 2. What is modelled

### 2.1 `ImageStore`: repository files under the daemon's locks

An image is the digest of its manifest: an element of `Image`. It has three
blobs of its own (layer, config, manifest) and inherits its base's layers. `Serves[t]` are the
images that the registry may serve under tag `t`: one image may have two tags (`Shared`), and a
tag may name another image the next time it is asked for.
`blobs`, `index` and `meta` are the files, each missing, torn or whole; a torn
file keeps what it held before, which is *not* visible through `LoadIndex` and
`LoadMeta` (an unparseable file reads as empty, `layout.py` 245-264 and
`manager.py` 288-309) but is what the refinement compares with. An index entry
records the images ahead of it, which is the list's order, because
`get_manifest_by_tag` takes the first entry of a tag.

Each worker thread has a program counter, the request, and the objects it holds
between reading a file and writing it (`entries`, `tags`, `todo`): a stale copy
would be written back as it is in the code. The steps are the code's reads and
writes of files and its acquisitions of locks:

- `Begin`, `EnsureLayout`: the handler and the constructor, outside every lock;
- `LockCache` to `Pull`: `pull_base_image` under `base_image_cache_lock`, with a
  `get_image` that reads without `storage_lock`;
- `ExtractFails`, `Execute`: extraction and instructions, which read the blobs of
  the inherited layers under no lock at all, and may fail;
- `LockStorage` to `ReadMeta`: `store_image` - layers, config, manifest, index,
  metadata - for the pulled base image or for the result;
- `Drop`, `DropEntry`, `Clear`, `Rmtree`, `Relayout`, `List`, `Scan`, `Unlink`: the
  other operations;
- `OpenIndex`/`CloseIndex`, `OpenMeta`/`CloseMeta`, `OpenBlob`/`CloseBlob`: the two
  halves of a write;
- `IOFails` and `Crash`: a file operation raises, or the process dies and is
  started again on the same files.

`TagStore` is the abstract specification: `Put`, `Drop`, `Clear`, and a `Fault` that
keeps the map or loses all of it. `TagStoreSpec` states that `ImageStore` implements
it, with the map read off `metadata.json`.

Abstractions: digests do not collide, and every build that succeeds makes a new one (the
configuration of an image has the time of the build); JSON is read whole or not at all; the
order in which `rmtree` deletes files is arbitrary.

### 2.2 `DaemonServer`: life of the process, threads and permits

`main` is the main thread's program counter through `start()`, the wait in
`__main__.main`, and `stopping` its place in a `stop()` it is in. A signal handler is a step of the main thread that can come between any two of
its steps, with the handlers installed at that time (those of `start()`, then
those of `main()`), because CPython runs signal handlers in the main thread.
The accept thread polls with a timeout, accepts, checks credentials, submits to
the executor - which raises once the executor is shut down - and closes what it
could not hand over. Pool threads take from the queue, receive one request,
acquire a permit (or give up after 300 s), handle, release on every path, and
close. Clients connect, send or leave.

A connection the kernel had queued when the listening socket is closed is reset.
`MaxSignals` bounds the signals of a behaviour.

### 2.3 `BuildOutput`: shared streams, sockets, answers

`stdout` and `stderr` are the two process-wide names; each build saves what it
found there, points them at its own writer, writes lines through whatever the
names designate at that moment, restores what it saved and answers; a peer that is
not authorised is disconnected without a word (`TurnAway`). A socket
holds at most `MaxUnread` unread messages: `sendall` waits when it is full, without a timeout, and
fails when the client is gone. Clients read up to the response, stop reading, or leave. A writer sends
text to its client and drops what `text.strip()` leaves nothing of (`WriteLine`, `WriteBlank`). `MaxLines`
bounds the lines of a build, blank ones included, beside the error line of one that fails.

### 2.4 `BuildRootfs`: from snapshots to layers and back

One isolated build, from FROM to the removal of its rootfs. A *tree* maps each path
of a fixed set to a node: nothing, a directory, a file with data and a mode, a link
to a directory, a link to nothing. `Above[p]` is the set of directories over `p`. `rootfs` is
the directory the commands work in; `image` is the tree somebody gets who extracts the
layers made so far (`extract_base_image`), and `usable` says whether that is possible.

- Operators: `Snapshot` is `create_snapshot` with its omissions; `Modified`, `Added`, `Changed`
  and `Deleted` are the comparison; `Layer` is the archive with its whiteouts; `Untarred`,
  `Whiteout` and `Merge` are the three stages of extracting one layer, `Untars` and `Merges`
  when the first and the last do not raise.
- Actions: `From`; per RUN `BeginRun` (snapshot), `MountNext`, `CopyConf` (resolv.conf and its
  backup), `Edit` (any single change a command makes) any number of times, `CommandEnds`,
  `Capture`; then `Succeed`, or `Fail` at any step, `Unmount` and `Remove`; `Interrupt` is a
  KeyboardInterrupt, which no `except Exception` catches.
- The clean-up's own failures: `mounts[m]` counts how often `m` is mounted, for `_is_mounted` can
  overlook a mount and then there are two; each may stay when `Unmount` fails; `Remove` is an `rmtree`
  that may give up anywhere, at a mount point always, and has then logged that files may remain. `gone` and
  `warned` are its two ends, `spoilt` the mounts that it has removed something in, `trouble` records that a mount was
  overlooked or an unmount has failed.
- `plain` is a history variable: it stays true while every RUN has made changes of a kind that
  the design can express (`PlainChange`). What it excludes is what the code loses: links to
  directories, dead links, a change of mode alone, a node that changes kind, a directory
  removed with what was in it. The findings quote where the documents say otherwise.

Abstractions: the data of a file stands for its content with its size and time stamp, so
two files of equal size and time stamp are the same here; a link to a file is a file with data of
its own; `/proc`, `/sys` and `/dev` are in no tree, as snapshots and extraction leave them
out; base images have an `/etc` directory and no links; commands leave the two resolv.conf files
alone. A step fails as a whole: a setup that fails half-way in `CopyConf` leaves a rootfs that is
removed next.

### 2.5 `MessageFraming`: messages over bytes

A byte is its position in the stream, a message its number of bytes: what JSON says in them
is left out, what matters is where the newlines are (`ends`) and how far the stream has come -
`written` by the sender, `got` by `recv`, `taken` off the buffer. `SendMessage` and `Accept` are
`send_message` and the kernel's taking of a part of what `sendall` has left, `CloseSocket` an
end anywhere, in the middle of a message too. `TakeMessage`, `Receive`, `ReceiveEnd` and `ReceiveFails`
are the branches of `receive_message`'s loop: a newline in the buffer, another chunk and the check of the
whole buffer against the limit, nothing more to read, a timeout or an error.
`MessageChannel` is the abstract specification, and `ImplementsChannel` says that what a caller sees
is its queue: `sent` are the messages accepted to the last byte, `received` what was returned.

### 2.6 `RegistryClient`: jobs at a registry

A job is a push, a pull or a login with credentials and rights; `pc` is the request it makes
next. `Header` is what the `Authorization` header comes to (the session's password goes over a cached
token), `Challenge` and `ObtainToken` are `_handle_auth_challenge`, `Unauthorised` what is left of a 401 after
the one repetition. Each request of `push_image`, `pull_image` and `verify_authentication` is an action, with the
position among the image's blobs. `RequestFails` is everything else that can happen to a
request, also that it has taken effect although the client never learns so.
The registry is external, modelled by what the client takes it for: it keeps blobs, lets a tag name a manifest
without looking into it, and asks for no authentication, passwords or tokens. `Publish` is another
client of it, so that the tag moves during a pull (`MaxPublished`); `Expire` ends a token's life
at any step (`MaxExpired`). One tag is modelled, as a job has only one. `history`, `since` and
`blame` only record.

### 2.7 `AuthStore`: the credentials file

Each process runs commands one after the other: a login that asks the registry first, a logout,
a lookup. `LoadForLogin` and so on are `_load_auth_file` with the change in memory (`view`), `Open` and
`Write` the two halves of `_save_auth_file`; a write over another one that is longer leaves
garbage. `Normalize` keeps the order of the code's steps, for which reason `https://docker.io` has
a name of its own. `promise` records what commands have reported, and is `Unsure` for
registries of commands whose load and save overlap. `Kill` is an end anywhere, or a disk that is full.
`MaxCommands` and `MaxKills` bound a behaviour. A password is part of the account.

### 2.8 `LayerExtraction`: shared directories

`there` and `temp` are the directories `extract_<digest>` and their entries; a build goes through its layers:
`Mkdir`, `Untar` member by member, `ListWhiteouts` and `ProcessWhiteout`, `ListLayer` and `CopyFile`, then
`Unlink` and `Rmdir`, again if something goes wrong (`RmtreeAgain`). What it has listed it keeps in
`walk`, and finds it gone or not when it comes to it. A copy or a whiteout that fails with an `OSError`
is passed over, and leaves something `Unknown` in the rootfs until a later layer replaces it. An exception goes
to the same removal (`ExtractionFails`), a crash of the daemon to none. `shared` records whether somebody else was in
a directory at the same time. Abstractions: all entries lie in one directory, since what an extraction does to
trees is `BuildRootfs`'s subject; a file is known by its layer; untarring
one member and copying one file are single steps; a failing removal of the directory itself is
tried again (`RmtreeAgain`) and then works, although the code ignores a second failure.

### 2.9 `Commands`: the command line, the client and the daemon behind them

Commands run at the same time as processes; `images.daemon` and `images.user` are the
two repositories, each the set of tags that its `metadata.json` lists, and nothing while that is torn. The
daemon's is changed in single steps, as its locks make of them (`ImageStore`), faults excepted. For the user's
there is no lock: a direct command reads (`Load`), empties (`Empty`) and writes (`Save`, or `BaseCached` for the base
image of a build) in steps of its own, with `listing` what it is going to write, and any of them may fail.
`IsAvailable` decides where a command goes; `Connect`, the daemon's `Handle...`, `Answer`, `Dismiss` and the client's
`...Answered`, `ConnectionLost`, `Leave` are the request's way; `Direct...` the execution without a daemon;
`CountBeforePurge` and `Confirm` the dialogue of a purge; `StartPush` to `PushImage` a push.
A daemon may die and start between any two steps (`MaxDeaths`), and goes on with a request whose
client has left. `Fault` is a daemon's repository that fails midway, possibly with the listing torn;
a build that fails may have cached its base image, or torn the listing in trying. `effects` counts how often what a
command asks for was done, `excuse` records that it lost the daemon or met a fault, `clash` that another command was
between reading and writing the listing while it was, `kept` the images that the user may count on.

## 3. Runs

| Run | Question | Instance and why it is enough |
|---|---|---|
| `store_daemon` | do concurrent builds, removals, purges and listings behave as one map? | two threads contend for both locks and can meet in any two steps; two tags (the base's and the result's, and a rebuild of the base's tag); the base image and one built image share a layer; one fault at any step; every wait for a lock of every interleaving |
| `store_library` | does any operation sequence of one process lose blobs, half-remove, or let index and listing part? | one thread, a repository that does not exist yet, two built images, so that one can inherit from the other, every operation including blob clean-up; two base images, of which one has two tags and one of the tags moves to the other |
| `server_pool` | are permits, counter and connections accounted for at every moment? | three connections and two threads, so that one waits in the queue; up to two signals at any step (a second one arrives during `stop()`) |
| `server_stop` | is everybody served, does `stop()` return? | two connections, one thread, two signals; fairness of threads and clients |
| `output_shared` | what holds of output and answers, with the streams shared? | two builds, a line, with text or blank, and an error line each, a socket that is full after one message, clients that leave or do not read; fairness |
| `output_isolation` | is each client shown only its own output? | **Violated** as soon as two builds overlap |
| `rootfs_layers` | do the layers give back what the commands made, and is the rootfs always cleaned up? | a path three levels deep, so that directories are removed from the middle of it; `resolv.conf` and its backup; two contents, so that a file can change and change back over two RUNs; every node kind; failure and interruption at any step, overlooked mounts, failing unmounts and a failing `rmtree` |
| `framing` | are messages whole and in order, and is the end told truly? | a limit of 5, chunks of up to 3, a kernel buffer of 6; three messages of 1 to 6 bytes: several in one chunk, one over several chunks, at the limit, above it, with and without room for another chunk; an end at every byte; fairness |
| `registry` | is a tagged image complete, a pull one image, a failure justified? | two jobs at once out of seven (pushes of two images that share a layer, pulls, a login; with and without account, rights and tokens); a list with and one without the platform; one token that expires, one tag that moves; fairness |
| `auth` | does the file keep what was reported? | three processes, so that two can overlap while a third looks; four commands, two accounts, Docker Hub by two names and as a URL, another registry; one end at any step |
| `extraction` | does a build that is alone in its directories get the image, is nothing left? | two builds of two images of two and three layers with a common bottom: a whiteout, a replaced file and one that comes back; failures at any step, errors passed over at any file, one crash |
| `commands` | does the exit status say what has happened, is anything done twice? | any two of seven commands at once (two of them remove, one the base image that builds store) from any contents of both repositories, a daemon that is up or not, dies once, dismisses, or is given up on |

Counterexamples are kept beside the runs: each of these configurations checks one property that
TLC finds violated, and shows a finding.

| Configuration | Property | What it shows |
|---|---|---|
| `store_rebuild` | `GetAgreesWithList` | after a rebuild under one tag `get_image` finds the older image |
| `store_shared_layer` | `InheritedLayersReadable` | a build meets an inherited layer half written |
| `store_two_tags` | `NoListedImageLosesLayers` | of a base image under two tags only the first is indexed; removing that one and cleaning up deletes the blobs of an image still listed |
| `server_signal` | `SignalHeeded` | a SIGTERM is lost before `_running` is set, and before `main()` has its handlers |
| `server_idle` | `StopReturns` (of `SpecThreads`) | a client that says nothing keeps `stop()` from returning |
| `output_stalled` | `StalledClientsGivenUp` | a client that stays connected and does not read keeps its build, and one that overlaps it, for ever |
| `rootfs_removal` | `RemovedIsGone` | `rm -r` of nested directories leaves empty ones in the image |
| `framing_limit` | `OnlyLargeRefused` | a message within the limit is refused for what comes with it |
| `registry_credentials` | `ValidCredentialsDo` | with a password, the token never reaches a registry that wants one |
| `extraction_shared` | `ExtractedWhole` | a build ends well on half an image when another removes the directory |
| `extraction_errors` | `DoneIsWhole` | an extraction reports success although a file could not be copied |
| `commands_direct` | `UpdatesAreAtomic` | `derpy rm base` beside `derpy build -t app`, both successful, leaves the image just built unlisted |
| `commands_purge` | `PurgesAreConfirmed` | a purge through the daemon is not confirmed |

Run them as `tlc -config extraction_shared.cfg MCLayerExtraction`. Each quotes a comment or a document of the
repository; so do findings that need no run. `PROJECT.json`, `findings`, has the lines.

What the passing properties say:

- `TagStoreSpec`: no update of the map is lost or half done, whatever the
  interleaving; a fault costs either nothing or everything.
- `ListedIsStored`: config and manifest of a listed image are in the blob store,
  after any crash or failure; intact if there was none.
- `IndexCoversListed`: index and metadata agree when both are readable, even in the
  middle of a request. Excused is an image that the registry serves under two tags: the code indexes a digest
  once, so the second tag is listed and never indexed (`store_two_tags`).
- `ListingReadable`: the list handler never meets a half-written file.
- `IndexedImagesComplete`: blob clean-up and storing leave every indexed image complete down to
  inherited layers. `ListedImagesComplete`: a listed image has its layers, but for one with two tags of which
  the indexed one has been removed.
- `RemoveTakesBoth`: a removal that reports success is in both files. (One that fails after the first
  file leaves the tag in the index, and no later removal takes it out: `metadata.json` does not list it any more.)
- `WaitsEnd`: of two threads that contend for both locks, whoever waits waits for a thread in the middle of a
  request that can go on. No two wait for one another, none waits for itself, and no request, failed or crashed,
  leaves a lock behind. It says nothing of how long the holder takes: a pull holds the cache lock while it talks to the
  registry, and a thread that waits may be overtaken by others. That every request ends is therefore not claimed.
- `OneHolder`: an accepted connection is in exactly one place - the accept
  thread's hands, the queue or a pool thread.
- `SlotsAccounted`: free permits + held permits = `max_workers`, and the counter is the
  number of builds being handled.
- `NobodyTurnedAway`: the 300 s wait for a permit never ends in a refusal.
- `ExitedClean`: when `main()` returns after `stop()`, the socket file is gone and all
  accepted connections have been served.
- `EveryoneServed`, `StopReturns`: liveness, under the fairness below.
- `SoloOutput`, `SoloRestores`: as long as no two builds overlap, what a client has displayed and what is
  on its wire are exactly its build's lines with text (blank ones are not sent), in order, with the response last, and
  the streams are put back, also when a build fails.
- `AnsweredTruly`: a client is only ever told the exit status of its own build, and is
  left without one only if no handler ever had its request.
- `BuildsEnd`: every build ends, whatever overlaps it and whoever leaves, unless some client, its own or one
  that its lines have come to, stays connected for ever without reading. Such a client does keep the build, with its worker
  and its permit: `sendall` has no timeout (`output_stalled`), although `docs/api/daemon-protocol.md` promises one.
- `LayersReproduce`: with plain changes, base layers and new layers extract to exactly the
  rootfs the commands left, after each RUN.
- `DeletedFilesGone`: with any changes, a deleted file does not come back.
- `CleanedUp`: a build that succeeds or fails anywhere has removed its rootfs, or warned that it has not; and it
  leaves nothing mounted and `rmtree` never runs into the host's `/dev`, also if it fails itself, unless a mount was
  overlooked or an unmount has failed.

- `InOrderAndWhole`, `ImplementsChannel`: however bytes are cut into chunks, no message is lost, torn,
  joined or repeated; the connection is a queue of messages.
- `ShortMessagesPass`: as long as all messages sent leave room for another chunk below the limit, none is refused
  for its size, although the check is of the whole buffer.
- `EndIsTruthful`, `ReceiverToldOfEnd`: the receiver is told the end, and told it only after the last
  message; a break in a message is an error; it does not wait for a sender that is gone.
- `NamedIsComplete`: whatever fails between two requests, and whatever other pushes do, the
  tag never names an image of which the registry lacks a blob.
- `PulledIsOneImage`: a pull returns all blobs of one image that the tag named since its beginning.
- `FailsForAReason`: a job fails only when a request did, the account lacks the right, the image is not there, or
  a token ran out at once. Excused, too, is a client with credentials at a registry with
  tokens (`TokenCoveredUp`): that is the finding of `registry_credentials`. As a push always has credentials, it is
  jobs without an account, such as pulls of public images, for which the property covers tokens.
- `JobsEnd`: no challenge is answered for ever.
- `ReportedIsKept`: a login or logout that was reported stays in the file, unless a command overlaps
  it; killed commands lose nothing but the file as a whole.
- `BrokenForAReason`: the file is unreadable only while it is written, or after an end in the middle of that,
  or after two wrote at once.
- `LookupsAnswerTruly`: a lookup during a rewrite fails, and does not answer that there is no account.
- `ExtractedAlone`: a build whose directories no other was in gets every file of the image and none that it has
  whited out, also from directories that a crash has left half full, or half emptied; but for files at which an error
  was passed over and that no later layer has replaced. It does not follow that an extraction that reports success is
  whole: with a full disk it is not (`extraction_errors`).
- `NoLeftovers`: two builds that remove one directory at the same time get into each other's way, and
  still remove it, unless the daemon died.
- `ExitTellsTruth`: 0 only if it is done; 1 only if it is not, nor ever will be, unless the command
  lost the daemon or a repository failed midway.
- `AtMostOnce`: a command that the daemon may have is not executed directly as well.
- `OwnImagesKept`: the user's own images go only in a removal of their tag or a purge that was
  forced or confirmed; or in a write of `metadata.json` that fails or is interrupted, or that overlaps with another command's.
  Both of these do lose images that nobody asked to remove, the second when every command succeeds (`commands_direct`).

`TypeOK` of `BuildRootfs` also says that both trees are trees, which a file in the place of a
directory could break.

**Deadlock.** TLC's check that a step is always possible is on for `ImageStore`, where it says little, since an idle thread
can always begin: what two threads do to one another with the locks is `WaitsEnd`. `server_*` and `output_*` set `CHECK_DEADLOCK FALSE`: the daemon exits, and the
builds of a behaviour come to an end, as the one of `rootfs_*` does, and so do the messages, jobs,
commands and extractions of `framing*`, `registry*`, `auth`, `commands*` and `extraction*`.

**Fairness.** Weak fairness of each thread's own steps: the operating system
runs a thread that can run. No fairness is assumed of faults, of signals, of
requests or of connections. A build's instructions end because RUN has a timeout
(`isolation.py`). `FairSpec` of `DaemonServer` also assumes that a client which has
connected sends something or leaves. `FairOutputSpec` of `BuildOutput` assumes of a client only that it notices
the end of its connection, and not that it reads; `SpecThreads`, used by `server_idle`, drops the clients' part, which is
how it shows that the code depends on it. `FairFramingSpec` of `MessageFraming` is that of the threads in
`sendall` and `receive_message`, and does not assume that a sender closes or sends. That of `RegistryClient`
says that each request is answered or times out (`client.py` sets a timeout on
all of them) and that the client goes on. The other modules have no liveness property: their
commands and builds take finitely many steps, each of which may also fail.

## 4. Proofs

`ImageStore_proofs`, from the assumptions on the constants stated in `ImageStore`
(names are distinct, `MaxFaults` is a natural number) and no bound on any set:

- `TypeCorrect`: `Spec => []TypeOK`. Types alone are not inductive, since what a step
  puts into a file comes from the locals of the thread. The invariant adds
  `Control`: which locals and which locks belong to which program counter.
- `NobodyWaitsInACircle`: `Spec => []WaitsEnd`, from `Control`: the holder of `storage_lock` waits for nothing and that of
  `base_image_cache_lock` for `storage_lock` only, and both are in the middle of a request.
- `StoreImplementsMap`: `Spec => TagStoreSpec`, for an initialised repository
  (`Fresh = FALSE`). `MetaInv` strengthens it: only the thread between the two halves
  of the write of `metadata.json` holds a copy that differs from the file in the one
  entry it is to change, which it is because that thread holds `storage_lock`;
  from it every step is a `Put`, a `Drop`, a `Clear`, a `Fault` or a stutter.
- `ListedImagesAreStored`: `Spec => []ListedIsStored`, for instances without blob
  clean-up (no daemon request calls it). `StoreInv` says what has been written when
  a thread reaches each step of `store_image`, and that a purge has emptied the
  listing before it deletes a file.
- `IndexFollowsListing`, `ListingAlwaysReadable`, `RemovalIsComplete`: `Spec => []IndexCoversListed`
  and so on, for an initialised repository with any number of users, or a fresh one with one user
  (`Fresh = FALSE \/ Alone`). The invariant `FilesInv` has `MetaInv` for the first case and three
  more parts. `NameInv`: a digest is stored by one build and indexed under its tag only, or it is a base's and indexed
  under one of the tags that serve it; so only for a base of two tags is it wrong that `add_manifest_to_index`
  passes over a digest it finds. `CoverInv`: with
  nothing failed, a file is torn only under its writer's hands, and what a thread has read of one
  file and is to save covers the other. `RemovalInv`: what a removal has saved, or is to
  save, lacks the tag. `RemovalIsComplete` holds whatever has crashed.
- `IndexedStayComplete`, `ListedStayComplete`: `Spec => []IndexedImagesComplete` and
  `Spec => []ListedImagesComplete`, for one user (`Alone`), with the blob clean-up, the purges, and
  a repository that may be fresh. `PiecesInv` is the invariant: with nothing failed, what the
  thread has pulled (`InheritedOK`), is half through storing (`WritingOK`) or has stored
  already and not indexed yet (`ReliesOK`) has all the blobs that its step says, and what a clean-up
  still means to delete is not among the blobs of any image in the index (`PlansOK`).
- `ListedKeepLayers`, `IndexedKeepBlobs`: the same two properties for any number of users, of a
  repository that may be fresh, when nobody purges or cleans up (`NothingDeletes`, a
  condition on `Kinds`). `KeptInv` says that layers found in the repository, layers of the image
  being stored that are no longer to be written, and layers of what a thread is about to list are
  there, so that `store_image` passes over none (`NothingSkipped`). It needs no condition on
  faults or tags, and the first theorem states `NoListedImageLosesLayers` beside the property: without clean-ups, an image
  of two tags loses nothing either. `WholeInv`, for the second, is its
  counterpart for all blobs and the index, with nothing failed. With the two theorems before, this says
  which concurrency harms a stored image: only a purge or a clean-up beside another request.

The hypotheses are needed. With `Fresh = TRUE` and two threads the constructor of one, outside
the lock, overwrites what the other has stored. With two users a purge takes the blobs of the base
from under a build, which then skips the layers it does not find (see the hazards).

`DaemonServer_proofs`, for any finite pool and any set of clients:

- `SlotsCorrect`: `Spec => [](TypeOK /\ SlotsAccounted)`, with `PoolInv`, which counts
  permits by the set of threads that are between acquire and release.
- `PermitsSuffice`: `Spec => []NobodyTurnedAway`: `NoneTurnedAway` adds that each thread
  holds at most one permit, so one is free for a thread that asks.
- `StopDrains`: `Spec => []ExitedClean`: `PhaseInv` and `HeldInv` tie the main thread's
  progress through `stop()` to the flags, the queue and the threads' hands.
- `HoldersAreSole`: `Spec => []OneHolder`: `HeldInv` says that somebody holds every open
  connection, `SoleInv` that nobody else does (the backlog and the queue repeat no connection and no
  connection is in two places).

`BuildRootfs_proofs`, for any set of paths with `PathAssumption` (what is above a path is a
chain), any contents and any number of RUNs:

- `TypeCorrect`: `Spec => []TypeOK`. The lemmas `UntarredIsTree`, `WhiteoutIsTree` and `MergeIsTree`
  show it of the stages of an extraction, `EditIsTree` of a command's change.
- `PlainChangesReproduced`: `Spec => []LayersReproduce`. `PlainRoundTrip` is the core: for a plain
  change from `b` to `T` the layer of the difference extracts on top of `b`, and to `T`. The
  invariant `PlainInv` adds that the trees compared have no links.
- `DeletedFilesStayGone`: `Spec => []DeletedFilesGone`; `GoneInv` says the same of the snapshot
  taken before the RUN in progress.
- `BuildsCleanUp`: `Spec => []CleanedUp`. `CleanInv`: without trouble each mount is mounted once at most and none between
  unmounting and `rmtree`, and nothing is spoilt before that.

`Connection_proofs`, the first part, for any sizes of messages, chunks, limit and kernel buffer:

- `DeliveredInOrderAndWhole`, `ShortOnesPass`, `EndToldTruly`: `FramingSpec => []InOrderAndWhole` and so on.
  `FramingInv` adds `BufferAligned`: what was taken off the buffer ends where the last message
  delivered ends, so the first newline in the buffer is that of the next one.
- `FramingImplementsChannel`: `FramingSpec => ImplementsChannel`. `Accept` is a `Put` when it takes a message's
  last byte, `TakeMessage` a `Get` or a `Fail`; every other step is an `End`, a `Fail` or a stutter.

The second part is about `BuildOutput`, for any builds, pool, number of lines and size of a socket's
buffer that `OutputAssumption` allows (the module extends both, for which reason their specifications
are called `FramingSpec` and `OutputSpec`):

- `OutputTypes`, `AnswersAreTrue`: `OutputSpec => []OutputTypeOK` and `OutputSpec => []AnsweredTruly`,
  however many builds overlap. `AnswerInv`: a response on a connection is that of the connection's build,
  which has an exit status and is at its end, and it stays there until the client has read it or left.
- `StreamsRestored`: `OutputSpec => []SoloRestores`. `StreamsInv` says, as long as no two builds have
  overlapped, where each of the two streams leads at each step of the one build that holds them, and that
  what it has saved is the console, which the types alone do not tell.
- `SoloOutputHolds`: `OutputSpec => []SoloOutput`. `FlowInv`: what a client has displayed and
  what is on its wire, put together, are the lines with text its build has written, and its response
  after them if the build is over. A line or the response that is sent comes last in that sequence, and
  one that is read stays where it is; for the response this needs that it is the last one on the wire
  (`ResponseComesLast`). `StreamsInv` gives that a line goes to the build's own client.

`RegistryClient_proofs`, for any jobs, images that share blobs, lists and schemes:

- `NamedImagesComplete`: `Spec => []NamedIsComplete`. `PushInv`: the blobs before the
  position are uploaded, all of them when the manifest is next; blobs are never removed.
- `PullsAreOneImage`: `Spec => []PulledIsOneImage`, with what has been downloaded so far and
  where in the tag's history the manifest comes from.
- `FailuresHaveReasons`: `Spec => []FailsForAReason`: a repeated request has a token for its scope, or
  one that expired since.

`AuthStore_proofs`, for any processes, spellings and accounts:

- `ReportedStaysTrue`, `BrokenOnlyForAReason`, `LookupsAreTrue`: the invariant adds `OverlapInv` (of two processes
  between load and write each knows of the other), `ViewInv` (what one has in memory agrees with the
  promises but for those it overlaps and its own change) and `WriteInv` (unless two have
  clashed, one writes at a time, to an empty file).

`LayerExtraction_proofs`, for any builds, images, layers and whiteouts:

- `AloneIsRight`: `Spec => []ExtractedAlone`. `PhaseInv` says, path by path, how far an
  undisturbed build has come: what the layers below make of it, unless an error was passed over there (`Doubtful`), and
  what of the current one has been untarred, whited out and copied. `TempInv`: a directory holds entries of its layer only, whoever
  has left them, so that finding some does no harm.
- `LastOneCleansUp`: `Spec => []NoLeftovers`. `LeftInv`: every entry has somebody who is still
  going to remove it.

`Commands_proofs`, for any commands, tags and deaths of the daemon:

- `ExitStatusIsTrue`, `DoneAtMostOnce`: the invariant ties `effects` to the request's state and to the command's
  step: a command on its direct way has sent no request, one that has sent one stays on that way.
- `OwnImagesStay`: `Spec => []OwnImagesKept`. `Keeping` says of a command that is to write what its `listing` has of the
  images that are kept, as long as it has met no other; `Owned` is that of all commands with the property.

Only model-checked is liveness: `EveryoneServed`, `StopReturns`, `BuildsEnd`,
`ReceiverToldOfEnd`, `JobsEnd`. It and ENABLED are out of the prover's reach. Every other property of a
passing run is the conclusion of a theorem. Induction over data is out of reach too, and no theorem here
needs it: no module has a recursive operator, and layers, lines and messages are counted along by the
steps that take them.

## 5. Not modelled

For good, because it keeps no state that a property here is about: the Dockerfile parser, the OCI
classes' serialisation, JSON and its validation (`protocol.py`, `security.py`: a request they refuse is
a choice to refuse), the encoding of passwords, file modes, `list_registries`, `info`, `setup` and
`version`, logging, wording, platform helpers, banners, scripts, packaging, examples.

Left out although it has behaviour, with what is known of it:

- the blobs and the index of a repository used by several processes at once (direct commands): there is no lock
  between them, and `TagStoreSpec` would fail at once; `Commands` has what it does to `metadata.json`;
- the first use of a repository by two threads, and a purge during a build: both are in
  reach of `ImageStore`'s constants and break properties that hold otherwise (see the hazards);
- that a request ends that waits for a lock: it takes a registry that answers and locks that are handed on, and
  neither is the code's to guarantee;
- a second daemon at the same socket;
- in `LayerExtraction`, a directory that `os.walk` cannot read (it is passed over without a word), and an `rmtree` that fails
  twice for want of permission;
- builds without isolation, which make one layer of the context and run nothing in a rootfs,
  and the image's history and configuration;
- `BuildRootfs` with base images that have links, and commands that touch the two `resolv.conf` files.

What could follow: the composition of `MessageFraming` with `BuildOutput`, whose `wire` is the queue that
`MessageChannel` promises; what survives of the extraction through shared directories when only the
layer's digest is shared.
