---------------------------- MODULE RegistryClient ----------------------------
(***************************************************************************)
(* Jobs at a remote registry (registry/client.py): a push checks the       *)
(* connection and the credentials, uploads the blobs that the registry does*)
(* not have and then the manifest; a pull gets the manifest, through a     *)
(* manifest list if need be, and then the blobs it names; a login checks   *)
(* the credentials.  Each job is one RegistryClient.  A request that is not*)
(* authorised is repeated once with a token, if the registry names a token *)
(* service.  What the registry does with a request is external: it keeps   *)
(* blobs, and lets tags name manifests without looking into them.          *)
(***************************************************************************)
EXTENDS Naturals, Sequences, FiniteSets

CONSTANTS
    Client,      \* jobs, each with a RegistryClient of its own
    Work,        \* what a job may be: records of a kind (push, pull, login), an image to
                 \* push, credentials, rights that the registry gives them, and tokenAuth
                 \* (enable_token_auth)
    Scheme,      \* how registries authenticate: subset of {"open", "Basic", "Bearer"}
    Image,       \* images, by the digests of their manifests
    Contents,    \* Contents[i]: the blobs that manifest i names, config first
    List,        \* manifest lists, by their digests
    Entries,     \* Entries[l]: the images of list l, each with its platform, in order
    Platform,    \* the platform images are pulled for
    NoImage,     \* the tag names nothing
    MaxPublished,\* bound: manifests and lists published by others
    MaxExpired   \* bound: tokens that expire, over all jobs

Range(s) == {s[n] : n \in DOMAIN s}

ASSUME RegistryAssumption ==
    /\ Work \subseteq [kind : {"push", "pull", "login"}, image : Image,
                       creds : {"none", "valid", "wrong"}, rights : SUBSET {"pull", "push"},
                       tokenAuth : BOOLEAN]
    /\ Scheme \subseteq {"open", "Basic", "Bearer"}
    /\ NoImage \notin Image \cup List /\ Image \cap List = {}
    /\ \A i \in Image : Contents[i] \in Seq(Range(Contents[i])) /\ Contents[i] # <<>>
    /\ \A l \in List : \A n \in DOMAIN Entries[l] : Entries[l][n].image \in Image
    /\ MaxPublished \in Nat /\ MaxExpired \in Nat

VARIABLES
    scheme,   \* the registry's way of authenticating
    blobs,    \* the blobs it has
    named,    \* what the tag names
    history,  \* (history) everything the tag has named, in order
    job,      \* job[c]: what the job of c is
    pc,       \* pc[c]: the request that c makes next
    try,      \* try[c]: it is made for the first time, was challenged, or is repeated
    token,    \* token[c]: the scope of the cached token, or "none", or "expired"
    pos,      \* pos[c]: the position in the image's blobs
    got,      \* got[c]: the manifest, or list, and the blobs downloaded
    since,    \* (history) how long history was when c asked what the tag names
    blame,    \* (history) what has gone wrong for c outside the client
    published, expired

registry == <<scheme, blobs, named, history>>
bounds == <<published, expired>>
vars == <<registry, job, pc, try, token, pos, got, since, blame, bounds>>

Requests == {"probe", "verify", "head", "post", "put", "put manifest",
             "get manifest", "get listed", "get blob"}
Running(c) == pc[c] \in Requests
Scope(c) == CASE pc[c] \in {"probe", "verify"} -> "any"
              [] pc[c] \in {"post", "put", "put manifest"} -> "push"
              [] OTHER -> "pull"

\* What the tag may come to stand for: the image, or those of the list.
Images(m) == IF m \in Image THEN {m} ELSE IF m \in List THEN {e.image : e \in Range(Entries[m])} ELSE {}

-------------------------------------------------------------------------------
(* Authentication: _request, _handle_auth_challenge, _request_token.       *)

\* The Authorization header.  session.auth is set when there are credentials, and
\* requests applies it after the headers of the request, over a cached token.
Header(c) == IF job[c].creds # "none" THEN "Basic"
             ELSE IF token[c] # "none" /\ job[c].tokenAuth THEN "Bearer" ELSE "none"

\* The registry gives the account the right (external).
Entitled(c, scope) == job[c].creds # "wrong" /\ (scope = "any" \/ scope \in job[c].rights)

\* The registry lets the request pass (external).  A token for one scope does not do for
\* another; a push scope includes the right to pull.
Authorised(c) ==
    CASE scheme = "open" -> TRUE
      [] scheme = "Basic" -> Header(c) = "Basic" /\ Entitled(c, Scope(c))
      [] scheme = "Bearer" -> /\ Header(c) = "Bearer"
                              /\ \/ token[c] = Scope(c)
                                 \/ Scope(c) = "any" /\ token[c] # "expired"
                                 \/ Scope(c) = "pull" /\ token[c] = "push"

\* (mutant) a token is requested once: one that does not do any more is not renewed.
TokenServiceOnce(c) == scheme = "Bearer" /\ job[c].tokenAuth /\ token[c] = "none"

\* A 401 of this registry to this client names a token service.
TokenService(c) == scheme = "Bearer" /\ job[c].tokenAuth

\* (mutant) a repeated request that is not authorised is challenged like the first.
ChallengeAgain(c) ==
    /\ Running(c) /\ try[c] # "challenged" /\ ~Authorised(c)
    /\ TokenService(c)
    /\ try' = [try EXCEPT ![c] = "challenged"]
    /\ UNCHANGED <<registry, job, pc, token, pos, got, since, blame, bounds>>

\* 401, and the registry names a token service.
Challenge(c) ==
    /\ Running(c) /\ try[c] = "first" /\ ~Authorised(c)
    /\ TokenService(c)
    /\ try' = [try EXCEPT ![c] = "challenged"]
    /\ UNCHANGED <<registry, job, pc, token, pos, got, since, blame, bounds>>

\* The token service gives a token for the scope that the challenge names; it is cached,
\* and the request is repeated with it.
ObtainToken(c) ==
    /\ Running(c) /\ try[c] = "challenged" /\ Entitled(c, Scope(c))
    /\ token' = [token EXCEPT ![c] = Scope(c)]
    /\ try' = [try EXCEPT ![c] = "again"]
    /\ UNCHANGED <<registry, job, pc, pos, got, since, blame, bounds>>

\* The 401 is the answer: there is no token to be had, or it has not helped.
Unauthorised(c) ==
    \/ try[c] = "first" /\ ~Authorised(c) /\ ~TokenService(c)
    \/ try[c] = "challenged" /\ ~Entitled(c, Scope(c))
    \/ try[c] = "again" /\ ~Authorised(c)

\* A token runs out (external).  When it has not been used even once, the job is out of
\* luck: no request is repeated a second time.
Expire(c) ==
    /\ Running(c) /\ token[c] \notin {"none", "expired"} /\ expired < MaxExpired
    /\ token' = [token EXCEPT ![c] = "expired"]
    /\ blame' = [blame EXCEPT ![c] = IF try[c] = "again" THEN @ \cup {"expired"} ELSE @]
    /\ expired' = expired + 1
    /\ UNCHANGED <<registry, job, pc, try, pos, got, since, published>>

-------------------------------------------------------------------------------
(* The course of a job.                                                    *)

\* The next request, for the first time, or the end of the job.
Goto(c, to) == pc' = [pc EXCEPT ![c] = to] /\ try' = [try EXCEPT ![c] = "first"]

\* The client goes on.
Proceed(c) == UNCHANGED <<token, pos, got, since, blame>>

\* The job fails, for a reason that is not the client's or for none (NoReason); with the
\* exception, the client and what it has are gone.
NoReason == {}
Nothing == [manifest |-> NoImage, blobs |-> <<>>]
FailFor(c, reason) ==
    /\ Goto(c, "failed")
    /\ token' = [token EXCEPT ![c] = "none"] /\ pos' = [pos EXCEPT ![c] = 0]
    /\ got' = [got EXCEPT ![c] = Nothing] /\ since' = [since EXCEPT ![c] = 0]
    /\ blame' = [blame EXCEPT ![c] = @ \cup reason]

\* On to the next blob of image i with the request `this', or after the last to `then'.
NextBlob(c, i, this, then) ==
    IF pos[c] < Len(Contents[i])
    THEN Goto(c, this) /\ pos' = [pos EXCEPT ![c] = @ + 1]
    ELSE Goto(c, then) /\ UNCHANGED pos

Blob(c, i) == Contents[i][pos[c]]

Begin(c) ==
    /\ pc[c] = "none"
    /\ Goto(c, CASE job[c].kind = "push" -> "probe"
                 [] job[c].kind = "pull" -> "get manifest"
                 [] job[c].kind = "login" -> "verify")
    /\ since' = [since EXCEPT ![c] = Len(history)]
    /\ UNCHANGED <<registry, job, token, pos, got, blame, bounds>>

\* 401 for good.  To check_connectivity it means that there is a registry, to blob_exists
\* that the blob is not there; every other request fails.
Denied(c) ==
    /\ Running(c) /\ Unauthorised(c)
    /\ \/ pc[c] = "probe" /\ Goto(c, "verify") /\ Proceed(c)
       \/ pc[c] = "head" /\ Goto(c, "post") /\ Proceed(c)
       \/ /\ pc[c] \notin {"probe", "head"}
          /\ FailFor(c, IF Entitled(c, Scope(c)) THEN NoReason ELSE {"rights"})
    /\ UNCHANGED <<registry, job, bounds>>

\* The request is passed on: the step of the job that has this request next is taken.
Passes(c, request) ==
    pc[c] = request /\ try[c] \in {"first", "again"} /\ Authorised(c)

\* check_connectivity, then verify_authentication; after that a login is done, and a push
\* begins with the config.
Ping(c) ==
    /\ \/ Passes(c, "probe") /\ Goto(c, "verify") /\ UNCHANGED pos
       \/ Passes(c, "verify") /\ job[c].kind = "login" /\ Goto(c, "done") /\ UNCHANGED pos
       \/ /\ Passes(c, "verify") /\ job[c].kind = "push"
          /\ Goto(c, "head") /\ pos' = [pos EXCEPT ![c] = 1]
    /\ UNCHANGED <<registry, job, token, got, since, blame, bounds>>

\* (mutant) an upload that has begun is as good as a blob.
HeadBlobOfUploads(c) ==
    /\ Passes(c, "head")
    /\ IF \/ Blob(c, job[c].image) \in blobs
          \/ \E d \in Client \ {c} : pc[d] = "put" /\ Blob(d, job[d].image) = Blob(c, job[c].image)
       THEN NextBlob(c, job[c].image, "head", "put manifest")
       ELSE Goto(c, "post") /\ UNCHANGED pos
    /\ UNCHANGED <<registry, job, token, got, since, blame, bounds>>

\* upload_blob: blob_exists,
HeadBlob(c) ==
    /\ Passes(c, "head")
    /\ IF Blob(c, job[c].image) \in blobs
       THEN NextBlob(c, job[c].image, "head", "put manifest")
       ELSE Goto(c, "post") /\ UNCHANGED pos
    /\ UNCHANGED <<registry, job, token, got, since, blame, bounds>>

\* then a request for an upload location,
Post(c) ==
    /\ Passes(c, "post")
    /\ Goto(c, "put")
    /\ UNCHANGED <<registry, job, token, pos, got, since, blame, bounds>>

\* and the upload to it.
Put(c) ==
    /\ Passes(c, "put")
    /\ blobs' = blobs \cup {Blob(c, job[c].image)}
    /\ NextBlob(c, job[c].image, "head", "put manifest")
    /\ UNCHANGED <<scheme, named, history, job, token, got, since, blame, bounds>>

\* The registry lets the tag name m.
Name(m) == named' = m /\ history' = Append(history, m)

\* upload_manifest, under the tag: the last request of a push.
PutManifest(c) ==
    /\ Passes(c, "put manifest")
    /\ Name(job[c].image)
    /\ Goto(c, "done")
    /\ UNCHANGED <<scheme, blobs, job, token, pos, got, since, blame, bounds>>

\* The manifest m is there: its blobs are next.
Fetch(c, m) ==
    /\ got' = [got EXCEPT ![c] = [manifest |-> m, blobs |-> <<>>]]
    /\ Goto(c, "get blob") /\ pos' = [pos EXCEPT ![c] = 1]

\* pull_image selects the first image of the list for the platform.
Selected(l) == {e.image : e \in {Entries[l][n] : n \in
                    {n \in DOMAIN Entries[l] :
                        /\ Entries[l][n].platform = Platform
                        /\ \A k \in 1..(n - 1) : Entries[l][k].platform # Platform}}}

\* download_manifest of what the tag names: an image, a list with an image for the platform
\* or without, or nothing.
GetManifest(c) ==
    /\ Passes(c, "get manifest")
    /\ \/ named \in Image /\ Fetch(c, named) /\ UNCHANGED <<token, since, blame>>
       \/ /\ named \in List /\ Selected(named) # {}
          /\ got' = [got EXCEPT ![c] = [manifest |-> named, blobs |-> <<>>]]
          /\ Goto(c, "get listed") /\ UNCHANGED <<token, pos, since, blame>>
       \/ /\ named = NoImage \/ (named \in List /\ Selected(named) = {})
          /\ FailFor(c, {"not found"})
    /\ UNCHANGED <<registry, job, bounds>>

\* download_manifest again, by the digest from the list.
GetListed(c) ==
    /\ Passes(c, "get listed")
    /\ \E i \in Selected(got[c].manifest) : Fetch(c, i)
    /\ UNCHANGED <<registry, job, token, since, blame, bounds>>

\* (mutant) the blobs are those of what the tag names by now.
GetBlobByTag(c) ==
    /\ Passes(c, "get blob")
    /\ LET i == IF named \in Image THEN named ELSE got[c].manifest IN
       /\ pos[c] \in DOMAIN Contents[i]
       /\ got' = [got EXCEPT ![c].blobs = Append(@, Blob(c, i))]
       /\ NextBlob(c, i, "get blob", "done")
    /\ UNCHANGED <<registry, job, token, since, blame, bounds>>

\* download_blob of the config and of every layer of the manifest; 404 fails.
GetBlob(c) ==
    /\ Passes(c, "get blob")
    /\ LET i == got[c].manifest IN
       IF Blob(c, i) \in blobs
       THEN /\ got' = [got EXCEPT ![c].blobs = Append(@, Blob(c, i))]
            /\ NextBlob(c, i, "get blob", "done") /\ UNCHANGED <<token, since, blame>>
       ELSE FailFor(c, NoReason)
    /\ UNCHANGED <<registry, job, bounds>>

\* The request fails otherwise (a timeout, a connection that breaks, another status), and
\* the registry may have done what it asked for.  To blob_exists a status that is not 200
\* means that the blob is not there.
RequestFails(c) ==
    /\ Running(c) /\ try[c] \in {"first", "again"}
    /\ \/ FailFor(c, {"request"})
       \/ pc[c] = "head" /\ Goto(c, "post") /\ Proceed(c)
    /\ \/ UNCHANGED <<blobs, named, history>>
       \/ /\ Passes(c, "put")
          /\ blobs' = blobs \cup {Blob(c, job[c].image)} /\ UNCHANGED <<named, history>>
       \/ Passes(c, "put manifest") /\ Name(job[c].image) /\ UNCHANGED blobs
    /\ UNCHANGED <<scheme, job, bounds>>

\* Another client of the registry publishes an image or a list under the tag (external).
Publish(m) ==
    /\ published < MaxPublished
    /\ blobs' = blobs \cup UNION {Range(Contents[i]) : i \in Images(m)}
    /\ Name(m)
    /\ published' = published + 1
    /\ UNCHANGED <<scheme, job, pc, try, token, pos, got, since, blame, expired>>

-------------------------------------------------------------------------------
Init ==
    /\ scheme \in Scheme
    /\ blobs = {} /\ named = NoImage /\ history = <<>>
    /\ job \in [Client -> Work]
    /\ pc = [c \in Client |-> "none"]
    /\ try = [c \in Client |-> "first"]
    /\ token = [c \in Client |-> "none"]
    /\ pos = [c \in Client |-> 0]
    /\ got = [c \in Client |-> Nothing]
    /\ since = [c \in Client |-> 0]
    /\ blame = [c \in Client |-> {}]
    /\ published = 0 /\ expired = 0

Request(c) ==
    \/ Challenge(c) \/ ObtainToken(c) \/ Denied(c) \/ Ping(c)
    \/ HeadBlob(c) \/ Post(c) \/ Put(c) \/ PutManifest(c)
    \/ GetManifest(c) \/ GetListed(c) \/ GetBlob(c)

Next == \/ \E c \in Client : Begin(c) \/ Request(c) \/ RequestFails(c) \/ Expire(c)
        \/ \E m \in Image \cup List : Publish(m)

Spec == Init /\ [][Next]_vars

\* Every request is answered, or times out, and the client goes on with the next.
FairSpec == Spec /\ \A c \in Client : WF_vars(Request(c) \/ RequestFails(c))

-------------------------------------------------------------------------------
(* Properties.                                                             *)

\* The types; a job that runs has the position of a blob whenever it needs one.
TypeOK ==
    /\ scheme \in Scheme /\ named \in Image \cup List \cup {NoImage}
    /\ blobs \subseteq UNION {Range(Contents[i]) : i \in Image}
    /\ history \in Seq(Image \cup List)
    /\ job \in [Client -> Work]
    /\ pc \in [Client -> Requests \cup {"none", "done", "failed"}]
    /\ try \in [Client -> {"first", "challenged", "again"}]
    /\ token \in [Client -> {"none", "any", "pull", "push", "expired"}]
    /\ \A c \in Client :
         /\ pc[c] \in {"head", "post", "put"} => pos[c] \in DOMAIN Contents[job[c].image]
         /\ pc[c] = "get blob" => pos[c] \in DOMAIN Contents[got[c].manifest]

\* The tag never names an image of which the registry lacks a blob, whichever pushes fail
\* between two requests, and whatever others push at the same time.
NamedIsComplete == \A i \in Images(named) : Range(Contents[i]) \subseteq blobs

\* What a pull returns is one image, all of its blobs in order, and one that the tag named
\* at some time from the beginning of the pull on, although the tag may move during it.
PulledIsOneImage ==
    \A c \in Client : pc[c] = "done" /\ job[c].kind = "pull" =>
        /\ got[c].manifest \in Image
        /\ got[c].blobs = Contents[got[c].manifest]
        /\ \E n \in DOMAIN history : n >= since[c] /\ got[c].manifest \in Images(history[n])

\* The client has credentials, which the registry does not take but for a token: see
\* ValidCredentialsDo.
TokenCoveredUp(c) == scheme = "Bearer" /\ job[c].creds # "none"

\* A job fails only for a reason: a request failed, the account lacks the right, there is
\* no such image, or a token ran out at once.  That a token expires between two requests,
\* or is for another scope, is no reason.
FailsForAReason ==
    \A c \in Client :
        pc[c] = "failed" =>
            \/ blame[c] # {}
            \/ TokenCoveredUp(c)
            \/ scheme = "Basic" /\ job[c].creds = "none"
            \/ scheme = "Bearer" /\ ~job[c].tokenAuth

\* A job that has begun ends.
JobsEnd == \A c \in Client : pc[c] # "none" ~> pc[c] \in {"done", "failed"}

\* "Derpy supports authentication with container registries for pulling private base
\* images and pushing images to authenticated registries" (README.md): where the client
\* answers challenges, an account that has the right gets through.
ValidCredentialsDo ==
    \A c \in Client :
        pc[c] = "failed" /\ job[c].creds = "valid" /\ job[c].tokenAuth => blame[c] # {}
===============================================================================
