------------------------- MODULE RegistryClient_proofs -------------------------
(***************************************************************************)
(* Of RegistryClient, for any jobs, images, lists and ways of failing: a   *)
(* tag names only images that the registry has completely, a pull is one   *)
(* image, and a job fails only for a reason.                               *)
(***************************************************************************)
EXTENDS RegistryClient, TLAPS

AllBlobs == UNION {Range(Contents[i]) : i \in Image}

Types ==
    /\ scheme \in Scheme /\ named \in Image \cup List \cup {NoImage}
    /\ history \in Seq(Image \cup List)
    /\ job \in [Client -> Work]
    /\ pc \in [Client -> Requests \cup {"none", "done", "failed"}]
    /\ try \in [Client -> {"first", "challenged", "again"}]
    /\ token \in [Client -> {"none", "any", "pull", "push", "expired"}]
    /\ pos \in [Client -> Nat]
    /\ got \in [Client -> [manifest : Image \cup List \cup {NoImage}, blobs : Seq(AllBlobs)]]
    /\ since \in [Client -> Nat]
    /\ blame \in [Client -> SUBSET {"rights", "not found", "request", "expired"}]

\* The registry has every blob of i, and has named i since c began.
Complete(i) == Range(Contents[i]) \subseteq blobs
NamedSince(c, m) == \E n \in DOMAIN history : n >= since[c] /\ history[n] = m

\* What the tag names is what it was last made to name, and complete.
NamedInv ==
    /\ named # NoImage => history # <<>> /\ history[Len(history)] = named
    /\ NamedIsComplete

\* The kind of a job that has a request next.
KindInv(c) ==
    /\ pc[c] \in {"probe", "head", "post", "put", "put manifest"} => job[c].kind = "push"
    /\ pc[c] \in {"get manifest", "get listed", "get blob"} => job[c].kind = "pull"
    /\ pc[c] = "verify" => job[c].kind # "pull"

\* The blobs up to the position have been uploaded.
PushInv(c) ==
    LET i == job[c].image IN
    /\ pc[c] \in {"head", "post", "put"} =>
          /\ pos[c] \in 1..Len(Contents[i])
          /\ \A k \in 1..(pos[c] - 1) : Contents[i][k] \in blobs
    /\ pc[c] = "put manifest" => Complete(i)

\* The manifest is one that was named since the pull began, and complete; the blobs up to
\* the position have been downloaded.
PullInv(c) ==
    LET m == got[c].manifest IN
    /\ since[c] <= Len(history)
    /\ pc[c] = "get listed" =>
          m \in List /\ NamedSince(c, m) /\ \A i \in Images(m) : Complete(i)
    /\ pc[c] = "get blob" \/ (pc[c] = "done" /\ job[c].kind = "pull") =>
          /\ m \in Image
          /\ \E l \in Image \cup List : m \in Images(l) /\ NamedSince(c, l)
    /\ pc[c] = "get blob" =>
          /\ Complete(m) /\ pos[c] \in 1..Len(Contents[m])
          /\ got[c].blobs = [k \in 1..(pos[c] - 1) |-> Contents[m][k]]
    /\ pc[c] = "done" /\ job[c].kind = "pull" => got[c].blobs = Contents[m]

\* A request is repeated with the token that was asked for it, if that has not run out.
TokenInv(c) ==
    /\ try[c] # "first" => TokenService(c)
    /\ try[c] = "again" => token[c] = Scope(c) \/ "expired" \in blame[c]

\* A reason that is not in blame[c].
Excuse(c) ==
    \/ TokenCoveredUp(c)
    \/ scheme = "Basic" /\ job[c].creds = "none"
    \/ scheme = "Bearer" /\ ~job[c].tokenAuth
FailInv(c) == pc[c] = "failed" => blame[c] # {} \/ Excuse(c)

ClientInv(c) == KindInv(c) /\ PushInv(c) /\ PullInv(c) /\ TokenInv(c) /\ FailInv(c)

Inv == Types /\ NamedInv /\ \A c \in Client : ClientInv(c)

-------------------------------------------------------------------------------
(* The data.                                                               *)

LEMMA ContentsFacts ==
    ASSUME NEW i \in Image
    PROVE  /\ Contents[i] \in Seq(AllBlobs) /\ Len(Contents[i]) \in Nat \ {0}
           /\ DOMAIN Contents[i] = 1..Len(Contents[i])
           /\ Contents[i] = [k \in 1..Len(Contents[i]) |-> Contents[i][k]]
           /\ Range(Contents[i]) \subseteq AllBlobs
<1>1. Range(Contents[i]) \subseteq AllBlobs
  BY DEF AllBlobs
<1>2. Contents[i] \in Seq(Range(Contents[i])) /\ Contents[i] # <<>>
  BY RegistryAssumption
<1>3. Contents[i] \in Seq(AllBlobs)
  BY <1>1, <1>2
<1> QED
  BY <1>1, <1>2, <1>3

LEMMA ImagesFacts ==
    /\ \A i \in Image : Images(i) = {i}
    /\ Images(NoImage) = {}
    /\ \A l \in List : Images(l) \subseteq Image /\ Selected(l) \subseteq Images(l)
<1>1. \A i \in Image : Images(i) = {i}
  BY DEF Images
<1>2. Images(NoImage) = {}
  BY RegistryAssumption DEF Images
<1>3. ASSUME NEW l \in List PROVE Images(l) \subseteq Image /\ Selected(l) \subseteq Images(l)
  <2>1. l \notin Image
    BY RegistryAssumption
  <2>2. Images(l) = {Entries[l][n].image : n \in DOMAIN Entries[l]}
    BY <2>1 DEF Images, Range
  <2>3. Selected(l) \subseteq {Entries[l][n].image : n \in DOMAIN Entries[l]}
    BY DEF Selected
  <2> QED BY <2>2, <2>3, RegistryAssumption
<1> QED
  BY <1>1, <1>2, <1>3

LEMMA NothingTyped ==
    Nothing \in [manifest : Image \cup List \cup {NoImage}, blobs : Seq(AllBlobs)]
BY DEF Nothing

\* From one position of f, up to which everything is in B, to the next.
LEMMA NextPosition ==
    ASSUME NEW f, NEW B, NEW len \in Nat, NEW p \in 1..len,
           \A k \in 1..(p - 1) : f[k] \in B, f[p] \in B
    PROVE  /\ p < len => /\ p + 1 \in Nat /\ p + 1 \in 1..len
                         /\ \A k \in 1..((p + 1) - 1) : f[k] \in B
           /\ ~(p < len) => \A k \in 1..len : f[k] \in B
<1>1. \A k \in 1..p : f[k] \in B
  <2> SUFFICES ASSUME NEW k \in 1..p PROVE f[k] \in B
    OBVIOUS
  <2>1. k = p \/ k \in 1..(p - 1)
    OBVIOUS
  <2> QED BY <2>1
<1>2. (p + 1) - 1 = p /\ p + 1 \in Nat /\ (p < len => p + 1 \in 1..len) /\ (~(p < len) => p = len)
  OBVIOUS
<1> QED
  BY <1>1, <1>2

LEMMA ZeroLeast == \A n \in Nat : 0 <= n
OBVIOUS

LEMMA JobFacts ==
    ASSUME Types, NEW c \in Client
    PROVE  /\ job[c].kind \in {"push", "pull", "login"} /\ job[c].image \in Image
           /\ job[c].creds \in {"none", "valid", "wrong"} /\ job[c].tokenAuth \in BOOLEAN
<1>1. job[c] \in Work
  BY DEF Types
<1>2. job[c] \in [kind : {"push", "pull", "login"}, image : Image,
                   creds : {"none", "valid", "wrong"}, rights : SUBSET {"pull", "push"},
                   tokenAuth : BOOLEAN]
  BY <1>1, RegistryAssumption
<1> QED
  BY <1>2

LEMMA HistoryLength == ASSUME Types PROVE Len(history) \in Nat /\ DOMAIN history = 1..Len(history)
<1>1. history \in Seq(Image \cup List)
  BY DEF Types
<1> QED
  BY <1>1

LEMMA InitInv == ASSUME Init PROVE Inv
<1>1. Types
  BY DEF Init, Types, Nothing
<1>2. NamedInv
  BY ImagesFacts DEF Init, NamedInv, NamedIsComplete
<1>3. ASSUME NEW c \in Client PROVE ClientInv(c)
  <2>1. pc[c] = "none" /\ try[c] = "first" /\ since[c] = 0 /\ Len(history) = 0
    BY DEF Init
  <2> QED
    BY <2>1 DEF ClientInv, KindInv, PushInv, PullInv, TokenInv, FailInv
<1> QED
  BY <1>1, <1>2, <1>3 DEF Inv

-------------------------------------------------------------------------------
(* What others see of a step: the registry grows.                          *)

Grows ==
    /\ scheme' = scheme /\ job' = job
    /\ blobs \subseteq blobs'
    /\ Len(history') \in Nat /\ Len(history) <= Len(history')
    /\ DOMAIN history \subseteq DOMAIN history'
    /\ \A n \in DOMAIN history : history'[n] = history[n]

Same(d) ==
    /\ pc'[d] = pc[d] /\ try'[d] = try[d] /\ token'[d] = token[d] /\ pos'[d] = pos[d]
    /\ got'[d] = got[d] /\ since'[d] = since[d] /\ blame'[d] = blame[d]

LEMMA SameKeeps ==
    ASSUME NEW d \in Client, Types, ClientInv(d), Grows, Same(d)
    PROVE  ClientInv(d)'
<1>1. KindInv(d)' /\ TokenInv(d)' /\ FailInv(d)'
  BY DEF ClientInv, Grows, Same, KindInv, TokenInv, FailInv, TokenService, Scope, Excuse, TokenCoveredUp
<1>2. PushInv(d)'
  BY DEF ClientInv, Grows, Same, PushInv, Complete
<1>3. PullInv(d)'
  <2>1. since'[d] <= Len(history')
    <3>1. since[d] \in Nat /\ Len(history) \in Nat
      BY HistoryLength DEF Types
    <3>2. since[d] <= Len(history)
      BY DEF ClientInv, PullInv
    <3>3. since'[d] = since[d] /\ Len(history') \in Nat /\ Len(history) <= Len(history')
      BY DEF Grows, Same
    <3> QED BY <3>1, <3>2, <3>3
  <2>2. \A m : NamedSince(d, m) => NamedSince(d, m)'
    BY DEF NamedSince, Grows, Same
  <2>3. \A i : Complete(i) => Complete(i)'
    BY DEF Complete, Grows
  <2> QED
    BY <2>1, <2>2, <2>3 DEF ClientInv, PullInv, Grows, Same
<1> QED
  BY <1>1, <1>2, <1>3 DEF ClientInv

LEMMA Grow0 == ASSUME Types, UNCHANGED <<scheme, job, history>>, blobs \subseteq blobs' PROVE Grows
BY HistoryLength DEF Grows

LEMMA GrowNamed ==
    ASSUME Types, NEW m \in Image \cup List, UNCHANGED <<scheme, job>>, blobs \subseteq blobs', Name(m)
    PROVE  /\ Grows /\ history' \in Seq(Image \cup List)
           /\ history' # <<>> /\ history'[Len(history')] = m
<1>1. history \in Seq(Image \cup List) /\ history' = Append(history, m)
  BY DEF Types, Name
<1> QED
  BY <1>1 DEF Grows

LEMMA NamedKeeps ==
    ASSUME Types, NamedInv, blobs \subseteq blobs', UNCHANGED <<named, history>>
    PROVE  NamedInv'
BY DEF NamedInv, NamedIsComplete

LEMMA NamedAnew ==
    ASSUME Types, NEW m \in Image \cup List, UNCHANGED <<scheme, job>>, blobs \subseteq blobs', Name(m),
           \A i \in Images(m) : Range(Contents[i]) \subseteq blobs'
    PROVE  NamedInv'
BY GrowNamed DEF NamedInv, NamedIsComplete, Name

LEMMA Assemble ==
    ASSUME NEW c \in Client, Inv, Types', NamedInv', Grows,
           \A d \in Client \ {c} : Same(d), ClientInv(c)'
    PROVE  Inv'
<1>1. ASSUME NEW d \in Client, d # c PROVE ClientInv(d)'
  BY <1>1, SameKeeps DEF Inv
<1> QED
  BY <1>1 DEF Inv

-------------------------------------------------------------------------------
(* Authentication.                                                         *)

LEMMA ChallengeKeeps == ASSUME NEW c \in Client, Inv, Challenge(c) PROVE Inv'
<1>0. Types /\ NamedInv /\ ClientInv(c)
  BY DEF Inv
<1>1. /\ pc[c] \in Requests /\ TokenService(c) /\ try' = [try EXCEPT ![c] = "challenged"]
      /\ UNCHANGED <<registry, job, pc, token, pos, got, since, blame>>
  BY DEF Challenge, Running
<1>2. Types'
  BY <1>0, <1>1 DEF Types, registry
<1>3. Grows /\ NamedInv'
  BY <1>0, <1>1, Grow0, NamedKeeps DEF registry
<1>4. (\A d \in Client \ {c} : Same(d)) /\ try'[c] = "challenged"
  BY <1>0, <1>1 DEF Types, Same
<1>5. KindInv(c)' /\ PushInv(c)' /\ PullInv(c)' /\ FailInv(c)'
  BY <1>0, <1>1 DEF registry, ClientInv, KindInv, PushInv, PullInv, Complete, NamedSince, FailInv,
     Excuse, TokenCoveredUp
<1>6. TokenInv(c)'
  BY <1>0, <1>1, <1>4 DEF registry, TokenInv, TokenService
<1> QED
  BY <1>2, <1>3, <1>4, <1>5, <1>6, Assemble DEF ClientInv

LEMMA ObtainTokenKeeps == ASSUME NEW c \in Client, Inv, ObtainToken(c) PROVE Inv'
<1>0. Types /\ NamedInv /\ ClientInv(c)
  BY DEF Inv
<1>1. /\ pc[c] \in Requests /\ try[c] = "challenged"
      /\ try' = [try EXCEPT ![c] = "again"] /\ token' = [token EXCEPT ![c] = Scope(c)]
      /\ UNCHANGED <<registry, job, pc, pos, got, since, blame>>
  BY DEF ObtainToken, Running
<1>2. Scope(c) \in {"any", "pull", "push"}
  BY DEF Scope
<1>3. Types'
  BY <1>0, <1>1, <1>2 DEF Types, registry
<1>4. Grows /\ NamedInv'
  BY <1>0, <1>1, Grow0, NamedKeeps DEF registry
<1>5. (\A d \in Client \ {c} : Same(d)) /\ try'[c] = "again" /\ token'[c] = Scope(c)
  BY <1>0, <1>1 DEF Types, Same
<1>6. KindInv(c)' /\ PushInv(c)' /\ PullInv(c)' /\ FailInv(c)'
  BY <1>0, <1>1 DEF registry, ClientInv, KindInv, PushInv, PullInv, Complete, NamedSince, FailInv,
     Excuse, TokenCoveredUp
<1>7. TokenInv(c)'
  BY <1>0, <1>1, <1>5 DEF registry, ClientInv, TokenInv, TokenService, Scope
<1> QED
  BY <1>3, <1>4, <1>5, <1>6, <1>7, Assemble DEF ClientInv

LEMMA ExpireKeeps == ASSUME NEW c \in Client, Inv, Expire(c) PROVE Inv'
<1>0. Types /\ NamedInv /\ ClientInv(c)
  BY DEF Inv
<1>1. /\ pc[c] \in Requests /\ token' = [token EXCEPT ![c] = "expired"]
      /\ blame' = [blame EXCEPT ![c] = IF try[c] = "again" THEN @ \cup {"expired"} ELSE @]
      /\ UNCHANGED <<registry, job, pc, try, pos, got, since>>
  BY DEF Expire, Running
<1>2. Types'
  BY <1>0, <1>1 DEF Types, registry
<1>3. Grows /\ NamedInv'
  BY <1>0, <1>1, Grow0, NamedKeeps DEF registry
<1>4. /\ \A d \in Client \ {c} : Same(d)
      /\ try[c] = "again" => "expired" \in blame'[c]
      /\ blame[c] \subseteq blame'[c]
  BY <1>0, <1>1 DEF Types, Same
<1>5. KindInv(c)' /\ PushInv(c)' /\ PullInv(c)'
  BY <1>0, <1>1 DEF registry, ClientInv, KindInv, PushInv, PullInv, Complete, NamedSince
<1>6. TokenInv(c)' /\ FailInv(c)'
  BY <1>0, <1>1, <1>4 DEF registry, ClientInv, TokenInv, TokenService, FailInv, Requests
<1> QED
  BY <1>2, <1>3, <1>4, <1>5, <1>6, Assemble DEF ClientInv

\* A client that has credentials where passwords do, or none where tokens do and may ask for
\* one, is refused only what its account has no right to.
LEMMA RefusedForAReason ==
    ASSUME NEW c \in Client, Types, TokenInv(c), Unauthorised(c), Entitled(c, Scope(c))
    PROVE  "expired" \in blame[c] \/ Excuse(c)
<1>0. /\ job[c].creds \in {"none", "valid", "wrong"} /\ job[c].creds # "wrong"
      /\ scheme \in {"open", "Basic", "Bearer"} /\ Scope(c) \in {"any", "pull", "push"}
  BY JobFacts, RegistryAssumption DEF Types, Entitled, Scope
<1>1. CASE try[c] = "first" /\ ~Authorised(c) /\ ~TokenService(c)
  BY <1>0, <1>1 DEF Authorised, Header, TokenService, Excuse
<1>2. CASE try[c] = "challenged" /\ ~Entitled(c, Scope(c))
  BY <1>2
<1>3. CASE try[c] = "again" /\ ~Authorised(c)
  <2> SUFFICES ASSUME "expired" \notin blame[c], job[c].creds = "none" PROVE FALSE
    BY <1>3 DEF TokenInv, TokenService, Excuse, TokenCoveredUp
  <2>1. scheme = "Bearer" /\ job[c].tokenAuth /\ token[c] = Scope(c)
    BY <1>3 DEF TokenInv, TokenService
  <2> QED
    BY <1>0, <1>3, <2>1 DEF Authorised, Header
<1> QED
  BY <1>1, <1>2, <1>3 DEF Unauthorised

-------------------------------------------------------------------------------
(* The end of a job that fails, and the step to the next request.          *)

\* What a failing step leaves: nothing but the reason.
LEMMA FailForKeeps ==
    ASSUME NEW c \in Client, Types, ClientInv(c), Grows,
           NEW reason \in SUBSET {"rights", "not found", "request", "expired"}, FailFor(c, reason),
           reason # {} \/ blame[c] # {} \/ Excuse(c)
    PROVE  /\ ClientInv(c)' /\ \A d \in Client \ {c} : Same(d)
           /\ (scheme \in Scheme /\ named' \in Image \cup List \cup {NoImage}
               /\ history' \in Seq(Image \cup List)) => Types'
<1>1. /\ pc' = [pc EXCEPT ![c] = "failed"] /\ try' = [try EXCEPT ![c] = "first"]
      /\ token' = [token EXCEPT ![c] = "none"] /\ pos' = [pos EXCEPT ![c] = 0]
      /\ got' = [got EXCEPT ![c] = Nothing] /\ since' = [since EXCEPT ![c] = 0]
      /\ blame' = [blame EXCEPT ![c] = @ \cup reason]
  BY DEF FailFor, Goto
<1>2. /\ pc'[c] = "failed" /\ try'[c] = "first" /\ since'[c] = 0
      /\ blame'[c] = blame[c] \cup reason
      /\ \A d \in Client \ {c} : Same(d)
  BY <1>1 DEF Types, Same
<1>3. KindInv(c)' /\ PushInv(c)' /\ TokenInv(c)'
  BY <1>2 DEF KindInv, PushInv, TokenInv
<1>4. PullInv(c)'
  <2>1. since'[c] <= Len(history')
    <3>1. Len(history') \in Nat
      BY DEF Grows
    <3> QED BY <1>2, <3>1, ZeroLeast
  <2> QED BY <1>2, <2>1 DEF PullInv
<1>5. FailInv(c)'
  BY <1>2 DEF FailInv, Excuse, TokenCoveredUp, Grows
<1>6. Nothing \in [manifest : Image \cup List \cup {NoImage}, blobs : Seq(AllBlobs)]
  BY NothingTyped
<1>7. (scheme \in Scheme /\ named' \in Image \cup List \cup {NoImage}
       /\ history' \in Seq(Image \cup List)) => Types'
  BY <1>1, <1>6 DEF Types, Grows
<1> QED
  BY <1>2, <1>3, <1>4, <1>5, <1>7 DEF ClientInv

\* What a step to the next request (or the successful end) leaves, whichever it is.
Typed ==
    /\ named \in Image \cup List \cup {NoImage} /\ history \in Seq(Image \cup List)
Gotten == [manifest : Image \cup List \cup {NoImage}, blobs : Seq(AllBlobs)]

LEMMA GoKeeps ==
    ASSUME NEW c \in Client, Types, ClientInv(c), Grows, Typed',
           NEW to \in Requests \cup {"done"}, Goto(c, to), UNCHANGED <<token, since, blame>>,
           NEW p \in Nat, pos' = [pos EXCEPT ![c] = p],
           NEW g \in Gotten, got' = [got EXCEPT ![c] = g]
    PROVE  /\ Types' /\ \A d \in Client \ {c} : Same(d)
           /\ TokenInv(c)' /\ FailInv(c)' /\ since'[c] <= Len(history')
           /\ pc'[c] = to /\ pos'[c] = p /\ got'[c] = g /\ since'[c] = since[c]
<1>1. pc' = [pc EXCEPT ![c] = to] /\ try' = [try EXCEPT ![c] = "first"]
  BY DEF Goto
<1>2. Types'
  BY <1>1 DEF Types, Grows, Typed, Gotten
<1>3. /\ pc'[c] = to /\ try'[c] = "first" /\ pos'[c] = p /\ got'[c] = g
      /\ \A d \in Client \ {c} : Same(d)
  BY <1>1 DEF Types, Same
<1>4. to # "failed"
  BY DEF Requests
<1>5. TokenInv(c)' /\ FailInv(c)'
  BY <1>3, <1>4 DEF TokenInv, FailInv
<1>6. since'[c] <= Len(history')
  <2>1. since[c] \in Nat /\ Len(history) \in Nat
    BY HistoryLength DEF Types
  <2>2. since[c] <= Len(history)
    BY DEF ClientInv, PullInv
  <2>3. Len(history') \in Nat /\ Len(history) <= Len(history')
    BY DEF Grows
  <2> QED BY <2>1, <2>2, <2>3
<1> QED
  BY <1>2, <1>3, <1>5, <1>6

LEMMA Unmoved ==
    ASSUME NEW c \in Client, Types
    PROVE  /\ UNCHANGED pos => pos' = [pos EXCEPT ![c] = pos[c]]
           /\ UNCHANGED got => got' = [got EXCEPT ![c] = got[c]]
           /\ pos[c] \in Nat /\ got[c] \in Gotten
BY DEF Types, Gotten

LEMMA StillTyped == ASSUME Types, UNCHANGED <<named, history>> PROVE Typed'
BY DEF Types, Typed

Pulling == {"get listed", "get blob"}
Pushing == {"head", "post", "put", "put manifest"}

\* To a request that needs no blob and no manifest.
LEMMA PlainGo ==
    ASSUME NEW c \in Client, Types, ClientInv(c), Grows, Typed',
           NEW to \in Requests \cup {"done"}, to \notin Pulling \cup Pushing, Goto(c, to),
           UNCHANGED <<token, since, blame>>, UNCHANGED <<pos, got>>,
           to = "probe" => job[c].kind = "push",
           to = "get manifest" => job[c].kind = "pull",
           to \in {"verify", "done"} => job[c].kind # "pull"
    PROVE  Types' /\ ClientInv(c)' /\ \A d \in Client \ {c} : Same(d)
<1>0. /\ pos' = [pos EXCEPT ![c] = pos[c]] /\ pos[c] \in Nat
      /\ got' = [got EXCEPT ![c] = got[c]] /\ got[c] \in Gotten
      /\ to \in Requests \cup {"done"} /\ UNCHANGED <<token, since, blame>>
  BY Unmoved
<1>1. /\ Types' /\ \A d \in Client \ {c} : Same(d)
      /\ TokenInv(c)' /\ FailInv(c)' /\ since'[c] <= Len(history') /\ pc'[c] = to
  <2>1. pc'[c] = to
    BY DEF Goto, Types
  <2> DEFINE p == pos[c]
             g == got[c]
  <2>2. /\ p \in Nat /\ pos' = [pos EXCEPT ![c] = p] /\ g \in Gotten /\ got' = [got EXCEPT ![c] = g]
    BY <1>0
  <2> HIDE DEF p, g
  <2>3. Types' /\ (\A d \in Client \ {c} : Same(d)) /\ TokenInv(c)' /\ FailInv(c)'
    BY <1>0, <2>2, GoKeeps
  <2>4. since'[c] <= Len(history')
    BY <1>0, <2>2, GoKeeps
  <2> QED BY <2>1, <2>3, <2>4
<1>2. job' = job
  BY DEF Grows
<1>3. KindInv(c)' /\ PushInv(c)' /\ PullInv(c)'
  BY <1>1, <1>2 DEF KindInv, PushInv, PullInv, Pulling, Pushing
<1> QED
  BY <1>1, <1>3 DEF ClientInv

\* To a request for the blob at position p, or for the manifest.
LEMMA PushGo ==
    ASSUME NEW c \in Client, Types, ClientInv(c), Grows, Typed', job[c].kind = "push",
           NEW to \in Pushing, Goto(c, to), UNCHANGED <<token, since, blame, got>>,
           NEW p \in Nat, pos' = [pos EXCEPT ![c] = p],
           to # "put manifest" => p \in 1..Len(Contents[job[c].image])
                                  /\ \A k \in 1..(p - 1) : Contents[job[c].image][k] \in blobs',
           to = "put manifest" => Range(Contents[job[c].image]) \subseteq blobs'
    PROVE  Types' /\ ClientInv(c)' /\ \A d \in Client \ {c} : Same(d)
<1>0. /\ to \in Requests \cup {"done"}
      /\ got' = [got EXCEPT ![c] = got[c]] /\ got[c] \in Gotten
  BY Unmoved DEF Pushing, Requests
<1>1. /\ Types' /\ \A d \in Client \ {c} : Same(d)
      /\ TokenInv(c)' /\ FailInv(c)' /\ since'[c] <= Len(history') /\ pc'[c] = to /\ pos'[c] = p
  BY <1>0, GoKeeps
<1>2. job' = job
  BY DEF Grows
<1>3. KindInv(c)' /\ PullInv(c)'
  BY <1>1, <1>2 DEF KindInv, PullInv, Pushing
<1>4. PushInv(c)'
  BY <1>1, <1>2 DEF PushInv, Pushing, Complete
<1> QED
  BY <1>1, <1>3, <1>4 DEF ClientInv

\* A pull that has g may go on with the request `to', for the blob at position p, or be done.
PullTo(c, to, p, g) ==
    \/ /\ to = "get listed" /\ g.manifest \in List /\ NamedSince(c, g.manifest)
       /\ \A i \in Images(g.manifest) : Complete(i)
    \/ /\ to \in {"get blob", "done"} /\ g.manifest \in Image
       /\ \E l \in Image \cup List : g.manifest \in Images(l) /\ NamedSince(c, l)
       /\ \/ /\ to = "get blob" /\ Complete(g.manifest) /\ p \in 1..Len(Contents[g.manifest])
             /\ g.blobs = [k \in 1..(p - 1) |-> Contents[g.manifest][k]]
          \/ to = "done" /\ g.blobs = Contents[g.manifest]

\* To a request for the blob at position p of manifest m, of a manifest in the list m, or to
\* the end of the pull.
LEMMA PullGo ==
    ASSUME NEW c \in Client, Types, ClientInv(c), Grows, Typed', job[c].kind = "pull",
           NEW to \in Pulling \cup {"done"}, Goto(c, to), UNCHANGED <<token, since, blame>>,
           NEW p \in Nat, pos' = [pos EXCEPT ![c] = p],
           NEW g \in Gotten, got' = [got EXCEPT ![c] = g],
           PullTo(c, to, p, g)
    PROVE  Types' /\ ClientInv(c)' /\ \A d \in Client \ {c} : Same(d)
<1>0. to \in Requests \cup {"done"}
  BY DEF Pulling, Requests
<1>1. /\ Types' /\ \A d \in Client \ {c} : Same(d)
      /\ TokenInv(c)' /\ FailInv(c)' /\ since'[c] <= Len(history') /\ pc'[c] = to /\ pos'[c] = p
      /\ got'[c] = g /\ since'[c] = since[c]
  BY <1>0, GoKeeps
<1>2. job' = job /\ blobs \subseteq blobs'
  BY DEF Grows
<1>3. \A l : (\E n \in DOMAIN history : n >= since[c] /\ history[n] = l)
               => \E n \in DOMAIN history' : n >= since[c] /\ history'[n] = l
  BY DEF Grows
<1>4. KindInv(c)' /\ PushInv(c)'
  BY <1>1, <1>2 DEF KindInv, PushInv, Pulling
<1>5. PullInv(c)'
  <2>1. to = "get listed" =>
            /\ g.manifest \in List
            /\ \E n \in DOMAIN history' : n >= since[c] /\ history'[n] = g.manifest
            /\ \A i \in Images(g.manifest) : Range(Contents[i]) \subseteq blobs'
    BY <1>2, <1>3 DEF PullTo, NamedSince, Complete
  <2>2. to # "get listed" =>
            /\ g.manifest \in Image
            /\ \E l \in Image \cup List : /\ g.manifest \in Images(l)
                                         /\ \E n \in DOMAIN history' : n >= since[c] /\ history'[n] = l
    BY <1>3 DEF PullTo, NamedSince
  <2>3. to = "get blob" =>
            /\ Range(Contents[g.manifest]) \subseteq blobs' /\ p \in 1..Len(Contents[g.manifest])
            /\ g.blobs = [k \in 1..(p - 1) |-> Contents[g.manifest][k]]
    BY <1>2 DEF PullTo, Complete
  <2>4. to = "done" => g.blobs = Contents[g.manifest]
    BY DEF PullTo
  <2> QED
    BY <1>1, <2>1, <2>2, <2>3, <2>4 DEF PullInv, NamedSince, Complete
<1> QED
  BY <1>1, <1>4, <1>5 DEF ClientInv

-------------------------------------------------------------------------------
(* The actions of a job.                                                   *)

LEMMA BeginKeeps == ASSUME NEW c \in Client, Inv, Begin(c) PROVE Inv'
<1>0. Types /\ NamedInv /\ ClientInv(c)
  BY DEF Inv
<1> DEFINE to == CASE job[c].kind = "push" -> "probe"
                   [] job[c].kind = "pull" -> "get manifest"
                   [] job[c].kind = "login" -> "verify"
<1>1. /\ to \in Requests /\ (to = "probe" => job[c].kind = "push")
      /\ (to = "get manifest" => job[c].kind = "pull") /\ (to = "verify" => job[c].kind # "pull")
      /\ to \in {"probe", "get manifest", "verify"}
  BY <1>0, JobFacts DEF Requests
<1>2. /\ pc' = [pc EXCEPT ![c] = to] /\ try' = [try EXCEPT ![c] = "first"]
      /\ since' = [since EXCEPT ![c] = Len(history)]
      /\ UNCHANGED <<scheme, blobs, named, history, job, token, pos, got, blame>>
  BY DEF Begin, Goto, registry
<1> HIDE DEF to
<1>3. Len(history) \in Nat
  BY <1>0, HistoryLength
<1>4. Types'
  BY <1>0, <1>1, <1>2, <1>3 DEF Types
<1>5. Grows /\ NamedInv'
  BY <1>0, <1>2, Grow0, NamedKeeps
<1>6. /\ pc'[c] = to /\ try'[c] = "first" /\ since'[c] = Len(history)
      /\ \A d \in Client \ {c} : Same(d)
  BY <1>0, <1>2 DEF Types, Same
<1>7. KindInv(c)' /\ PushInv(c)' /\ TokenInv(c)' /\ FailInv(c)'
  BY <1>1, <1>2, <1>6 DEF KindInv, PushInv, TokenInv, FailInv
<1>8. PullInv(c)'
  <2>1. since'[c] <= Len(history')
    BY <1>2, <1>3, <1>6
  <2> QED BY <1>1, <1>6, <2>1 DEF PullInv
<1> QED
  BY <1>4, <1>5, <1>6, <1>7, <1>8, Assemble DEF ClientInv

\* A step of a job that leaves the registry alone.
LEMMA QuietKeeps ==
    ASSUME NEW c \in Client, Inv, UNCHANGED <<registry, job>>,
           Grows /\ Typed' => Types' /\ ClientInv(c)' /\ \A d \in Client \ {c} : Same(d)
    PROVE  Inv'
<1>1. Types /\ NamedInv
  BY DEF Inv
<1>2. Grows /\ NamedInv' /\ Typed'
  BY <1>1, Grow0, NamedKeeps, StillTyped DEF registry
<1> QED
  BY <1>2, Assemble

\* A failure that leaves it alone.
LEMMA FailKeeps ==
    ASSUME NEW c \in Client, Inv, UNCHANGED <<registry, job>>,
           NEW reason \in SUBSET {"rights", "not found", "request", "expired"}, FailFor(c, reason),
           reason # {} \/ blame[c] # {} \/ Excuse(c)
    PROVE  Inv'
<1>1. Types /\ ClientInv(c) /\ scheme \in Scheme
  BY DEF Inv, Types
<1>2. Grows /\ Typed' => Types' /\ ClientInv(c)' /\ \A d \in Client \ {c} : Same(d)
  BY <1>1, FailForKeeps DEF Typed
<1> QED
  BY <1>2, QuietKeeps

\* The requests that one step may lead to are one blob after the other.
LEMMA Position ==
    ASSUME NEW c \in Client, Types, ClientInv(c), pc[c] \in {"head", "post", "put"}
    PROVE  /\ job[c].kind = "push" /\ job[c].image \in Image
           /\ pos[c] \in 1..Len(Contents[job[c].image])
           /\ \A k \in 1..(pos[c] - 1) : Contents[job[c].image][k] \in blobs
BY JobFacts DEF ClientInv, KindInv, PushInv

\* With a blob there, the step to the next one or to the manifest.
LEMMA UploadGo ==
    ASSUME NEW c \in Client, Types, ClientInv(c), Grows, Typed', pc[c] \in {"head", "put"},
           Blob(c, job[c].image) \in blobs', UNCHANGED <<token, got, since, blame>>,
           NextBlob(c, job[c].image, "head", "put manifest")
    PROVE  Types' /\ ClientInv(c)' /\ \A d \in Client \ {c} : Same(d)
<1> DEFINE i == job[c].image
<1>1. /\ job[c].kind = "push" /\ i \in Image /\ pos[c] \in 1..Len(Contents[i])
      /\ \A k \in 1..(pos[c] - 1) : Contents[i][k] \in blobs
  BY Position
<1>2. Len(Contents[i]) \in Nat /\ DOMAIN Contents[i] = 1..Len(Contents[i]) /\ blobs \subseteq blobs'
  BY <1>1, ContentsFacts DEF Grows
<1> DEFINE p == pos[c]
           len == Len(Contents[i])
<1>3. /\ p < len => /\ p + 1 \in Nat /\ p + 1 \in 1..len
                    /\ \A k \in 1..((p + 1) - 1) : Contents[i][k] \in blobs'
      /\ ~(p < len) => \A k \in 1..len : Contents[i][k] \in blobs'
  <2>1. /\ p \in 1..len /\ len \in Nat /\ \A k \in 1..(p - 1) : Contents[i][k] \in blobs'
        /\ Contents[i][p] \in blobs'
    BY <1>1, <1>2 DEF Blob
  <2> HIDE DEF p, len, i
  <2> QED BY <2>1, NextPosition
<1>4. CASE p < len
  <2> DEFINE q == p + 1
  <2>1. /\ q \in Nat /\ q \in 1..len /\ \A k \in 1..(q - 1) : Contents[i][k] \in blobs'
        /\ Goto(c, "head") /\ pos' = [pos EXCEPT ![c] = q]
    BY <1>3, <1>4 DEF NextBlob
  <2> HIDE DEF q
  <2> QED
    BY <1>1, <2>1, PushGo DEF Pushing
<1>5. CASE ~(p < len)
  <2>1. Goto(c, "put manifest") /\ pos' = [pos EXCEPT ![c] = p] /\ p \in Nat
    BY <1>5, Unmoved DEF NextBlob
  <2>2. Range(Contents[i]) \subseteq blobs'
    BY <1>2, <1>3, <1>5 DEF Range
  <2> HIDE DEF p
  <2> QED
    BY <1>1, <2>1, <2>2, PushGo DEF Pushing
<1> QED
  BY <1>4, <1>5

LEMMA DeniedKeeps == ASSUME NEW c \in Client, Inv, Denied(c) PROVE Inv'
<1>0. Types /\ ClientInv(c) /\ UNCHANGED <<registry, job>> /\ Unauthorised(c)
  BY DEF Inv, Denied
<1>1. CASE pc[c] = "probe" /\ Goto(c, "verify") /\ Proceed(c)
  <2>1. UNCHANGED <<token, since, blame>> /\ UNCHANGED <<pos, got>> /\ job[c].kind = "push"
    BY <1>0, <1>1 DEF Proceed, ClientInv, KindInv
  <2>2. "verify" \in Requests \cup {"done"} /\ "verify" \notin Pulling \cup Pushing
    BY DEF Requests, Pulling, Pushing
  <2>3. Grows /\ Typed' => Types' /\ ClientInv(c)' /\ \A d \in Client \ {c} : Same(d)
    BY <1>0, <1>1, <2>1, <2>2, PlainGo
  <2> QED BY <1>0, <2>3, QuietKeeps
<1>2. CASE pc[c] = "head" /\ Goto(c, "post") /\ Proceed(c)
  <2>1. /\ job[c].kind = "push" /\ pos[c] \in 1..Len(Contents[job[c].image])
        /\ \A k \in 1..(pos[c] - 1) : Contents[job[c].image][k] \in blobs
    BY <1>0, <1>2, Position
  <2>2. /\ UNCHANGED <<token, since, blame, got>> /\ pos' = [pos EXCEPT ![c] = pos[c]] /\ pos[c] \in Nat
    BY <1>0, <1>2, Unmoved DEF Proceed
  <2>3. Grows /\ Typed' => Types' /\ ClientInv(c)' /\ \A d \in Client \ {c} : Same(d)
    <3> SUFFICES ASSUME Grows, Typed' PROVE Types' /\ ClientInv(c)' /\ \A d \in Client \ {c} : Same(d)
      OBVIOUS
    <3>1. \A k \in 1..(pos[c] - 1) : Contents[job[c].image][k] \in blobs'
      BY <2>1 DEF Grows
    <3> QED BY <1>0, <1>2, <2>1, <2>2, <3>1, PushGo DEF Pushing
  <2> QED BY <1>0, <2>3, QuietKeeps
<1>3. CASE FailFor(c, IF Entitled(c, Scope(c)) THEN NoReason ELSE {"rights"})
  <2>1. CASE Entitled(c, Scope(c))
    <3>1. FailFor(c, {})
      BY <1>3, <2>1 DEF NoReason
    <3>2. blame[c] # {} \/ Excuse(c)
      BY <1>0, <2>1, RefusedForAReason DEF ClientInv
    <3> QED BY <1>0, <3>1, <3>2, FailKeeps
  <2>2. CASE ~Entitled(c, Scope(c))
    BY <1>0, <1>3, <2>2, FailKeeps
  <2> QED BY <2>1, <2>2
<1> QED
  BY <1>1, <1>2, <1>3 DEF Denied

LEMMA PingKeeps == ASSUME NEW c \in Client, Inv, Ping(c) PROVE Inv'
<1>0. Types /\ ClientInv(c) /\ UNCHANGED <<registry, job>> /\ UNCHANGED <<token, since, blame>> /\ UNCHANGED got
  BY DEF Inv, Ping
<1>1. ASSUME NEW to \in {"verify", "done"}, Goto(c, to), UNCHANGED pos, job[c].kind # "pull"
      PROVE  Inv'
  <2>1. to \in Requests \cup {"done"} /\ to \notin Pulling \cup Pushing /\ UNCHANGED <<pos, got>>
        /\ to # "probe" /\ to # "get manifest"
    BY <1>0, <1>1 DEF Requests, Pulling, Pushing
  <2>2. Grows /\ Typed' => Types' /\ ClientInv(c)' /\ \A d \in Client \ {c} : Same(d)
    BY <1>0, <1>1, <2>1, PlainGo
  <2> QED BY <1>0, <2>2, QuietKeeps
<1>2. CASE Passes(c, "probe") /\ Goto(c, "verify") /\ UNCHANGED pos
  <2>1. job[c].kind # "pull"
    BY <1>0, <1>2 DEF Passes, ClientInv, KindInv
  <2> QED BY <1>1, <1>2, <2>1
<1>3. CASE Passes(c, "verify") /\ job[c].kind = "login" /\ Goto(c, "done") /\ UNCHANGED pos
  BY <1>1, <1>3
<1>4. CASE /\ Passes(c, "verify") /\ job[c].kind = "push"
           /\ Goto(c, "head") /\ pos' = [pos EXCEPT ![c] = 1]
  <2>1. Len(Contents[job[c].image]) \in Nat \ {0}
    BY <1>0, JobFacts, ContentsFacts
  <2>2. 1 \in 1..Len(Contents[job[c].image]) /\ 1..(1 - 1) = {}
    BY <2>1
  <2>3. UNCHANGED <<token, since, blame, got>>
    BY <1>0
  <2>4. Grows /\ Typed' => Types' /\ ClientInv(c)' /\ \A d \in Client \ {c} : Same(d)
    BY <1>0, <1>4, <2>2, <2>3, PushGo DEF Pushing
  <2> QED BY <1>0, <2>4, QuietKeeps
<1> QED
  BY <1>2, <1>3, <1>4 DEF Ping

LEMMA HeadBlobKeeps == ASSUME NEW c \in Client, Inv, HeadBlob(c) PROVE Inv'
<1>0. /\ Types /\ ClientInv(c) /\ UNCHANGED <<registry, job>> /\ UNCHANGED <<token, got, since, blame>>
      /\ pc[c] = "head" /\ blobs' = blobs
  BY DEF Inv, HeadBlob, Passes, registry
<1>1. CASE Blob(c, job[c].image) \in blobs /\ NextBlob(c, job[c].image, "head", "put manifest")
  <2>1. Grows /\ Typed' => Types' /\ ClientInv(c)' /\ \A d \in Client \ {c} : Same(d)
    BY <1>0, <1>1, UploadGo
  <2> QED BY <1>0, <2>1, QuietKeeps
<1>2. CASE Goto(c, "post") /\ UNCHANGED pos
  <2>1. /\ job[c].kind = "push" /\ pos[c] \in 1..Len(Contents[job[c].image])
        /\ \A k \in 1..(pos[c] - 1) : Contents[job[c].image][k] \in blobs'
    BY <1>0, Position
  <2>2. UNCHANGED <<token, since, blame, got>> /\ pos' = [pos EXCEPT ![c] = pos[c]] /\ pos[c] \in Nat
    BY <1>0, <1>2, Unmoved
  <2>3. Grows /\ Typed' => Types' /\ ClientInv(c)' /\ \A d \in Client \ {c} : Same(d)
    BY <1>0, <1>2, <2>1, <2>2, PushGo DEF Pushing
  <2> QED BY <1>0, <2>3, QuietKeeps
<1> QED
  BY <1>1, <1>2 DEF HeadBlob

LEMMA PostKeeps == ASSUME NEW c \in Client, Inv, Post(c) PROVE Inv'
<1>0. /\ Types /\ ClientInv(c) /\ UNCHANGED <<registry, job>>
      /\ pc[c] = "post" /\ blobs' = blobs /\ Goto(c, "put")
  BY DEF Inv, Post, Passes, registry
<1>1. /\ job[c].kind = "push" /\ pos[c] \in 1..Len(Contents[job[c].image])
      /\ \A k \in 1..(pos[c] - 1) : Contents[job[c].image][k] \in blobs'
  BY <1>0, Position
<1>2. UNCHANGED <<token, since, blame, got>> /\ pos' = [pos EXCEPT ![c] = pos[c]] /\ pos[c] \in Nat
  BY <1>0, Unmoved DEF Post
<1>3. Grows /\ Typed' => Types' /\ ClientInv(c)' /\ \A d \in Client \ {c} : Same(d)
  BY <1>0, <1>1, <1>2, PushGo DEF Pushing
<1> QED
  BY <1>0, <1>3, QuietKeeps

\* With one more blob in the registry, and nothing named.
LEMMA PutKeeps == ASSUME NEW c \in Client, Inv, Put(c) PROVE Inv'
<1>0. /\ Types /\ ClientInv(c) /\ NamedInv /\ pc[c] = "put"
      /\ blobs' = blobs \cup {Blob(c, job[c].image)} /\ NextBlob(c, job[c].image, "head", "put manifest")
      /\ UNCHANGED <<scheme, job, history>> /\ UNCHANGED <<named, history>>
      /\ UNCHANGED <<token, got, since, blame>>
  BY DEF Inv, Put, Passes
<1>1. Grows /\ NamedInv' /\ Typed'
  BY <1>0, Grow0, NamedKeeps, StillTyped
<1>2. Types' /\ ClientInv(c)' /\ \A d \in Client \ {c} : Same(d)
  BY <1>0, <1>1, UploadGo
<1> QED
  BY <1>1, <1>2, Assemble

\* The manifest is last: all of its blobs are there.
LEMMA ManifestNamed ==
    ASSUME NEW c \in Client, Inv, pc[c] = "put manifest", Name(job[c].image),
           UNCHANGED <<scheme, job>>, blobs' = blobs
    PROVE  Grows /\ NamedInv' /\ Typed'
<1>0. Types /\ ClientInv(c) /\ NamedInv /\ blobs \subseteq blobs'
  BY DEF Inv
<1>1. job[c].image \in Image /\ Images(job[c].image) = {job[c].image}
  BY <1>0, JobFacts, ImagesFacts
<1>2. Range(Contents[job[c].image]) \subseteq blobs'
  BY <1>0 DEF ClientInv, PushInv, Complete
<1>3. NamedInv'
  BY <1>0, <1>1, <1>2, NamedAnew
<1>4. Grows /\ history' \in Seq(Image \cup List)
  BY <1>0, <1>1, GrowNamed
<1>5. Typed'
  BY <1>1, <1>4 DEF Typed, Name
<1> QED
  BY <1>3, <1>4, <1>5

LEMMA PutManifestKeeps == ASSUME NEW c \in Client, Inv, PutManifest(c) PROVE Inv'
<1>0. /\ Types /\ ClientInv(c) /\ pc[c] = "put manifest" /\ Goto(c, "done")
      /\ Name(job[c].image) /\ UNCHANGED <<scheme, job>> /\ blobs' = blobs
      /\ UNCHANGED <<token, since, blame>> /\ UNCHANGED <<pos, got>>
  BY DEF Inv, PutManifest, Passes
<1>1. Grows /\ NamedInv' /\ Typed'
  BY <1>0, ManifestNamed
<1>2. job[c].kind = "push"
  BY <1>0 DEF ClientInv, KindInv
<1>3. "done" \in Requests \cup {"done"} /\ "done" \notin Pulling \cup Pushing
  BY DEF Pulling, Pushing
<1>4. Types' /\ ClientInv(c)' /\ \A d \in Client \ {c} : Same(d)
  BY <1>0, <1>1, <1>2, <1>3, PlainGo
<1> QED
  BY <1>1, <1>4, Assemble

\* What the tag names now has been named since c began.
LEMMA NamedNow ==
    ASSUME NEW c \in Client, Types, ClientInv(c), NamedInv, named # NoImage
    PROVE  NamedSince(c, named)
<1>1. Len(history) \in Nat /\ DOMAIN history = 1..Len(history) /\ history \in Seq(Image \cup List)
  BY HistoryLength DEF Types
<1>2. history # <<>> /\ history[Len(history)] = named /\ since[c] <= Len(history)
  BY DEF NamedInv, ClientInv, PullInv
<1>3. Len(history) \in DOMAIN history
  BY <1>1, <1>2
<1> QED
  BY <1>2, <1>3 DEF NamedSince

\* From a manifest that is complete to its first blob.
LEMMA FetchGo ==
    ASSUME NEW c \in Client, Inv, job[c].kind = "pull", NEW m \in Image, Fetch(c, m), Complete(m),
           NEW l \in Image \cup List, m \in Images(l), NamedSince(c, l),
           UNCHANGED <<token, since, blame>>, UNCHANGED <<registry, job>>
    PROVE  Inv'
<1>0. Types /\ ClientInv(c)
  BY DEF Inv
<1> DEFINE g == [manifest |-> m, blobs |-> <<>>]
<1>1. /\ Goto(c, "get blob") /\ pos' = [pos EXCEPT ![c] = 1] /\ got' = [got EXCEPT ![c] = g]
  BY DEF Fetch
<1>2. g \in Gotten /\ g.manifest = m /\ g.blobs = <<>>
  BY NothingTyped DEF Nothing, Gotten
<1>3. Len(Contents[m]) \in Nat \ {0}
  BY ContentsFacts
<1>4. 1 \in 1..Len(Contents[m]) /\ <<>> = [k \in 1..(1 - 1) |-> Contents[m][k]]
  BY <1>3
<1> HIDE DEF g
<1>5. PullTo(c, "get blob", 1, g)
  BY <1>2, <1>4 DEF PullTo
<1>6. Grows /\ Typed' => Types' /\ ClientInv(c)' /\ \A d \in Client \ {c} : Same(d)
  BY <1>0, <1>1, <1>2, <1>5, PullGo DEF Pulling
<1> QED
  BY <1>6, QuietKeeps

LEMMA GetManifestKeeps == ASSUME NEW c \in Client, Inv, GetManifest(c) PROVE Inv'
<1>0. /\ Types /\ ClientInv(c) /\ NamedInv /\ UNCHANGED <<registry, job>>
      /\ pc[c] = "get manifest"
  BY DEF Inv, GetManifest, Passes
<1>1. job[c].kind = "pull"
  BY <1>0 DEF ClientInv, KindInv
<1>2. CASE named \in Image /\ Fetch(c, named) /\ UNCHANGED <<token, since, blame>>
  <2>1. named \in Images(named) /\ Complete(named)
    BY <1>0, <1>2, ImagesFacts DEF NamedInv, NamedIsComplete, Complete
  <2>2. NamedSince(c, named)
    BY <1>0, <1>2, NamedNow, RegistryAssumption
  <2> QED BY <1>0, <1>1, <1>2, <2>1, <2>2, FetchGo
<1>3. CASE /\ named \in List /\ Selected(named) # {}
           /\ got' = [got EXCEPT ![c] = [manifest |-> named, blobs |-> <<>>]]
           /\ Goto(c, "get listed") /\ UNCHANGED <<token, pos, since, blame>>
  <2> DEFINE g == [manifest |-> named, blobs |-> <<>>]
  <2>1. g \in Gotten /\ g.manifest = named
    BY <1>3, NothingTyped DEF Nothing, Gotten
  <2>2. NamedSince(c, named) /\ \A i \in Images(named) : Complete(i)
    BY <1>0, <1>3, NamedNow, RegistryAssumption DEF NamedInv, NamedIsComplete, Complete
  <2>3. /\ pos' = [pos EXCEPT ![c] = pos[c]] /\ pos[c] \in Nat /\ UNCHANGED <<token, since, blame>>
        /\ got' = [got EXCEPT ![c] = g]
    BY <1>0, <1>3, Unmoved
  <2> HIDE DEF g
  <2>4. PullTo(c, "get listed", pos[c], g)
    BY <1>3, <2>1, <2>2 DEF PullTo
  <2>5. Grows /\ Typed' => Types' /\ ClientInv(c)' /\ \A d \in Client \ {c} : Same(d)
    BY <1>0, <1>1, <1>3, <2>1, <2>3, <2>4, PullGo DEF Pulling
  <2> QED BY <1>0, <2>5, QuietKeeps
<1>4. CASE FailFor(c, {"not found"})
  BY <1>0, <1>4, FailKeeps
<1> QED
  BY <1>2, <1>3, <1>4 DEF GetManifest

LEMMA GetListedKeeps == ASSUME NEW c \in Client, Inv, GetListed(c) PROVE Inv'
<1>0. /\ Types /\ ClientInv(c) /\ UNCHANGED <<registry, job>> /\ UNCHANGED <<token, since, blame>>
      /\ pc[c] = "get listed"
  BY DEF Inv, GetListed, Passes
<1> DEFINE l == got[c].manifest
<1>1. PICK i \in Selected(l) : Fetch(c, i)
  BY DEF GetListed
<1>2. /\ job[c].kind = "pull" /\ l \in List /\ NamedSince(c, l)
      /\ \A k \in Images(l) : Complete(k)
  BY <1>0 DEF ClientInv, KindInv, PullInv
<1>3. i \in Image /\ i \in Images(l) /\ Complete(i)
  BY <1>2, ImagesFacts
<1> HIDE DEF l
<1> QED
  BY <1>0, <1>1, <1>2, <1>3, FetchGo

\* A manifest that has been complete stays so: no blob is missing.
LEMMA GetBlobKeeps == ASSUME NEW c \in Client, Inv, GetBlob(c) PROVE Inv'
<1>0. /\ Types /\ ClientInv(c) /\ UNCHANGED <<registry, job>> /\ pc[c] = "get blob"
  BY DEF Inv, GetBlob, Passes
<1> DEFINE i == got[c].manifest
           p == pos[c]
           len == Len(Contents[i])
           b == got[c].blobs
<1>1. /\ job[c].kind = "pull" /\ i \in Image /\ Complete(i) /\ p \in 1..len
      /\ \E l \in Image \cup List : i \in Images(l) /\ NamedSince(c, l)
      /\ b = [k \in 1..(p - 1) |-> Contents[i][k]]
  BY <1>0 DEF ClientInv, KindInv, PullInv
<1>2. /\ Contents[i] \in Seq(AllBlobs) /\ len \in Nat /\ DOMAIN Contents[i] = 1..len
      /\ Contents[i] = [k \in 1..len |-> Contents[i][k]]
  BY <1>1, ContentsFacts
<1>3. Contents[i][p] \in Range(Contents[i]) /\ Contents[i][p] \in AllBlobs
  BY <1>1, <1>2 DEF Range
<1>4. Blob(c, i) \in blobs
  BY <1>1, <1>3 DEF Blob, Complete
<1> DEFINE e == Append(b, Contents[i][p])
           g == [got[c] EXCEPT !.blobs = e]
<1>5. /\ got' = [got EXCEPT ![c] = g] /\ NextBlob(c, i, "get blob", "done")
      /\ UNCHANGED <<token, since, blame>>
  BY <1>0, <1>4 DEF GetBlob, Blob, Types
<1>6. b \in Seq(AllBlobs) /\ got[c] \in Gotten
  BY <1>0 DEF Types, Gotten
<1>7. e \in Seq(AllBlobs)
  BY <1>3, <1>6
<1>8. g \in Gotten /\ g.manifest = i /\ g.blobs = e
  BY <1>6, <1>7 DEF Gotten
<1>9. e = [k \in 1..p |-> Contents[i][k]]
  <2> HIDE DEF i, p, len, b
  <2>1. p \in Nat \ {0} /\ (p - 1) + 1 = p /\ p - 1 \in Nat
    BY <1>1, <1>2
  <2>2. Len(b) = p - 1
    BY <1>1, <1>6, <2>1
  <2>3. e = [k \in 1..p |-> IF k = p THEN Contents[i][p] ELSE b[k]]
    BY <1>6, <2>1, <2>2
  <2>4. \A k \in 1..p : k # p => k \in 1..(p - 1)
    BY <2>1
  <2> QED BY <1>1, <2>3, <2>4
<1>10. CASE p < len
  <2> DEFINE q == p + 1
  <2>1. Goto(c, "get blob") /\ pos' = [pos EXCEPT ![c] = q]
    BY <1>5, <1>10 DEF NextBlob
  <2>2. q \in Nat /\ q \in 1..len /\ q - 1 = p
    <3> HIDE DEF p, len
    <3> QED BY <1>1, <1>2, <1>10
  <2>3. g.blobs = [k \in 1..(q - 1) |-> Contents[i][k]]
    BY <1>8, <1>9, <2>2
  <2> HIDE DEF q, g, e
  <2>4. PullTo(c, "get blob", q, g)
    BY <1>1, <1>8, <2>2, <2>3 DEF PullTo
  <2>5. Grows /\ Typed' => Types' /\ ClientInv(c)' /\ \A d \in Client \ {c} : Same(d)
    BY <1>0, <1>1, <1>5, <1>8, <2>1, <2>2, <2>4, PullGo DEF Pulling
  <2> QED BY <1>0, <2>5, QuietKeeps
<1>11. CASE ~(p < len)
  <2>1. Goto(c, "done") /\ pos' = [pos EXCEPT ![c] = p] /\ p \in Nat
    BY <1>0, <1>5, <1>11, Unmoved DEF NextBlob
  <2>2. p = len
    <3> HIDE DEF p, len
    <3> QED BY <1>1, <1>2, <1>11
  <2>3. g.blobs = Contents[i]
    BY <1>2, <1>8, <1>9, <2>2
  <2> HIDE DEF g, e, p
  <2>4. PullTo(c, "done", p, g)
    BY <1>1, <1>8, <2>3 DEF PullTo
  <2>5. Grows /\ Typed' => Types' /\ ClientInv(c)' /\ \A d \in Client \ {c} : Same(d)
    BY <1>0, <1>1, <1>5, <1>8, <2>1, <2>4, PullGo DEF Pulling
  <2> QED BY <1>0, <2>5, QuietKeeps
<1> QED
  BY <1>10, <1>11

\* Whatever the registry has done with a request that has failed for the client.
LEMMA RequestFailsKeeps == ASSUME NEW c \in Client, Inv, RequestFails(c) PROVE Inv'
<1>0. /\ Types /\ ClientInv(c) /\ NamedInv /\ UNCHANGED <<scheme, job>> /\ scheme \in Scheme
  BY DEF Inv, RequestFails, Types
<1>1. Grows /\ NamedInv' /\ Typed'
  <2>1. CASE UNCHANGED <<blobs, named, history>>
    BY <1>0, <2>1, Grow0, NamedKeeps, StillTyped
  <2>2. CASE blobs' = blobs \cup {Blob(c, job[c].image)} /\ UNCHANGED <<named, history>>
    BY <1>0, <2>2, Grow0, NamedKeeps, StillTyped
  <2>3. CASE Passes(c, "put manifest") /\ Name(job[c].image) /\ UNCHANGED blobs
    BY <1>0, <2>3, ManifestNamed DEF Passes
  <2> QED BY <2>1, <2>2, <2>3 DEF RequestFails
<1>2. CASE FailFor(c, {"request"})
  <2>1. /\ ClientInv(c)' /\ \A d \in Client \ {c} : Same(d)
        /\ (scheme \in Scheme /\ named' \in Image \cup List \cup {NoImage}
               /\ history' \in Seq(Image \cup List)) => Types'
    BY <1>0, <1>1, <1>2, FailForKeeps
  <2>2. Types'
    BY <1>0, <1>1, <2>1 DEF Typed
  <2> QED BY <1>1, <2>1, <2>2, Assemble
<1>3. CASE pc[c] = "head" /\ Goto(c, "post") /\ Proceed(c)
  <2>1. /\ job[c].kind = "push" /\ pos[c] \in 1..Len(Contents[job[c].image])
        /\ \A k \in 1..(pos[c] - 1) : Contents[job[c].image][k] \in blobs'
    BY <1>0, <1>1, <1>3, Position DEF Grows
  <2>2. /\ UNCHANGED <<token, since, blame, got>> /\ pos' = [pos EXCEPT ![c] = pos[c]] /\ pos[c] \in Nat
    BY <1>0, <1>3, Unmoved DEF Proceed
  <2>3. Types' /\ ClientInv(c)' /\ \A d \in Client \ {c} : Same(d)
    BY <1>0, <1>1, <1>3, <2>1, <2>2, PushGo DEF Pushing
  <2> QED BY <1>1, <2>3, Assemble
<1> QED
  BY <1>2, <1>3 DEF RequestFails

LEMMA PublishKeeps == ASSUME NEW m \in Image \cup List, Inv, Publish(m) PROVE Inv'
<1>0. /\ Types /\ NamedInv /\ UNCHANGED <<scheme, job>> /\ Name(m) /\ blobs \subseteq blobs'
      /\ \A i \in Images(m) : Range(Contents[i]) \subseteq blobs'
      /\ UNCHANGED <<pc, try, token, pos, got, since, blame>>
  BY DEF Inv, Publish
<1>1. Grows /\ history' \in Seq(Image \cup List) /\ NamedInv'
  BY <1>0, GrowNamed, NamedAnew
<1>2. Types'
  BY <1>0, <1>1 DEF Types, Name
<1>3. ASSUME NEW d \in Client PROVE ClientInv(d)'
  <2>1. Same(d) /\ ClientInv(d)
    BY <1>0 DEF Same, Inv
  <2> QED BY <1>0, <1>1, <2>1, SameKeeps
<1> QED
  BY <1>1, <1>2, <1>3 DEF Inv

LEMMA StepInv == ASSUME Inv, [Next]_vars PROVE Inv'
<1>1. ASSUME NEW c \in Client, Begin(c) \/ Request(c) \/ RequestFails(c) \/ Expire(c) PROVE Inv'
  BY <1>1, BeginKeeps, ChallengeKeeps, ObtainTokenKeeps, DeniedKeeps, PingKeeps, HeadBlobKeeps, PostKeeps,
     PutKeeps, PutManifestKeeps, GetManifestKeeps, GetListedKeeps, GetBlobKeeps, RequestFailsKeeps,
     ExpireKeeps DEF Request
<1>2. CASE UNCHANGED vars
  <2>1. Types' /\ Types
    BY <1>2 DEF vars, registry, Inv, Types
  <2>2. Grows /\ NamedInv'
    BY <1>2, <2>1, Grow0, NamedKeeps DEF vars, registry, Inv
  <2>3. ASSUME NEW d \in Client PROVE ClientInv(d)'
    <3>1. Same(d) /\ ClientInv(d)
      BY <1>2 DEF vars, Same, Inv
    <3> QED BY <2>1, <2>2, <3>1, SameKeeps
  <2> QED BY <2>1, <2>2, <2>3 DEF Inv
<1> QED
  BY <1>1, <1>2, PublishKeeps DEF Next

LEMMA Invariant == Spec => []Inv
<1>1. Init => Inv
  BY InitInv
<1>2. Inv /\ [Next]_vars => Inv'
  BY StepInv
<1> QED
  BY <1>1, <1>2, PTL DEF Spec

-------------------------------------------------------------------------------

\* No tag ever names an image of which the registry lacks a blob: push_image's manifest
\* comes last, whatever fails or is uploaded by others in between.
THEOREM NamedImagesComplete == Spec => []NamedIsComplete
<1>1. Inv => NamedIsComplete
  BY DEF Inv, NamedInv
<1> QED
  BY <1>1, Invariant, PTL

\* A pull returns one image that the tag has named since it began, all blobs in order, for
\* any lists, platforms and publications: pull_image goes by digests after the first request.
THEOREM PullsAreOneImage == Spec => []PulledIsOneImage
<1>1. Inv => PulledIsOneImage
  <2> SUFFICES ASSUME Inv, NEW c \in Client, pc[c] = "done", job[c].kind = "pull"
               PROVE  /\ got[c].manifest \in Image
                      /\ got[c].blobs = Contents[got[c].manifest]
                      /\ \E n \in DOMAIN history : n >= since[c] /\ got[c].manifest \in Images(history[n])
    BY DEF PulledIsOneImage
  <2>1. PullInv(c)
    BY DEF Inv, ClientInv
  <2> QED BY <2>1 DEF PullInv, NamedSince
<1> QED
  BY <1>1, Invariant, PTL

\* A job fails only for a reason that lies outside the client, or because its own password
\* covers the token: the one repetition of _request is enough, and no blob of an image that
\* was named is missing.
THEOREM FailuresHaveReasons == Spec => []FailsForAReason
<1>1. Inv => FailsForAReason
  BY DEF Inv, ClientInv, FailInv, Excuse, FailsForAReason
<1> QED
  BY <1>1, Invariant, PTL
================================================================================
