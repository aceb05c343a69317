------------------------------ MODULE BuildOutput ------------------------------
(***************************************************************************)
(* What a client sees of its build (daemon/handlers.py handle_build_request*)
(* daemon/client.py send_build_request): the handler points sys.stdout and *)
(* sys.stderr, which all threads of the process share, at the connection   *)
(* of its client while the build runs, and puts back afterwards what it    *)
(* found there before; the RUN instructions' output (build/isolation.py)   *)
(* is written to sys.stdout and sys.stderr line by line; and the client    *)
(* reads lines until the response.                                         *)
(***************************************************************************)
EXTENDS Naturals, Sequences, FiniteSets

CONSTANTS
    Build,       \* builds requested: each has a client and a connection of its own
    Console,     \* where the daemon's own stdout and stderr lead
    MaxBuilds,   \* builds running at the same time (max_workers)
    MaxLines,    \* bound: lines a build prints
    MaxUnread    \* bound: messages that fit into a socket's buffer

ASSUME OutputAssumption ==
    /\ Console \notin Build
    /\ MaxBuilds \in Nat \ {0} /\ MaxLines \in Nat /\ MaxUnread \in Nat \ {0}

Stream == {"output", "error"}
Answer == {"success", "failure"}

VARIABLES
    std,       \* std[s]: whose client sys.stdout, or sys.stderr, leads to
    saved,     \* saved[b][s]: old_stdout, or old_stderr, of b's handler
    pc,        \* pc[b]: the next step of b's handler
    held,      \* held[b]: whose writer b's thread has in hand, a line to write
    printed,   \* printed[b]: how many lines with text b has printed
    blanks,    \* blanks[b]: how many blank lines b has printed
    answer,    \* answer[b]: the exit status of b
    wire,      \* wire[b]: messages sent to b's client and not read yet
    client,    \* client[b]: the client reads, knows the exit status, or is gone
    shown,     \* shown[b]: the output b's client has displayed
    overlap    \* (history) two handlers have been between the first of their steps
               \* on the streams and the last

serverVars == <<std, saved, held, printed, blanks, answer>>
outputVars == <<serverVars, pc, wire, client, shown, overlap>>

OutputLine == [by : Build, line : Nat]

-------------------------------------------------------------------------------
(* The handler of b, in a worker thread.                                   *)

Redirecting == {"saveOut", "saveErr", "swapOut", "swapErr", "run", "print", "blank",
                "fail", "restoreOut", "restoreErr"}
Busy == {b \in Build : pc[b] \notin {"none", "over"}}
Streaming == {b \in Build : pc[b] \in Redirecting}

Goto(b, from, to) == pc[b] = from /\ pc' = [pc EXCEPT ![b] = to]

\* The request is refused (tag, paths, arguments, engine), or the streams are next.
Begin(b) ==
    /\ Cardinality(Busy) < MaxBuilds
    /\ \/ /\ Goto(b, "none", "respond")
          /\ answer' = [answer EXCEPT ![b] = "failure"]
          /\ UNCHANGED overlap
       \/ /\ Goto(b, "none", "saveOut")
          /\ overlap' = (overlap \/ Streaming # {})
          /\ UNCHANGED answer
    /\ UNCHANGED <<std, saved, held, printed, blanks, wire, client, shown>>

\* The peer is not authorised: the connection is closed, and nothing is said.
TurnAway(b) ==
    /\ Goto(b, "none", "over")
    /\ UNCHANGED <<serverVars, wire, client, shown, overlap>>

\* old_stdout = sys.stdout; old_stderr = sys.stderr
Save(b) ==
    /\ \/ /\ Goto(b, "saveOut", "saveErr")
          /\ saved' = [saved EXCEPT ![b]["output"] = std["output"]]
       \/ /\ Goto(b, "saveErr", "swapOut")
          /\ saved' = [saved EXCEPT ![b]["error"] = std["error"]]
    /\ UNCHANGED <<std, held, printed, blanks, answer, wire, client, shown, overlap>>

\* sys.stdout = StreamingWriter(..); sys.stderr = StreamingWriter(..)
Swap(b) ==
    /\ \/ Goto(b, "swapOut", "swapErr") /\ std' = [std EXCEPT !["output"] = b]
       \/ Goto(b, "swapErr", "run") /\ std' = [std EXCEPT !["error"] = b]
    /\ UNCHANGED <<saved, held, printed, blanks, answer, wire, client, shown, overlap>>

\* (mutant) a client that has left is not noticed.
NotClosedHere(c) == pc[c] \notin {"none", "over"}

\* The connection is closed at neither end.
Connected(c) == pc[c] \notin {"none", "over"} /\ client[c] = "reading"

\* (mutant) a message that does not fit is dropped.
DeliverIfRoom(c, m) ==
    wire' = IF Connected(c) /\ Len(wire[c]) < MaxUnread
            THEN [wire EXCEPT ![c] = Append(@, m)] ELSE wire

\* A message to the client of c.  With the socket's buffer full sendall waits, for as
\* long as it takes; with the connection closed at either end it raises, and the
\* message is dropped.
Deliver(c, m) ==
    /\ Connected(c) => Len(wire[c]) < MaxUnread
    /\ wire' = IF Connected(c) THEN [wire EXCEPT ![c] = Append(@, m)] ELSE wire

\* A line of a RUN instruction, with text or blank: sys.stdout or sys.stderr is looked
\* up,
Line(b) ==
    /\ printed[b] + blanks[b] < MaxLines
    /\ \E s \in Stream : held' = [held EXCEPT ![b] = std[s]]
    /\ \/ /\ Goto(b, "run", "print")
          /\ printed' = [printed EXCEPT ![b] = @ + 1] /\ UNCHANGED blanks
       \/ /\ Goto(b, "run", "blank")
          /\ blanks' = [blanks EXCEPT ![b] = @ + 1] /\ UNCHANGED printed
    /\ UNCHANGED <<std, saved, answer, wire, client, shown, overlap>>

\* and what has been found is written to: a StreamingWriter sends text to its client,
WriteLine(b) ==
    /\ Goto(b, "print", "run")
    /\ IF held[b] = Console THEN UNCHANGED wire
       ELSE Deliver(held[b], [by |-> b, line |-> printed[b]])
    /\ held' = [held EXCEPT ![b] = Console]
    /\ UNCHANGED <<std, saved, printed, blanks, answer, client, shown, overlap>>

\* but not what text.strip() leaves nothing of.
WriteBlank(b) ==
    /\ Goto(b, "blank", "run")
    /\ held' = [held EXCEPT ![b] = Console]
    /\ UNCHANGED <<std, saved, printed, blanks, answer, wire, client, shown, overlap>>

\* build_image and store_image return, or one of them raises.
Finish(b) ==
    /\ \/ Goto(b, "run", "restoreOut") /\ answer' = [answer EXCEPT ![b] = "success"]
       \/ Goto(b, "run", "fail") /\ answer' = [answer EXCEPT ![b] = "failure"]
    /\ UNCHANGED <<std, saved, held, printed, blanks, wire, client, shown, overlap>>

\* The failure is one more line, sent by output_callback and not by way of sys.stderr.
Fail(b) ==
    /\ Goto(b, "fail", "restoreOut")
    /\ printed' = [printed EXCEPT ![b] = @ + 1]
    /\ Deliver(b, [by |-> b, line |-> printed[b] + 1])
    /\ UNCHANGED <<std, saved, held, blanks, answer, client, shown, overlap>>

\* (mutant) puts the streams back when the build has succeeded.
RestoreOnSuccess(b) ==
    /\ \/ /\ Goto(b, "restoreOut", "restoreErr")
          /\ std' = IF answer[b] = "success" THEN [std EXCEPT !["output"] = saved[b]["output"]] ELSE std
       \/ /\ Goto(b, "restoreErr", "respond")
          /\ std' = [std EXCEPT !["error"] = saved[b]["error"]]
    /\ UNCHANGED <<saved, held, printed, blanks, answer, wire, client, shown, overlap>>

\* finally: sys.stdout = old_stdout; sys.stderr = old_stderr
Restore(b) ==
    /\ \/ /\ Goto(b, "restoreOut", "restoreErr")
          /\ std' = [std EXCEPT !["output"] = saved[b]["output"]]
       \/ /\ Goto(b, "restoreErr", "respond")
          /\ std' = [std EXCEPT !["error"] = saved[b]["error"]]
    /\ UNCHANGED <<saved, held, printed, blanks, answer, wire, client, shown, overlap>>

\* The response is the message without a line number.
Respond(b) ==
    /\ Goto(b, "respond", "close")
    /\ Deliver(b, [by |-> b, line |-> 0])
    /\ UNCHANGED <<serverVars, client, shown, overlap>>

Close(b) ==
    /\ Goto(b, "close", "over")
    /\ UNCHANGED <<serverVars, wire, client, shown, overlap>>

-------------------------------------------------------------------------------
(* The client of b.                                                        *)

\* An output message is displayed, a response ends the command with its status.
Read(b) ==
    /\ client[b] = "reading" /\ wire[b] # <<>>
    /\ LET m == Head(wire[b]) IN
       IF m.line = 0
       THEN client' = [client EXCEPT ![b] = answer[m.by]] /\ UNCHANGED shown
       ELSE shown' = [shown EXCEPT ![b] = Append(@, m)] /\ UNCHANGED client
    /\ wire' = [wire EXCEPT ![b] = Tail(@)]
    /\ UNCHANGED <<serverVars, pc, overlap>>

\* (mutant) a connection that is closed without a response is taken for success.
ReadEndSucceeds(b) ==
    /\ client[b] = "reading" /\ wire[b] = <<>> /\ pc[b] = "over"
    /\ client' = [client EXCEPT ![b] = "success"]
    /\ UNCHANGED <<serverVars, pc, wire, shown, overlap>>

\* "Daemon closed connection unexpectedly"
ReadEnd(b) ==
    /\ client[b] = "reading" /\ wire[b] = <<>> /\ pc[b] = "over"
    /\ client' = [client EXCEPT ![b] = "disconnected"]
    /\ UNCHANGED <<serverVars, pc, wire, shown, overlap>>

\* Nothing has come for `timeout` seconds, or the user has had enough.
Leave(b) ==
    /\ client[b] = "reading"
    /\ client' = [client EXCEPT ![b] = "gone"]
    /\ wire' = [wire EXCEPT ![b] = <<>>]
    /\ UNCHANGED <<serverVars, pc, shown, overlap>>

-------------------------------------------------------------------------------

OutputInit ==
    /\ std = [s \in Stream |-> Console]
    /\ saved = [b \in Build |-> [s \in Stream |-> Console]]
    /\ pc = [b \in Build |-> "none"]
    /\ held = [b \in Build |-> Console]
    /\ printed = [b \in Build |-> 0]
    /\ blanks = [b \in Build |-> 0]
    /\ answer = [b \in Build |-> "none"]
    /\ wire = [b \in Build |-> <<>>]
    /\ client = [b \in Build |-> "reading"]
    /\ shown = [b \in Build |-> <<>>]
    /\ overlap = FALSE

Handle(b) ==
    \/ Save(b) \/ Swap(b) \/ Line(b) \/ WriteLine(b) \/ WriteBlank(b) \/ Finish(b)
    \/ Fail(b) \/ Restore(b) \/ Respond(b) \/ Close(b)

OutputNext ==
    \E b \in Build :
        TurnAway(b) \/ Begin(b) \/ Handle(b) \/ Read(b) \/ ReadEnd(b) \/ Leave(b)

OutputSpec == OutputInit /\ [][OutputNext]_outputVars

\* Threads run, builds end, and the end of a connection is noticed.  Nothing makes a
\* client read: it may be suspended, or its own output may be blocked.
FairOutputSpec ==
    /\ OutputSpec
    /\ \A b \in Build : WF_outputVars(Handle(b)) /\ WF_outputVars(ReadEnd(b))
-------------------------------------------------------------------------------
(* Properties.                                                             *)

Message == [by : Build, line : 0..(MaxLines + 1)]

\* The types; old_stdout and old_stderr are some build's writer or the console, and a
\* build that is to be answered has an exit status.
OutputTypeOK ==
    /\ std \in [Stream -> Build \cup {Console}]
    /\ saved \in [Build -> [Stream -> Build \cup {Console}]]
    /\ pc \in [Build -> Redirecting \cup {"none", "respond", "close", "over"}]
    /\ held \in [Build -> Build \cup {Console}]
    /\ printed \in [Build -> 0..(MaxLines + 1)]
    /\ blanks \in [Build -> 0..MaxLines]
    /\ answer \in [Build -> Answer \cup {"none"}]
    /\ \A b \in Build : pc[b] \in {"respond", "close"} => answer[b] \in Answer
    /\ wire \in [Build -> Seq(Message)]
    /\ client \in [Build -> Answer \cup {"reading", "disconnected", "gone"}]
    /\ shown \in [Build -> Seq(Message)]
    /\ overlap \in BOOLEAN

\* How many of its lines with text b has written, rather than only printed.
Written(b) == IF pc[b] = "print" THEN printed[b] - 1 ELSE printed[b]

AllLines(b) == [n \in 1..Written(b) |-> [by |-> b, line |-> n]]
Response(b) == [by |-> b, line |-> 0]

\* As long as no two builds have redirected the streams at the same time, what every
\* client has displayed and is going to read are all the lines of its own build that are
\* not blank, in the order they were written, the message that says why it failed at the
\* end, and no line of another build; and its response, if it has been sent and not read,
\* comes last.
SoloOutput ==
    ~overlap =>
        \A c \in Build : client[c] # "gone" =>
            shown[c] \o wire[c] \in {AllLines(c), Append(AllLines(c), Response(c))}

\* ... and in between the builds the streams lead to the daemon's own console.
SoloRestores == ~overlap /\ Streaming = {} => \A s \in Stream : std[s] = Console

\* Even when they do overlap, a client that waits gets the exit status of its own build,
\* unless no handler ever had its request, once it has displayed the output it is to get,
\* and when the build is over but for the closing of the connection.
AnsweredTruly ==
    \A c \in Build :
        /\ client[c] = "disconnected" => answer[c] = "none"
        /\ client[c] \in Answer => client[c] = answer[c] /\ pc[c] \in {"close", "over"}

\* The daemon waits for the client of c: it is connected, and has not read the messages
\* that fill the buffer.
WaitsFor(c) ==
    pc[c] \notin {"none", "over"} /\ client[c] = "reading" /\ Len(wire[c]) = MaxUnread

\* Whatever the clients do, every build that has begun comes to its end, unless some
\* client, its own or another one, stays connected for ever without reading what fills
\* the buffer; and its client's command ends too, unless it leaves messages unread.
BuildsEnd ==
    \/ \E c \in Build : <>[]WaitsFor(c)
    \/ <>[](\A b \in Build :
              \/ pc[b] = "none"
              \/ pc[b] = "over" /\ (client[b] = "reading" => wire[b] # <<>>))

\* The daemon gives a client up that does not read: every build comes to an end.
StalledClientsGivenUp == \A b \in Build : pc[b] # "none" ~> pc[b] = "over"

\* Each client displays the output of its own build only.
OutputIsolated == \A c \in Build : \A n \in DOMAIN shown[c] : shown[c][n].by = c
===============================================================================
