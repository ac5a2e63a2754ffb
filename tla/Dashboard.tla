----------------------------- MODULE Dashboard ------------------------------
(***************************************************************************)
(* `inferctl dashboard`: a Bubble Tea program that runs `status --json     *)
(* --watch --events` as a child process, reads what it writes one record   *)
(* at a time, and shows the last frame and the last events                 *)
(* (cmd/inferctl/dashboard.go). The child is any that StatusFeed           *)
(* describes.                                                              *)
(***************************************************************************)
EXTENDS Integers, Sequences, SequencesExt

CONSTANTS
    MaxFrames,    \* bound on the frames the child writes
    MaxBatch,     \* bound on the events of a batch
    EventLimit    \* how many events are shown: 8

ASSUME DashboardAssumption ==
    /\ MaxFrames \in Nat \ {0} /\ MaxBatch \in Nat \ {0} /\ EventLimit \in Nat \ {0}

VARIABLES
    program,      \* of the event loop: running, stopping (in feed.stop), closing, exited
    feed,         \* whether the model has learned of the child: m.feed # nil
    shown, err,   \* m.snapshot and m.events; whether m.err is set
    quitting,     \* whether a QuitMsg is under way
    interrupted,  \* whether it is an InterruptMsg
    command,      \* the command under way: starting, reading, waiting, stopping, message, none
    message,      \* what it will tell the model
    frames, tail, status,    \* the child, as in StatusFeed; status is also none or killed
    stream, got,  \* what the child wrote, and how much of it was scanned
    open, reaped, \* whether the pipe can be read, and whether the child was waited for
    asked,        \* what made the dashboard end: keys and signals (no code reads it)
    exit

vars == << program, feed, shown, err, quitting, interrupted, command, message,
           frames, tail, status, stream, got, open, reaped, asked, exit >>

child == << frames, tail, status, stream >>
model == << feed, shown, err >>

Feed == INSTANCE StatusFeed

Plain(kind)   == [kind |-> kind, frame |-> 0, events |-> << >>]
Frame(n)      == [kind |-> "frame", frame |-> n, events |-> << >>]
Batch(events) == [kind |-> "batch", frame |-> 0, events |-> events]

Init ==
    /\ program = "running" /\ feed = FALSE
    /\ shown = [frame |-> 0, events |-> << >>] /\ err = FALSE
    /\ quitting = FALSE /\ interrupted = FALSE
    /\ command = "starting" /\ message = Plain("none")
    /\ frames = 0 /\ tail = "nothing" /\ status = "none"
    /\ stream = << >> /\ got = 0 /\ open = FALSE /\ reaped = FALSE
    /\ asked = {} /\ exit = 0

-----------------------------------------------------------------------------
(* The child *)

Written == FlattenSeq([i \in DOMAIN stream |-> stream[i].events])

ChildWrites ==
    /\ open
    /\ \/ Feed!SendFrame /\ stream' = Append(stream, Frame(frames'))
       \/ /\ Feed!SendBatch
          /\ \E n \in 1 .. MaxBatch :
               stream' = Append(stream, Batch([i \in 1 .. n |-> Len(Written) + i]))
       \/ Feed!SendError /\ stream' = Append(stream, Plain("error"))
    /\ UNCHANGED << program, model, quitting, interrupted, command, message, got, open,
                    reaped, asked, exit >>

\* After an error, or when a signal reaches the child, which it may not survive.
ChildEnds ==
    /\ \/ Feed!FeedFails \/ Feed!FeedEnds
       \/ status = "running" /\ status' = "killed" /\ UNCHANGED << frames, tail >>
    /\ UNCHANGED << program, model, quitting, interrupted, command, message, stream, got,
                    open, reaped, asked, exit >>

\* SIGPIPE: it writes to a pipe that nobody can read any more.
ChildBreaks ==
    /\ status = "running" /\ ~open /\ tail # "error"
    /\ status' = "killed"
    /\ UNCHANGED << program, model, quitting, interrupted, command, message, frames, tail,
                    stream, got, open, reaped, asked, exit >>

-----------------------------------------------------------------------------
(* The commands: goroutines of the dashboard *)

Tell(m) == command' = "message" /\ message' = m

\* startDashboardFeedCmd.
StartFeed ==
    /\ program # "exited" /\ command = "starting"
    /\ \/ status' = "running" /\ open' = TRUE /\ Tell(Plain("started"))
       \/ Tell(Plain("not started")) /\ UNCHANGED << status, open >>
    /\ UNCHANGED << program, model, quitting, interrupted, frames, tail, stream, got,
                    reaped, asked, exit >>

\* readDashboardFeedCmd. A record that was buffered can still be scanned when the pipe
\* is closed; a record can be too long for the scanner.
Scan ==
    /\ program # "exited" /\ command = "reading"
    /\ \/ /\ got < Len(stream)
          /\ got' = got + 1 /\ Tell(stream[got + 1])
       \/ /\ ~open \/ \E i \in DOMAIN stream : i = got + 1 /\ stream[i].kind # "error"
          /\ command' = "stopping" /\ UNCHANGED << got, message >>
       \/ /\ open /\ got = Len(stream) /\ status # "running"
          /\ command' = "waiting" /\ UNCHANGED << got, message >>
    /\ UNCHANGED << program, model, quitting, interrupted, child, open, reaped, asked, exit >>

\* feed.stop: the process is killed, if it still runs; Wait closes the pipe.
Killed == IF status = "running" THEN "killed" ELSE status

StopFeed ==
    /\ program # "exited" /\ command = "stopping"
    /\ status' = Killed /\ reaped' = TRUE /\ open' = FALSE
    /\ Tell(Plain("failed"))
    /\ UNCHANGED << program, model, quitting, interrupted, frames, tail, stream, got,
                    asked, exit >>

\* cmd.Wait: an error, unless the child ended well and nobody waited for it before.
WaitIgnored(ok) == Plain("done")
WaitResult(ok) == Plain(IF ok THEN "done" ELSE "failed")

WaitFeed ==
    /\ program # "exited" /\ command = "waiting"
    /\ Tell(WaitResult(status = "ended" /\ ~reaped))
    /\ reaped' = TRUE /\ open' = FALSE
    /\ UNCHANGED << program, model, quitting, interrupted, child, got, asked, exit >>

-----------------------------------------------------------------------------
(* Update: the event loop takes one message at a time *)

QuitOnly ==
    /\ quitting' = TRUE /\ UNCHANGED << program, status >>

IgnoreEarlyKey ==
    IF feed THEN program' = "stopping" /\ status' = Killed /\ UNCHANGED quitting
            ELSE UNCHANGED << program, status, quitting >>

\* q or ctrl+c. While feed.stop waits for the child the loop takes no message.
QuitKey ==
    IF feed THEN program' = "stopping" /\ status' = Killed /\ UNCHANGED quitting
            ELSE QuitOnly

Key ==
    /\ program = "running"
    /\ QuitKey
    /\ asked' = asked \cup {IF feed THEN "q" ELSE "early q"}
    /\ UNCHANGED << model, interrupted, command, message, frames, tail, stream, got, open,
                    reaped, exit >>

Reap ==
    /\ program = "stopping" /\ status # "running"
    /\ program' = "running" /\ quitting' = TRUE
    /\ reaped' = TRUE /\ open' = FALSE
    /\ UNCHANGED << model, interrupted, command, message, child, got, asked, exit >>

Started ==
    /\ program = "running" /\ command = "message"
    /\ \/ /\ message.kind = "started"
          /\ feed' = TRUE /\ command' = "reading" /\ UNCHANGED << err, quitting >>
       \/ /\ message.kind = "not started"
          /\ err' = TRUE /\ quitting' = TRUE /\ command' = "none" /\ UNCHANGED feed
    /\ message' = Plain("none")
    /\ UNCHANGED << program, shown, interrupted, child, got, open, reaped, asked, exit >>

FirstOf(events) == SubSeq(events, 1, IF Len(events) > EventLimit THEN EventLimit ELSE Len(events))

AllOf(events) == events

LastOf(events) ==
    SubSeq(events, IF Len(events) > EventLimit THEN Len(events) - EventLimit + 1 ELSE 1,
           Len(events))

RecordBatchLast ==
    /\ program = "running" /\ command = "message"
    /\ \/ /\ message.kind = "frame"
          /\ shown' = [shown EXCEPT !.frame = message.frame]
          /\ command' = "reading" /\ UNCHANGED << err, quitting >>
       \/ /\ message.kind = "batch"
          /\ shown' = [shown EXCEPT !.events = LastOf(@ \o message.events)]
          /\ command' = "none" /\ UNCHANGED << err, quitting >>
       \/ /\ message.kind \in {"error", "failed"}
          /\ err' = TRUE /\ quitting' = TRUE /\ command' = "none" /\ UNCHANGED shown
       \/ /\ message.kind = "done"
          /\ quitting' = TRUE /\ command' = "none" /\ UNCHANGED << err, shown >>
    /\ message' = Plain("none")
    /\ UNCHANGED << program, feed, interrupted, child, got, open, reaped, asked, exit >>

\* dashboardRecordFromEnvelope and the record's case: every record that can be shown
\* starts the next read, every other one ends the program.
Record ==
    /\ program = "running" /\ command = "message"
    /\ \/ /\ message.kind = "frame"
          /\ shown' = [shown EXCEPT !.frame = message.frame]
          /\ command' = "reading" /\ UNCHANGED << err, quitting >>
       \/ /\ message.kind = "batch"
          /\ shown' = [shown EXCEPT !.events = LastOf(@ \o message.events)]
          /\ command' = "reading" /\ UNCHANGED << err, quitting >>
       \/ /\ message.kind \in {"error", "failed"}
          /\ err' = TRUE /\ quitting' = TRUE /\ command' = "none" /\ UNCHANGED shown
       \/ /\ message.kind = "done"
          /\ quitting' = TRUE /\ command' = "none" /\ UNCHANGED << err, shown >>
    /\ message' = Plain("none")
    /\ UNCHANGED << program, feed, interrupted, child, got, open, reaped, asked, exit >>

\* QuitMsg and InterruptMsg end the loop without asking the model.
Quit ==
    /\ program = "running" /\ quitting
    /\ program' = "closing" /\ exit' = IF interrupted THEN 1 ELSE 0
    /\ UNCHANGED << model, quitting, interrupted, command, message, child, got, open,
                    reaped, asked >>

ExitDetached ==
    /\ program = "closing" /\ program' = "exited"
    /\ UNCHANGED << model, quitting, interrupted, command, message, child, got, open, reaped,
                    asked, exit >>

\* RunE returns what Run returned; the process ends with what its commands are doing.
Exit ==
    /\ program = "closing"
    /\ program' = "exited" /\ open' = FALSE
    /\ UNCHANGED << model, quitting, interrupted, command, message, child, got, reaped,
                    asked, exit >>

-----------------------------------------------------------------------------
\* Signals sent to the dashboard, which Bubble Tea turns into messages, or not.
Signal ==
    /\ program \notin {"closing", "exited"}
    /\ \/ quitting' = TRUE /\ asked' = asked \cup {"TERM"} /\ UNCHANGED interrupted
       \/ /\ quitting' = TRUE /\ interrupted' = TRUE /\ asked' = asked \cup {"INT"}
    /\ UNCHANGED << program, model, command, message, child, got, open, reaped, exit >>

Kill ==
    /\ program # "exited"
    /\ program' = "exited" /\ open' = FALSE /\ exit' = 137 /\ asked' = asked \cup {"KILL"}
    /\ UNCHANGED << model, quitting, interrupted, command, message, child, got, reaped >>

Loop    == Reap \/ Started \/ Record \/ Exit
Command == StartFeed \/ Scan \/ StopFeed \/ WaitFeed

Next ==
    \/ ChildWrites \/ ChildEnds \/ ChildBreaks
    \/ Command \/ Key \/ Loop \/ Quit
    \/ Signal \/ Kill

Spec == Init /\ [][Next]_vars

\* Goroutines run, messages queue first in first out, and the child, which writes in
\* every interval, meets a closed pipe and ends after an error.
FairSpec ==
    /\ Spec /\ WF_vars(Command) /\ WF_vars(Loop) /\ SF_vars(Quit)
    /\ WF_vars(ChildBreaks) /\ WF_vars(Feed!FeedFails /\ ChildEnds)

-----------------------------------------------------------------------------
(* Properties *)

Entry   == [kind : {"frame", "batch", "error"}, frame : 0 .. MaxFrames, events : Seq(Nat)]

Message == [kind : {"none", "started", "not started", "frame", "batch", "error", "failed",
                    "done"},
            frame : 0 .. MaxFrames, events : Seq(Nat)]

TypeOK ==
    /\ program \in {"running", "stopping", "closing", "exited"}
    /\ feed \in BOOLEAN /\ err \in BOOLEAN /\ quitting \in BOOLEAN /\ interrupted \in BOOLEAN
    /\ shown \in [frame : 0 .. MaxFrames, events : Seq(Nat)]
    /\ command \in {"starting", "reading", "waiting", "stopping", "message", "none"}
    /\ message \in Message
    /\ command = "message" <=> message.kind # "none"
    /\ frames \in 0 .. MaxFrames /\ tail \in {"nothing", "frame", "batch", "error"}
    /\ status \in {"none", "running", "ended", "failed", "killed"}
    /\ stream \in Seq(Entry) /\ got \in 0 .. Len(stream)
    /\ open \in BOOLEAN /\ reaped \in BOOLEAN
    /\ asked \subseteq {"q", "early q", "TERM", "INT", "KILL"} /\ exit \in {0, 1, 137}
    /\ Len(shown.events) <= EventLimit

\* The last frame and the last events of the first n records.
View(n) ==
    LET framesAt == { i \in 1 .. n : stream[i].kind = "frame" }
        events   == FlattenSeq([i \in 1 .. n |-> stream[i].events])
    IN  [frame |-> IF framesAt = {} THEN 0 ELSE stream[Max(framesAt)].frame,
         events |-> SubSeq(events, Len(events) + 1
                           - (IF Len(events) < EventLimit THEN Len(events) ELSE EventLimit),
                           Len(events))]

\* What is shown is what the child wrote first, up to the record that is under way: no
\* record is lost, shown twice or out of order, whatever is pressed while it is read
\* (one read at a time: Update starts the next one for each record).
ViewIsStreamPrefix ==
    \E n \in 0 .. got : n >= got - 1 /\ shown = View(n)

\* A dashboard that nobody ended shows why it ended, unless its child ended well.
EndsForAReason ==
    program = "exited" /\ asked = {} => err \/ status = "ended"

\* The child outlives the dashboard only if a signal or an early q, pressed before the
\* dashboard had learned of the child, ended it, or the child is about to end itself;
\* and never once a q has stopped it (Update, feed.stop).
ChildStoppedAtExit ==
    program = "exited" /\ status = "running" =>
        /\ asked \cap {"TERM", "INT", "KILL", "early q"} # {} \/ tail = "error"
        /\ "q" \notin asked

\* q ends the dashboard, although stopping the feed and reading it wait for one process.
QuitEnds == asked \cap {"q", "early q"} # {} ~> program = "exited"

\* A dashboard that nobody ends does not freeze: each record its child writes comes to be
\* shown, unless an error is (each record's message starts the next read).
RecordsAreShown ==
    \A n \in 1 .. 2 * MaxFrames + 1 :
        Len(stream) >= n ~> asked # {} \/ err \/ \E k \in n .. got : shown = View(k)

\* No child is left behind for ever: it ends with the dashboard or at its next write.
ChildEndsWithDashboard == program = "exited" ~> status # "running"
=============================================================================
