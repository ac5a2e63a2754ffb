----------------------------- MODULE StatusFeed -----------------------------
(***************************************************************************)
(* What a reader may expect of `status --json --watch --events`: frames,   *)
(* after each but the first at most one batch of events, at most one error *)
(* and nothing after it; and a clean end only after a whole frame.         *)
(***************************************************************************)
EXTENDS Integers

CONSTANT MaxFrames    \* bound on the frames of a stream

VARIABLES
    frames,    \* how many were written
    tail,      \* what was written last
    status     \* of the process that writes

feedVars == << frames, tail, status >>

FeedTypeOK ==
    /\ frames \in 0 .. MaxFrames
    /\ tail \in {"nothing", "frame", "batch", "error"}
    /\ status \in {"running", "ended", "failed"}

FeedInit == frames = 0 /\ tail = "nothing" /\ status = "running"

SendFrame ==
    /\ status = "running" /\ tail # "error" /\ frames < MaxFrames
    /\ frames' = frames + 1 /\ tail' = "frame" /\ UNCHANGED status

SendBatch ==
    /\ status = "running" /\ tail = "frame" /\ frames > 1
    /\ tail' = "batch" /\ UNCHANGED << frames, status >>

SendError ==
    /\ status = "running" /\ tail # "error"
    /\ tail' = "error" /\ UNCHANGED << frames, status >>

\* An error that was reported ends the process with a failure.
FeedFails ==
    /\ status = "running" /\ tail = "error"
    /\ status' = "failed" /\ UNCHANGED << frames, tail >>

FeedEnds ==
    /\ status = "running" /\ frames > 0 /\ tail # "error"
    /\ status' = "ended" /\ UNCHANGED << frames, tail >>

FeedNext == SendFrame \/ SendBatch \/ SendError \/ FeedFails \/ FeedEnds

FeedSpec == FeedInit /\ [][FeedNext]_feedVars
=============================================================================
