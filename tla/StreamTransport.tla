--------------------------- MODULE StreamTransport ---------------------------
(***************************************************************************)
(* A call through the streaming HTTP runtime                                *)
(* (src/src/provider-stream-transports/http-runtime.ts), with the events of  *)
(* its session as the executor's governedEvents() hands them to consumers    *)
(* (src/src/governed-provider-stream-executor.ts).  A session may be         *)
(* iterated several times, even at once: every iteration has its own         *)
(* sequence, and all share one body, one timer and one reader to cancel.     *)
(*                                                                         *)
(* What comes in a chunk is abstracted to the frames it completes, and to    *)
(* what is left of it without a separator yet.                              *)
(***************************************************************************)
EXTENDS CallerSignal, Integers, Sequences

CONSTANTS
  Iteration,       \* the iterations of the session
  Nobody,
  Chunk,           \* the frames that a chunk completes
  Rest,            \* what may be left in the buffer after them
  MaxWireChunks    \* maxWireBytes, in chunks

\* A frame is an event, the event that ends the answer, or one that fails.
Frame == {"event", "end", "bad"}
NoFrame == "nothing"

ASSUME StreamAssumption ==
  /\ Nobody \notin Iteration
  /\ Chunk \subseteq Seq(Frame)
  /\ Rest \subseteq Frame \cup {NoFrame}
  /\ MaxWireChunks \in Nat

VARIABLES
  stream,          \* the call and what its iterations share
  iterations

\* armed: the timer; watched: the listener of the signal; body: whether reads of it
\* can still be waiting; reader: whose lock it is under.
StreamCall ==
  [at : {"idle", "credential", "fetch", "failed", "rejected", "accepted"},
   aborted : BOOLEAN, armed : BOOLEAN, watched : BOOLEAN,
   body : {"live", "dead"}, reader : Iteration \cup {Nobody}]

\* A consumer waits for an iteration (reading), or holds the event it was given.
IterationState ==
  [at : {"new", "reading", "held", "over"},
   frames : Seq(Frame), rest : Frame \cup {NoFrame},
   drained : BOOLEAN,                \* the body has ended for it
   wire : Nat,                       \* chunks it has read
   given : Nat, ends : Nat,          \* events it has delivered, and ends among them
   last : Frame \cup {NoFrame},
   how : {"open", "complete", "interrupted", "error", "left"}]

NewIteration ==
  [at |-> "new", frames |-> <<>>, rest |-> NoFrame, drained |-> FALSE, wire |-> 0,
   given |-> 0, ends |-> 0, last |-> NoFrame, how |-> "open"]

StreamInit ==
  /\ stream = [at |-> "idle", aborted |-> FALSE, armed |-> FALSE, watched |-> FALSE,
               body |-> "dead", reader |-> Nobody]
  /\ iterations = [i \in Iteration |-> NewIteration]

-----------------------------------------------------------------------------
(* open().                                                                 *)

\* Mutant of Cleanup: the reader is left waiting.
CleanupTimer(s) == [s EXCEPT !.armed = FALSE, !.watched = FALSE]

\* cleanup(): the timer and the listener go, and whoever reads is cancelled.
Cleanup(s) ==
  [s EXCEPT !.armed = FALSE, !.watched = FALSE,
            !.body = IF s.reader # Nobody THEN "dead" ELSE @]

\* abort(): the fetch is aborted, and with it the body.
StreamAborted(s) == [s EXCEPT !.aborted = TRUE, !.body = "dead"]

OpenFails == stream' = [Cleanup(stream) EXCEPT !.at = "failed"]

BeginStream ==
  /\ stream.at = "idle"
  /\ IF signal THEN OpenFails
     ELSE stream' = [stream EXCEPT !.at = "credential", !.armed = TRUE, !.watched = TRUE]
  /\ UNCHANGED <<iterations, signal>>

\* Mutant of StreamCredential: the controller is not asked again.
StreamCredentialLate ==
  /\ stream.at = "credential"
  /\ stream' = [stream EXCEPT !.at = "fetch"] \/ OpenFails
  /\ UNCHANGED <<iterations, signal>>

StreamCredential ==
  /\ stream.at = "credential"
  /\ \/ ~stream.aborted /\ stream' = [stream EXCEPT !.at = "fetch"]
     \/ OpenFails
  /\ UNCHANGED <<iterations, signal>>

\* The fetch settles: it fails, its response is rejected, or has events to read.
StreamResponds ==
  /\ stream.at = "fetch"
  /\ \/ OpenFails
     \/ ~stream.aborted /\ stream' = [Cleanup(stream) EXCEPT !.at = "rejected"]
     \/ ~stream.aborted /\ stream' = [stream EXCEPT !.at = "accepted", !.armed = TRUE, !.body = "live"]
  /\ UNCHANGED <<iterations, signal>>

\* The timer fires, while the request is opened, a read waits or a consumer is slow.
StreamTimeout ==
  /\ stream.armed
  /\ stream' = [StreamAborted(stream) EXCEPT !.armed = FALSE]
  /\ UNCHANGED <<iterations, signal>>

-----------------------------------------------------------------------------
(* The end of an iteration.                                                *)

\* Mutant of Close: the body is left as it is.
CloseUncancelled(i) == Cleanup([stream EXCEPT !.reader = Nobody])

\* The generators are closed: a body that was not read to its end is cancelled, its
\* lock released, and the session cleaned up.
Close(i) ==
  LET released == [stream EXCEPT !.reader = Nobody, !.body = "dead"]
  IN  Cleanup(released)

Ends(i, how) ==
  /\ iterations' = [iterations EXCEPT ![i] =
       [@ EXCEPT !.at = "over", !.how = how, !.frames = <<>>, !.rest = NoFrame, !.wire = 0]]
  /\ stream' = Close(i)

Interrupted(it) == it.ends = 0

Finishes(i) == Ends(i, IF Interrupted(iterations[i]) THEN "interrupted" ELSE "complete")

-----------------------------------------------------------------------------
(* One step of an iteration, up to its next read or event.                  *)

\* Mutant of TooMany: events after the last one are let through.
NeverTooMany(it) == FALSE

\* What follows the last event fails.
TooMany(it) == it.ends > 0

Gives(i, it) ==
  LET frame == Head(it.frames)
  IN  IF frame = "bad" \/ TooMany(it)
      THEN Ends(i, "error")
      ELSE /\ iterations' = [iterations EXCEPT ![i] =
                [it EXCEPT !.at = "held", !.frames = Tail(@), !.given = @ + 1, !.last = frame,
                           !.ends = IF frame = "end" THEN @ + 1 ELSE @]]
           /\ stream' = [stream EXCEPT !.reader = i]

\* A read is asked for, under a timer that begins anew.
Reads(i, it) ==
  /\ iterations' = [iterations EXCEPT ![i] = [it EXCEPT !.at = "reading"]]
  /\ stream' = [stream EXCEPT !.reader = i, !.armed = TRUE]

GoesOn(i, it) ==
  IF it.frames # <<>> THEN Gives(i, it)
  ELSE IF it.drained THEN Finishes(i)
  ELSE Reads(i, it)

\* A body that another iteration reads is locked: the attempt fails, and its
\* cleanup cancels the other one.
Locked(i) ==
  /\ iterations' = [iterations EXCEPT ![i] = [@ EXCEPT !.at = "over", !.how = "error"]]
  /\ stream' = Cleanup(stream)

\* The consumer asks for the next event.
Pull(i) ==
  /\ stream.at = "accepted"
  /\ \/ iterations[i].at = "new" /\ stream.reader # Nobody /\ Locked(i)
     \/ iterations[i].at = "new" /\ stream.reader = Nobody /\ Reads(i, iterations[i])
     \/ iterations[i].at = "held" /\ GoesOn(i, iterations[i])
  /\ UNCHANGED signal

\* The consumer leaves its loop.
Leave(i) ==
  /\ iterations[i].at = "held"
  /\ Ends(i, "left")
  /\ UNCHANGED signal

\* A chunk arrives.  Too many of them fail.
ChunkArrives(i) ==
  /\ iterations[i].at = "reading" /\ stream.body = "live"
  /\ IF iterations[i].wire = MaxWireChunks THEN Ends(i, "error")
     ELSE \E frames \in Chunk, rest \in Rest :
            GoesOn(i, [iterations[i] EXCEPT !.wire = @ + 1, !.frames = frames, !.rest = rest])
  /\ UNCHANGED signal

\* The body ends, or was cancelled: what is left in the buffer is taken for a frame.
BodyEnds(i) ==
  /\ iterations[i].at = "reading"
  /\ LET it == iterations[i]
     IN  GoesOn(i, [it EXCEPT !.drained = TRUE, !.rest = NoFrame,
                              !.frames = IF it.rest = NoFrame THEN <<>> ELSE <<it.rest>>])
  /\ UNCHANGED signal

\* The body breaks, by itself or by the abort of its fetch.
BodyBreaks(i) ==
  /\ iterations[i].at = "reading"
  /\ Ends(i, "error")
  /\ UNCHANGED signal

IterationNext(i) == Pull(i) \/ Leave(i) \/ ChunkArrives(i) \/ BodyEnds(i) \/ BodyBreaks(i)

StreamNext ==
  \/ BeginStream \/ StreamCredential \/ StreamResponds \/ StreamTimeout
  \/ \E i \in Iteration : IterationNext(i)

StreamOnAbort == stream' = IF stream.watched THEN StreamAborted(stream) ELSE stream

\* A read of a dead body settles.
ReadSettles(i) == stream.body = "dead" /\ (BodyEnds(i) \/ BodyBreaks(i))

\* A fetch whose signal is aborted rejects.
FetchAborts == stream.aborted /\ StreamResponds

\* Nothing races the opening: the host's credential must come.
StreamFairness ==
  LET streaming == <<stream, iterations, signal>>
  IN  /\ WF_streaming(StreamTimeout)
      /\ WF_streaming(StreamCredential)
      /\ WF_streaming(FetchAborts)
      /\ \A i \in Iteration : WF_streaming(ReadSettles(i))
==============================================================================
