-------------------------- MODULE TransportsProofs --------------------------
(***************************************************************************)
(* What holds of the two runtimes for any limits, chunks and consumers:      *)
(* nothing is sent late, a result is bounded, and a session's answer is      *)
(* delivered once, and whole if it is called complete.                      *)
(***************************************************************************)
EXTENDS Transports, TLAPS

\* While the work of a buffered call goes on and is not aborted, nothing has settled
\* the call; its signal is not aborted either.
HttpInv ==
  /\ http.at \in {"credential", "fetch", "body"} /\ ~http.aborted
       => http.outcome = "pending" /\ ~signal
  /\ http.at = "idle" => ~http.aborted /\ http.outcome = "pending"
  /\ http.received <= MaxResponseBytes
  /\ http.outcome \in {"accepted", "rejected"} => http.at = "over" /\ ~http.aborted

\* A stream that is being opened watches its signal, and knows of its abort.
OpeningInv ==
  stream.at \in {"credential", "fetch"} => stream.watched /\ (signal => stream.aborted)

\* Something of the body came to this iteration.
Touched(it) == it.given > 0 \/ it.wire > 0

ReaderInv ==
  /\ stream.at # "accepted" => iterations = [i \in Iteration |-> NewIteration]
  /\ \A i \in Iteration :
       /\ iterations[i].at \in {"reading", "held"} => stream.reader = i
       /\ Touched(iterations[i]) => stream.reader = i \/ stream.body = "dead"
       /\ iterations[i].wire = 0 => iterations[i].frames = <<>> /\ iterations[i].rest = NoFrame
       /\ iterations[i].at = "new" => ~Touched(iterations[i])
  /\ \A i, j \in Iteration : Touched(iterations[i]) /\ Touched(iterations[j]) => i = j

EndInv ==
  \A i \in Iteration :
    /\ iterations[i].ends \in {0, 1}
    /\ iterations[i].ends = 1 => iterations[i].last = "end"
    /\ iterations[i].how = "complete" => iterations[i].ends = 1

IInv == TypeOK /\ HttpInv /\ OpeningInv /\ ReaderInv /\ EndInv

LEMMA InitIInv == Init => IInv
<1>. SUFFICES ASSUME Init PROVE IInv
  OBVIOUS
<1>1. NewIteration \in IterationState
  BY DEF NewIteration, IterationState, Frame, NoFrame
<1>2. TypeOK
  BY <1>1, HttpAssumption DEF Init, SignalInit, HttpInit, StreamInit, TypeOK, HttpCall, StreamCall
<1>3. HttpInv /\ OpeningInv
  BY HttpAssumption DEF Init, HttpInit, StreamInit, HttpInv, OpeningInv
<1>4. ReaderInv /\ EndInv
  BY DEF Init, StreamInit, ReaderInv, EndInv, Touched, NewIteration
<1>. QED
  BY <1>2, <1>3, <1>4 DEF IInv

-----------------------------------------------------------------------------
(* The buffered call.                                                      *)

\* Aborting a call, and ending its work, give calls again.
LEMMA HttpTypes ==
  ASSUME NEW call \in HttpCall,
         NEW outcome \in {"pending", "accepted", "rejected", "tooLarge", "failure"}
  PROVE  HttpAborted(call, outcome) \in HttpCall /\ WorkEnds(call, outcome) \in HttpCall
  BY DEF HttpCall, HttpAborted, WorkEnds, Decided

\* What a settled or pending call becomes when it is aborted.
LEMMA HttpAbortedIs ==
  ASSUME NEW call \in HttpCall, NEW failure
  PROVE  LET after == HttpAborted(call, failure)
         IN  /\ after.at = call.at /\ after.received = call.received /\ after.aborted
             /\ after.outcome \in {call.outcome, failure}
             /\ call.outcome # "pending" => after.outcome = call.outcome
  BY DEF HttpCall, HttpAborted, Decided

LEMMA WorkEndsIs ==
  ASSUME NEW call \in HttpCall, NEW outcome
  PROVE  LET after == WorkEnds(call, outcome)
         IN  /\ after.at = "over" /\ after.received = call.received /\ after.aborted = call.aborted
             /\ after.outcome = IF call.outcome = "pending" THEN outcome ELSE call.outcome
  BY DEF HttpCall, WorkEnds, Decided

LEMMA HttpKeeps ==
  ASSUME http \in HttpCall, HttpInv, HttpNext
  PROVE  http' \in HttpCall /\ HttpInv'
<1>1. CASE BeginHttp
  BY <1>1, HttpTypes, HttpAbortedIs, WorkEndsIs DEF BeginHttp, HttpInv, HttpCall
<1>2. CASE HttpTimeout
  BY <1>2, HttpTypes, HttpAbortedIs DEF HttpTimeout, HttpCalling, HttpInv, HttpCall
<1>3. CASE HttpCredential
  BY <1>3, HttpTypes, WorkEndsIs DEF HttpCredential, HttpInv, HttpCall
<1>4. CASE HttpResponds
  BY <1>4, HttpTypes, HttpAbortedIs, WorkEndsIs DEF HttpResponds, HttpInv, HttpCall
<1>5. CASE HttpChunk
  BY <1>5, HttpAssumption, HttpTypes, HttpAbortedIs, WorkEndsIs DEF HttpChunk, HttpInv, HttpCall
<1>6. CASE HttpBodyEnds
  BY <1>6, HttpTypes, WorkEndsIs DEF HttpBodyEnds, HttpInv, HttpCall
<1>. QED
  BY <1>1, <1>2, <1>3, <1>4, <1>5, <1>6 DEF HttpNext

LEMMA HttpAbortKeeps ==
  ASSUME http \in HttpCall, HttpInv, HttpOnAbort
  PROVE  http' \in HttpCall /\ HttpInv'
  BY HttpTypes, HttpAbortedIs DEF HttpOnAbort, HttpCalling, HttpInv, HttpCall

-----------------------------------------------------------------------------
(* The stream.                                                             *)

StreamInv ==
  /\ stream \in StreamCall /\ iterations \in [Iteration -> IterationState]
  /\ OpeningInv /\ ReaderInv /\ EndInv

\* One iteration moves on, and the others stay as they are.
LEMMA SetKeeps ==
  ASSUME StreamInv, NEW i \in Iteration, NEW rec \in IterationState,
         stream.at = "accepted",
         stream' \in StreamCall, stream'.at = "accepted", stream'.watched \in BOOLEAN,
         iterations' = [iterations EXCEPT ![i] = rec],
         \A j \in Iteration \ {i} :
           /\ iterations[j].at \in {"reading", "held"} => stream'.reader = j
           /\ Touched(iterations[j]) => stream'.reader = j \/ stream'.body = "dead"
           /\ Touched(iterations[j]) => ~Touched(rec),
         rec.at \in {"reading", "held"} => stream'.reader = i,
         Touched(rec) => stream'.reader = i \/ stream'.body = "dead",
         rec.wire = 0 => rec.frames = <<>> /\ rec.rest = NoFrame,
         rec.at # "new",
         rec.ends \in {0, 1}, rec.ends = 1 => rec.last = "end", rec.how = "complete" => rec.ends = 1
  PROVE  StreamInv'
<1>1. iterations \in [Iteration -> IterationState]
  BY DEF StreamInv
<1>2. /\ iterations' \in [Iteration -> IterationState] /\ iterations'[i] = rec
      /\ \A j \in Iteration \ {i} : iterations'[j] = iterations[j]
  BY <1>1
<1>3. OpeningInv'
  BY DEF OpeningInv
<1>4. ReaderInv'
  <2>1. \A j \in Iteration \ {i} :
          /\ iterations'[j].at \in {"reading", "held"} => stream'.reader = j
          /\ Touched(iterations'[j]) => stream'.reader = j \/ stream'.body = "dead"
          /\ iterations'[j].wire = 0 => iterations'[j].frames = <<>> /\ iterations'[j].rest = NoFrame
          /\ iterations'[j].at = "new" => ~Touched(iterations'[j])
          /\ Touched(iterations'[j]) => ~Touched(rec)
    BY <1>2 DEF StreamInv, ReaderInv
  <2>2. \A j, k \in Iteration : Touched(iterations'[j]) /\ Touched(iterations'[k]) => j = k
    <3>1. \A j, k \in Iteration \ {i} : Touched(iterations'[j]) /\ Touched(iterations'[k]) => j = k
      BY <1>2 DEF StreamInv, ReaderInv
    <3>. QED
      BY <1>2, <2>1, <3>1
  <2>3. Touched(rec)' = Touched(rec) /\ \A j \in Iteration : Touched(iterations[j])' = Touched(iterations'[j])
    BY DEF Touched
  <2>. QED
    BY <1>2, <2>1, <2>2, <2>3 DEF ReaderInv
<1>5. EndInv'
  BY <1>2 DEF StreamInv, EndInv
<1>. QED
  BY <1>2, <1>3, <1>4, <1>5 DEF StreamInv

\* Whoever reads or holds an event is alone.
LEMMA Alone ==
  ASSUME StreamInv, NEW i \in Iteration, stream.reader = i
  PROVE  /\ \A j \in Iteration \ {i} : iterations[j].at \notin {"reading", "held"}
         /\ \A j \in Iteration \ {i} : Touched(iterations[j]) => stream.body = "dead"
  BY StreamAssumption DEF StreamInv, ReaderInv

LEMMA CleanupType ==
  ASSUME NEW s \in StreamCall
  PROVE  /\ Cleanup(s) \in StreamCall /\ Cleanup(s).at = s.at /\ Cleanup(s).reader = s.reader
         /\ Cleanup(s).body = IF s.reader # Nobody THEN "dead" ELSE s.body
  BY DEF Cleanup, StreamCall

LEMMA CloseType ==
  ASSUME stream \in StreamCall, NEW i
  PROVE  Close(i) \in StreamCall /\ Close(i).at = stream.at /\ Close(i).body = "dead"
<1> DEFINE released == [stream EXCEPT !.reader = Nobody, !.body = "dead"]
<1>1. released \in StreamCall /\ released.at = stream.at /\ released.body = "dead"
  BY DEF StreamCall
<1>. HIDE DEF released
<1>. QED
  BY <1>1, CleanupType DEF Close, released

LEMMA EndsKeeps ==
  ASSUME StreamInv, NEW i \in Iteration, stream.at = "accepted", stream.reader = i,
         NEW how \in {"complete", "interrupted", "error", "left"}, Ends(i, how),
         how = "complete" => iterations[i].ends = 1
  PROVE  StreamInv'
<1> DEFINE it == iterations[i]
           rec == [it EXCEPT !.at = "over", !.how = how, !.frames = <<>>, !.rest = NoFrame, !.wire = 0]
<1>1. it \in IterationState /\ stream \in StreamCall
  BY DEF StreamInv
<1>2. rec \in IterationState
  <2>1. <<>> \in Seq(Frame) /\ NoFrame \in Frame \cup {NoFrame}
    OBVIOUS
  <2>. QED
    BY <1>1, <2>1 DEF IterationState
<1>3. /\ rec.at = "over" /\ rec.how = how /\ rec.frames = <<>> /\ rec.rest = NoFrame
      /\ rec.wire = 0 /\ rec.given = it.given /\ rec.ends = it.ends /\ rec.last = it.last
  BY <1>1 DEF IterationState
<1>4. stream' = Close(i) /\ iterations' = [iterations EXCEPT ![i] = rec]
  BY DEF Ends
<1>5. stream' \in StreamCall /\ stream'.at = "accepted" /\ stream'.body = "dead"
  BY <1>1, <1>4, CloseType
<1>6. Touched(rec) => Touched(it)
  BY <1>3 DEF Touched
<1>7. \A j \in Iteration \ {i} :
        /\ iterations[j].at \notin {"reading", "held"}
        /\ Touched(iterations[j]) => ~Touched(rec)
  BY <1>6, Alone DEF StreamInv, ReaderInv
<1>8. it.ends \in {0, 1} /\ (it.ends = 1 => it.last = "end")
  BY DEF StreamInv, EndInv
<1>9. stream'.watched \in BOOLEAN
  BY <1>5 DEF StreamCall
<1>. HIDE DEF rec, it
<1>. QED
  BY <1>2, <1>3, <1>4, <1>5, <1>7, <1>8, <1>9, SetKeeps DEF it

\* A state of an iteration that has the body, before its next step.
Ready(i, it) ==
  /\ it \in IterationState
  /\ it.ends = iterations[i].ends /\ it.last = iterations[i].last /\ it.given = iterations[i].given
  /\ it.how = iterations[i].how /\ it.at # "over"
  /\ it.wire = 0 => it.frames = <<>> /\ it.rest = NoFrame
  /\ Touched(it) => \A j \in Iteration \ {i} : ~Touched(iterations[j])

LEMMA ReadsKeeps ==
  ASSUME StreamInv, NEW i \in Iteration, stream.at = "accepted", stream.reader \in {i, Nobody},
         NEW it, Ready(i, it), Reads(i, it)
  PROVE  StreamInv'
<1> DEFINE rec == [it EXCEPT !.at = "reading"]
<1>1. it \in IterationState /\ stream \in StreamCall
  BY DEF StreamInv, Ready
<1>2. rec \in IterationState
  BY <1>1 DEF IterationState
<1>3. /\ rec.at = "reading" /\ rec.how = it.how /\ rec.frames = it.frames /\ rec.rest = it.rest
      /\ rec.wire = it.wire /\ rec.given = it.given /\ rec.ends = it.ends /\ rec.last = it.last
  BY <1>1 DEF IterationState
<1>4. stream' = [stream EXCEPT !.reader = i, !.armed = TRUE] /\ iterations' = [iterations EXCEPT ![i] = rec]
  BY DEF Reads
<1>5. /\ stream' \in StreamCall /\ stream'.at = "accepted" /\ stream'.reader = i
      /\ stream'.body = stream.body /\ stream'.watched \in BOOLEAN
  BY <1>1, <1>4 DEF StreamCall
<1>6. Touched(rec) <=> Touched(it)
  BY <1>3 DEF Touched
<1>7. \A j \in Iteration \ {i} :
        /\ iterations[j].at \notin {"reading", "held"}
        /\ Touched(iterations[j]) => stream.body = "dead"
        /\ Touched(iterations[j]) => ~Touched(rec)
  BY <1>6, StreamAssumption DEF StreamInv, ReaderInv, Ready
<1>8. /\ it.ends \in {0, 1} /\ (it.ends = 1 => it.last = "end") /\ (it.how = "complete" => it.ends = 1)
      /\ it.wire = 0 => it.frames = <<>> /\ it.rest = NoFrame
  BY DEF StreamInv, EndInv, Ready
<1>. HIDE DEF rec
<1>. QED
  BY <1>2, <1>3, <1>4, <1>5, <1>7, <1>8, SetKeeps

LEMMA GivesKeeps ==
  ASSUME StreamInv, NEW i \in Iteration, stream.at = "accepted", stream.reader = i,
         NEW it, Ready(i, it), it.frames # <<>>, Gives(i, it)
  PROVE  StreamInv'
<1> DEFINE frame == Head(it.frames)
           ends == IF frame = "end" THEN it.ends + 1 ELSE it.ends
           rec == [it EXCEPT !.at = "held", !.frames = Tail(@), !.given = @ + 1, !.last = frame,
                             !.ends = IF frame = "end" THEN @ + 1 ELSE @]
<1>1. it \in IterationState /\ stream \in StreamCall
  BY DEF StreamInv, Ready
<1>2. CASE frame = "bad" \/ TooMany(it)
  BY <1>2, EndsKeeps DEF Gives
<1>3. CASE ~(frame = "bad" \/ TooMany(it))
  <2>1. it.frames \in Seq(Frame) /\ it.ends \in Nat /\ it.given \in Nat
    BY <1>1 DEF IterationState
  <2>2. frame \in Frame /\ Tail(it.frames) \in Seq(Frame)
    BY <2>1, it.frames # <<>> DEF Ready
  <2>3. it.ends = 0 /\ ends \in {0, 1} /\ (ends = 1 => frame = "end")
    BY <1>3 DEF TooMany, StreamInv, EndInv, Ready
  <2>4. rec \in IterationState
    <3>1. (IF frame = "end" THEN it.ends + 1 ELSE it.ends) \in Nat /\ it.given + 1 \in Nat
      BY <2>1
    <3>2. frame \in Frame \cup {NoFrame}
      BY <2>2
    <3>. HIDE DEF frame
    <3>. QED
      BY <1>1, <2>2, <3>1, <3>2 DEF IterationState
  <2>5. /\ rec.at = "held" /\ rec.how = it.how /\ rec.frames = Tail(it.frames) /\ rec.rest = it.rest
        /\ rec.wire = it.wire /\ rec.given = it.given + 1 /\ rec.ends = ends /\ rec.last = frame
    <3>. HIDE DEF frame
    <3>. QED
      BY <1>1, <2>1 DEF IterationState
  <2>6. stream' = [stream EXCEPT !.reader = i] /\ iterations' = [iterations EXCEPT ![i] = rec]
    BY <1>3 DEF Gives
  <2>7. /\ stream' \in StreamCall /\ stream'.at = "accepted" /\ stream'.reader = i
        /\ stream'.body = stream.body /\ stream'.watched \in BOOLEAN
    BY <1>1, <2>6 DEF StreamCall
  <2>8. it.wire # 0 /\ Touched(it)
    BY <1>1 DEF Ready, Touched, IterationState
  <2>9. \A j \in Iteration \ {i} :
          /\ iterations[j].at \notin {"reading", "held"}
          /\ Touched(iterations[j]) => stream.body = "dead"
          /\ ~Touched(iterations[j])
    BY <2>8, Alone DEF Ready
  <2>10. it.how # "complete"
    <3>1. iterations[i].ends # 1 /\ iterations[i].how = it.how
      BY <2>3 DEF Ready
    <3>. QED
      BY <3>1 DEF StreamInv, EndInv
  <2>. HIDE DEF rec, frame, ends
  <2>. QED
    BY <2>3, <2>4, <2>5, <2>6, <2>7, <2>8, <2>9, <2>10, SetKeeps
<1>. QED
  BY <1>2, <1>3

LEMMA GoesOnKeeps ==
  ASSUME StreamInv, NEW i \in Iteration, stream.at = "accepted", stream.reader = i,
         NEW it, Ready(i, it), GoesOn(i, it)
  PROVE  StreamInv'
<1>1. CASE it.frames # <<>>
  BY <1>1, GivesKeeps DEF GoesOn
<1>2. CASE it.frames = <<>> /\ it.drained
  <2>1. Ends(i, IF Interrupted(iterations[i]) THEN "interrupted" ELSE "complete")
    BY <1>2 DEF GoesOn, Finishes
  <2>2. ~Interrupted(iterations[i]) => iterations[i].ends = 1
    BY DEF Interrupted, StreamInv, EndInv
  <2>. QED
    BY <2>1, <2>2, EndsKeeps
<1>3. CASE it.frames = <<>> /\ ~it.drained
  BY <1>3, ReadsKeeps DEF GoesOn
<1>. QED
  BY <1>1, <1>2, <1>3

\* The call changes, and no iteration; no read of a dead body waits again.
LEMMA CallKeeps ==
  ASSUME StreamInv, stream' \in StreamCall, iterations' = iterations,
         stream'.reader = stream.reader,
         stream.at = "accepted" => stream'.at = "accepted",
         stream.at = "accepted" /\ stream.body = "dead" => stream'.body = "dead",
         OpeningInv'
  PROVE  StreamInv'
<1>1. \A i \in Iteration : Touched(iterations[i]) => stream.at = "accepted"
  BY DEF StreamInv, ReaderInv, NewIteration, Touched
<1>2. \A it : Touched(it)' = Touched(it')
  BY DEF Touched
<1>3. (stream.at # "accepted" => iterations = [i \in Iteration |-> NewIteration])'
  BY DEF StreamInv, ReaderInv, NewIteration
<1>4. ReaderInv'
  BY <1>1, <1>2, <1>3 DEF StreamInv, ReaderInv, Touched
<1>5. EndInv'
  BY DEF StreamInv, EndInv
<1>. QED
  BY <1>4, <1>5 DEF StreamInv

LEMMA OpenFailsKeeps ==
  ASSUME StreamInv, stream.at # "accepted", OpenFails, UNCHANGED iterations
  PROVE  StreamInv'
<1>1. stream \in StreamCall
  BY DEF StreamInv
<1>2. stream' \in StreamCall /\ stream'.at = "failed" /\ stream'.reader = stream.reader
  BY <1>1, CleanupType DEF OpenFails, StreamCall
<1>. QED
  BY <1>2, CallKeeps DEF OpeningInv

LEMMA OpeningKeeps ==
  ASSUME StreamInv, BeginStream \/ StreamCredential \/ StreamResponds \/ StreamTimeout
  PROVE  StreamInv'
<1>1. stream \in StreamCall /\ OpeningInv
  BY DEF StreamInv
<1>2. CASE BeginStream
  <2>1. CASE signal
    BY <1>2, <2>1, OpenFailsKeeps DEF BeginStream
  <2>2. CASE ~signal
    BY <1>1, <1>2, <2>2, CallKeeps DEF BeginStream, OpeningInv, StreamCall
  <2>. QED
    BY <2>1, <2>2
<1>3. CASE StreamCredential
  <2>1. CASE OpenFails
    BY <1>3, <2>1, OpenFailsKeeps DEF StreamCredential
  <2>2. CASE ~stream.aborted /\ stream' = [stream EXCEPT !.at = "fetch"]
    BY <1>1, <1>3, <2>2, CallKeeps DEF StreamCredential, OpeningInv, StreamCall
  <2>. QED
    BY <1>3, <2>1, <2>2 DEF StreamCredential
<1>4. CASE StreamResponds
  <2>1. CASE OpenFails
    BY <1>4, <2>1, OpenFailsKeeps DEF StreamResponds
  <2>2. CASE stream' = [Cleanup(stream) EXCEPT !.at = "rejected"]
    <3>1. stream' \in StreamCall /\ stream'.at = "rejected" /\ stream'.reader = stream.reader
      BY <1>1, <2>2, CleanupType DEF StreamCall
    <3>. QED
      BY <1>4, <3>1, CallKeeps DEF StreamResponds, OpeningInv
  <2>3. CASE stream' = [stream EXCEPT !.at = "accepted", !.armed = TRUE, !.body = "live"]
    BY <1>1, <1>4, <2>3, CallKeeps DEF StreamResponds, OpeningInv, StreamCall
  <2>. QED
    BY <1>4, <2>1, <2>2, <2>3 DEF StreamResponds
<1>5. CASE StreamTimeout
  BY <1>1, <1>5, CallKeeps DEF StreamTimeout, StreamAborted, OpeningInv, StreamCall
<1>. QED
  BY <1>2, <1>3, <1>4, <1>5

LEMMA LockedKeeps ==
  ASSUME StreamInv, NEW i \in Iteration, stream.at = "accepted", stream.reader # Nobody,
         iterations[i].at = "new", Locked(i)
  PROVE  StreamInv'
<1> DEFINE it == iterations[i]
           rec == [it EXCEPT !.at = "over", !.how = "error"]
<1>1. it \in IterationState /\ stream \in StreamCall
  BY DEF StreamInv
<1>2. rec \in IterationState
  BY <1>1 DEF IterationState
<1>3. /\ rec.at = "over" /\ rec.how = "error" /\ rec.frames = it.frames /\ rec.rest = it.rest
      /\ rec.wire = it.wire /\ rec.given = it.given /\ rec.ends = it.ends /\ rec.last = it.last
  BY <1>1 DEF IterationState
<1>4. stream' = Cleanup(stream) /\ iterations' = [iterations EXCEPT ![i] = rec]
  BY DEF Locked
<1>5. /\ stream' \in StreamCall /\ stream'.at = "accepted" /\ stream'.reader = stream.reader
      /\ stream'.body = "dead" /\ stream'.watched \in BOOLEAN
  BY <1>1, <1>4, CleanupType DEF StreamCall
<1>6. ~Touched(rec)
  BY <1>3 DEF StreamInv, ReaderInv, Touched
<1>7. \A j \in Iteration \ {i} : iterations[j].at \in {"reading", "held"} => stream.reader = j
  BY DEF StreamInv, ReaderInv
<1>8. /\ it.ends \in {0, 1} /\ (it.ends = 1 => it.last = "end")
      /\ it.wire = 0 => it.frames = <<>> /\ it.rest = NoFrame
  BY DEF StreamInv, ReaderInv, EndInv
<1>. HIDE DEF rec, it
<1>. QED
  BY <1>2, <1>3, <1>4, <1>5, <1>6, <1>7, <1>8, SetKeeps

\* Whoever reads or holds an event is ready for its next step as it is.
LEMMA BusyReady ==
  ASSUME StreamInv, NEW i \in Iteration, iterations[i].at # "over"
  PROVE  Ready(i, iterations[i])
  BY DEF StreamInv, ReaderInv, Ready

LEMMA ReadIsAccepted ==
  ASSUME StreamInv, NEW i \in Iteration, iterations[i].at # "new"
  PROVE  stream.at = "accepted"
  BY DEF StreamInv, ReaderInv, NewIteration

LEMMA ReaderHolds ==
  ASSUME StreamInv, NEW i \in Iteration, iterations[i].at \in {"reading", "held"}
  PROVE  stream.reader = i /\ stream.at = "accepted"
  BY ReadIsAccepted DEF StreamInv, ReaderInv

LEMMA ChunkKeeps ==
  ASSUME StreamInv, NEW i \in Iteration, ChunkArrives(i)
  PROVE  StreamInv'
<1> DEFINE it == iterations[i]
<1>1. /\ it.at = "reading" /\ stream.body = "live" /\ it \in IterationState
      /\ stream.reader = i /\ stream.at = "accepted"
  BY ReaderHolds DEF ChunkArrives, StreamInv
<1>2. CASE it.wire = MaxWireChunks
  BY <1>1, <1>2, EndsKeeps DEF ChunkArrives
<1>3. CASE it.wire # MaxWireChunks
  <2>1. PICK frames \in Chunk, rest \in Rest :
          GoesOn(i, [it EXCEPT !.wire = @ + 1, !.frames = frames, !.rest = rest])
    BY <1>3 DEF ChunkArrives
  <2> DEFINE next == [it EXCEPT !.wire = @ + 1, !.frames = frames, !.rest = rest]
  <2>2. frames \in Seq(Frame) /\ rest \in Frame \cup {NoFrame} /\ it.wire + 1 \in Nat
    BY <1>1, StreamAssumption DEF IterationState
  <2>3. next \in IterationState
    BY <1>1, <2>2 DEF IterationState
  <2>4. /\ next.ends = it.ends /\ next.last = it.last /\ next.given = it.given /\ next.how = it.how
        /\ next.at = it.at /\ next.wire = it.wire + 1
    BY <1>1 DEF IterationState
  <2>5. next.wire # 0
    BY <1>1, <2>4 DEF IterationState
  <2>6. \A j \in Iteration \ {i} : ~Touched(iterations[j])
    BY <1>1, Alone
  <2>7. Ready(i, next)
    <3>. HIDE DEF next
    <3>. QED
      BY <1>1, <2>3, <2>4, <2>5, <2>6 DEF Ready
  <2>. HIDE DEF next
  <2>. QED
    BY <1>1, <2>1, <2>7, GoesOnKeeps DEF next
<1>. QED
  BY <1>2, <1>3

LEMMA BodyEndsKeeps ==
  ASSUME StreamInv, NEW i \in Iteration, BodyEnds(i)
  PROVE  StreamInv'
<1> DEFINE it == iterations[i]
           frames == IF it.rest = NoFrame THEN <<>> ELSE <<it.rest>>
           next == [it EXCEPT !.drained = TRUE, !.rest = NoFrame, !.frames = frames]
<1>1. /\ it.at = "reading" /\ it \in IterationState
      /\ stream.reader = i /\ stream.at = "accepted"
  BY ReaderHolds DEF BodyEnds, StreamInv
<1>2. frames \in Seq(Frame)
  <2>1. it.rest \in Frame \cup {NoFrame}
    BY <1>1 DEF IterationState
  <2>. QED
    BY <2>1
<1>. HIDE DEF frames
<1>3. next \in IterationState
  BY <1>1, <1>2 DEF IterationState
<1>4. /\ next.ends = it.ends /\ next.last = it.last /\ next.given = it.given /\ next.how = it.how
      /\ next.at = it.at /\ next.wire = it.wire /\ next.frames = frames /\ next.rest = NoFrame
  BY <1>1 DEF IterationState
<1>5. it.wire = 0 => frames = <<>>
  BY DEF frames, StreamInv, ReaderInv
<1>6. Touched(next) => \A j \in Iteration \ {i} : ~Touched(iterations[j])
  BY <1>4 DEF Touched, StreamInv, ReaderInv
<1>7. Ready(i, next)
  <2>. HIDE DEF next
  <2>. QED
    BY <1>1, <1>3, <1>4, <1>5, <1>6 DEF Ready
<1>8. GoesOn(i, next)
  BY DEF BodyEnds, frames
<1>. HIDE DEF next
<1>. QED
  BY <1>1, <1>7, <1>8, GoesOnKeeps

LEMMA StreamKeeps ==
  ASSUME StreamInv, StreamNext
  PROVE  StreamInv'
<1>1. CASE BeginStream \/ StreamCredential \/ StreamResponds \/ StreamTimeout
  BY <1>1, OpeningKeeps
<1>2. ASSUME NEW i \in Iteration, IterationNext(i) PROVE StreamInv'
  <2>1. CASE Pull(i)
    <3>1. CASE iterations[i].at = "new" /\ stream.reader # Nobody /\ Locked(i)
      BY <2>1, <3>1, LockedKeeps DEF Pull
    <3>2. CASE iterations[i].at = "new" /\ stream.reader = Nobody /\ Reads(i, iterations[i])
      BY <2>1, <3>2, BusyReady, ReadsKeeps DEF Pull
    <3>3. CASE iterations[i].at = "held" /\ GoesOn(i, iterations[i])
      BY <3>3, BusyReady, ReaderHolds, GoesOnKeeps
    <3>. QED
      BY <2>1, <3>1, <3>2, <3>3 DEF Pull
  <2>2. CASE Leave(i)
    BY <2>2, ReaderHolds, EndsKeeps DEF Leave
  <2>3. CASE ChunkArrives(i)
    BY <2>3, ChunkKeeps
  <2>4. CASE BodyEnds(i)
    BY <2>4, BodyEndsKeeps
  <2>5. CASE BodyBreaks(i)
    BY <2>5, ReaderHolds, EndsKeeps DEF BodyBreaks
  <2>. QED
    BY <1>2, <2>1, <2>2, <2>3, <2>4, <2>5 DEF IterationNext
<1>. QED
  BY <1>1, <1>2 DEF StreamNext

-----------------------------------------------------------------------------
(* Both calls.                                                             *)

LEMMA AbortKeeps ==
  ASSUME IInv, CallerAborts
  PROVE  IInv'
<1>1. http' \in HttpCall /\ HttpInv'
  BY HttpAbortKeeps DEF CallerAborts, IInv, TypeOK
<1>2. StreamInv /\ stream \in StreamCall
  BY DEF IInv, TypeOK, StreamInv
<1>3. /\ stream' \in StreamCall /\ stream'.at = stream.at /\ stream'.reader = stream.reader
      /\ stream'.body \in {stream.body, "dead"} /\ stream'.watched = stream.watched
      /\ stream.watched => stream'.aborted
  BY <1>2 DEF CallerAborts, StreamOnAbort, StreamAborted, StreamCall
<1>4. OpeningInv'
  BY <1>2, <1>3 DEF StreamInv, OpeningInv
<1>5. StreamInv'
  BY <1>2, <1>3, <1>4, CallKeeps DEF CallerAborts
<1>6. signal' \in BOOLEAN
  BY DEF CallerAborts
<1>. QED
  BY <1>1, <1>5, <1>6 DEF IInv, TypeOK, StreamInv

\* Whatever its iterations do, an accepted stream stays one.
LEMMA GoingOnAccepts ==
  ASSUME stream \in StreamCall, NEW i \in Iteration, NEW it, GoesOn(i, it) \/ Reads(i, it)
  PROVE  stream'.at = stream.at
<1>1. Close(i).at = stream.at
  BY CloseType
<1>2. CASE Reads(i, it)
  BY <1>2 DEF Reads, StreamCall
<1>3. CASE GoesOn(i, it)
  BY <1>1, <1>2, <1>3 DEF GoesOn, Gives, Finishes, Ends, StreamCall
<1>. QED
  BY <1>2, <1>3

LEMMA StaysAccepted ==
  ASSUME StreamInv, NEW i \in Iteration, IterationNext(i)
  PROVE  stream'.at = "accepted"
<1>1. stream \in StreamCall /\ Close(i).at = stream.at
  BY CloseType DEF StreamInv
<1>2. CASE Pull(i)
  BY <1>1, <1>2, GoingOnAccepts, CleanupType DEF Pull, Locked
<1>3. CASE Leave(i)
  BY <1>1, <1>3, ReaderHolds DEF Leave, Ends
<1>4. CASE ChunkArrives(i)
  BY <1>1, <1>4, ReaderHolds, GoingOnAccepts DEF ChunkArrives, Ends
<1>5. CASE BodyEnds(i)
  BY <1>1, <1>5, ReaderHolds, GoingOnAccepts DEF BodyEnds
<1>6. CASE BodyBreaks(i)
  BY <1>1, <1>6, ReaderHolds DEF BodyBreaks, Ends
<1>. QED
  BY <1>2, <1>3, <1>4, <1>5, <1>6 DEF IterationNext

LEMMA SignalKept ==
  /\ HttpNext => signal' = signal
  /\ StreamNext => signal' = signal
<1>1. HttpNext => signal' = signal
  BY DEF HttpNext, BeginHttp, HttpTimeout, HttpCredential, HttpResponds, HttpChunk, HttpBodyEnds
<1>2. StreamNext => signal' = signal
  BY DEF StreamNext, BeginStream, StreamCredential, StreamResponds, StreamTimeout, IterationNext,
         Pull, Leave, ChunkArrives, BodyEnds, BodyBreaks
<1>. QED
  BY <1>1, <1>2

LEMMA NextIInv == IInv /\ [Next]_vars => IInv'
<1>. SUFFICES ASSUME IInv, [Next]_vars PROVE IInv'
  OBVIOUS
<1>1. ASSUME HttpNext, UNCHANGED <<stream, iterations>> PROVE IInv'
  <2>1. http' \in HttpCall /\ HttpInv'
    BY <1>1, HttpKeeps DEF IInv, TypeOK
  <2>2. signal' = signal
    BY <1>1, SignalKept
  <2>. QED
    BY <1>1, <2>1, <2>2 DEF IInv, TypeOK, OpeningInv, ReaderInv, EndInv, Touched
<1>2. ASSUME StreamNext, UNCHANGED http PROVE IInv'
  <2>1. StreamInv'
    BY <1>2, StreamKeeps DEF IInv, TypeOK, StreamInv
  <2>2. signal' = signal
    BY <1>2, SignalKept
  <2>3. http' \in HttpCall /\ HttpInv' /\ signal' \in BOOLEAN
    BY <1>2, <2>2 DEF IInv, TypeOK, HttpInv
  <2>. QED
    BY <2>1, <2>3 DEF IInv, TypeOK, StreamInv
<1>3. CASE CallerAborts
  BY <1>3, AbortKeeps
<1>4. CASE UNCHANGED vars
  BY <1>4 DEF vars, IInv, TypeOK, HttpInv, OpeningInv, ReaderInv, EndInv, Touched
<1>. QED
  BY <1>1, <1>2, <1>3, <1>4 DEF Next

\* The invariant that the rest follows from: a call that goes on was not aborted,
\* and one iteration at a time has the body.
THEOREM TransportsInvHolds == Spec => []IInv
<1>. QED
  BY InitIInv, NextIInv, PTL DEF Spec

\* Calls, sessions and iterations keep the forms the runtimes give them.
THEOREM TransportsTypeOK == Spec => []TypeOK
<1>1. IInv => TypeOK
  BY DEF IInv
<1>. QED
  BY <1>1, TransportsInvHolds, PTL

\* A result that a buffered call returns is within its limit, and its call was not
\* aborted before, for any limit and any chunks.
THEOREM ResultsAreBounded == Spec => []ResultIsBounded
<1>1. IInv => ResultIsBounded
  BY DEF IInv, HttpInv, ResultIsBounded
<1>. QED
  BY <1>1, TransportsInvHolds, PTL

\* What ends as complete was delivered with its one end, and nothing after it,
\* whatever frames the chunks and the rests hold.
THEOREM CompleteAnswersAreWhole == Spec => []CompleteIsWhole
<1>1. IInv => CompleteIsWhole
  BY DEF IInv, EndInv, CompleteIsWhole
<1>. QED
  BY <1>1, TransportsInvHolds, PTL

\* The events of a session go to one of its iterations, however many there are.
THEOREM OneIterationHasTheEvents == Spec => []OneIterationDelivers
<1>1. IInv => OneIterationDelivers
  BY DEF IInv, ReaderInv, Touched, OneIterationDelivers
<1>. QED
  BY <1>1, TransportsInvHolds, PTL

\* No request of either runtime is sent once its host has aborted it, or its
\* timer has fired.
THEOREM NothingIsSentLate == Spec => NothingSentLate
<1> DEFINE Timely ==
      /\ http.at # "fetch" /\ http'.at = "fetch" => ~signal /\ ~http.aborted /\ http.outcome = "pending"
      /\ stream.at # "fetch" /\ stream'.at = "fetch" => ~signal /\ ~stream.aborted
<1>1. ASSUME IInv, HttpNext, UNCHANGED <<stream, iterations>> PROVE Timely
  <2>1. ASSUME http.at # "fetch", http'.at = "fetch" PROVE HttpCredential /\ ~http.aborted
    <3>1. http \in HttpCall
      BY <1>1 DEF IInv, TypeOK
    <3>2. CASE HttpCredential
      BY <2>1, <3>1, <3>2, WorkEndsIs DEF HttpCredential
    <3>3. CASE BeginHttp \/ HttpResponds
      BY <2>1, <3>1, <3>3, HttpTypes, WorkEndsIs DEF BeginHttp, HttpResponds, HttpCall
    <3>4. CASE HttpTimeout
      BY <2>1, <3>1, <3>4, HttpAbortedIs DEF HttpTimeout
    <3>5. CASE HttpChunk
      BY <2>1, <3>1, <3>5, HttpTypes, WorkEndsIs DEF HttpChunk, HttpCall
    <3>6. CASE HttpBodyEnds
      BY <2>1, <3>1, <3>6, WorkEndsIs DEF HttpBodyEnds
    <3>. QED
      BY <1>1, <3>2, <3>3, <3>4, <3>5, <3>6 DEF HttpNext
  <2>. QED
    BY <1>1, <2>1 DEF HttpCredential, IInv, HttpInv
<1>2. ASSUME IInv, StreamNext, UNCHANGED http PROVE Timely
  <2>1. stream \in StreamCall
    BY <1>2 DEF IInv, TypeOK
  <2>2. ASSUME stream.at # "fetch", stream'.at = "fetch" PROVE StreamCredential /\ ~stream.aborted
    <3>1. OpenFails => stream'.at = "failed"
      BY <2>1, CleanupType DEF OpenFails, StreamCall
    <3>2. (BeginStream \/ StreamResponds \/ StreamTimeout) => FALSE
      BY <2>1, <2>2, <3>1, CleanupType
      DEF BeginStream, StreamResponds, StreamTimeout, StreamAborted, StreamCall
    <3>3. ASSUME NEW i \in Iteration, IterationNext(i) PROVE FALSE
      BY <1>2, <2>2, <3>3, StaysAccepted DEF IInv, TypeOK, StreamInv
    <3>4. StreamCredential
      BY <1>2, <3>2, <3>3 DEF StreamNext
    <3>. QED
      BY <2>2, <3>1, <3>4 DEF StreamCredential
  <2>. QED
    BY <1>2, <2>2 DEF StreamCredential, IInv, OpeningInv
<1>3. ASSUME IInv, CallerAborts PROVE Timely
  <2>1. http \in HttpCall /\ stream \in StreamCall
    BY <1>3 DEF IInv, TypeOK
  <2>. QED
    BY <1>3, <2>1, HttpAbortedIs
    DEF CallerAborts, HttpOnAbort, StreamOnAbort, StreamAborted, StreamCall
<1>4. UNCHANGED vars => Timely
  BY DEF vars
<1>5. IInv /\ [Next]_vars => [Timely]_vars
  BY <1>1, <1>2, <1>3, <1>4 DEF Next
<1>. QED
  BY <1>5, TransportsInvHolds, PTL DEF Spec, NothingSentLate
=============================================================================
