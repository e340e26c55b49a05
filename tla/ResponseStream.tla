---------------------------- MODULE ResponseStream ----------------------------
(***************************************************************************)
(* One streamed response and the readers that resume it: HermesRelay and   *)
(* _FrameStreamWriter of relay.py, ResponseBuffer and its registry of      *)
(* response_buffer.py, within one session of the gateway.                  *)
(*                                                                         *)
(* All of it runs on one event loop, so a step here is what a task does    *)
(* between two awaits; what it awaits are sends, which are slow and can    *)
(* fail.  The dispatcher that produces the response is a stranger: it      *)
(* writes some chunks, then returns, raises or hangs.  Chunk n is the n-th *)
(* one it writes.  Bug operators stand for mistakes in the definition that *)
(* follows.                                                                *)
(***************************************************************************)
EXTENDS Integers, Sequences

CONSTANTS
    Reader,     \* response_resume requests
    MaxChunks,  \* bound: chunks of the response
    MaxBuffered \* max_bytes of the registry, in chunks

ASSUME SizeAssumption == MaxChunks \in Nat /\ MaxBuffered \in Nat

VARIABLES
    idAt,       \* the chunk in which the response id is recognised
    session,    \* whether the session is up
    req,        \* the task of the request
    finished,   \* _finished of the writer
    written,    \* chunks handed to send_chunk
    sent,       \* frames sent for the request: how many chunks, what endings
    preroll,    \* _preroll of the writer
    buffer,     \* the ResponseBuffer
    registered, \* whether the registry has it
    reader      \* the tasks of the resume requests

vars == <<idAt, session, req, finished, written, sent, preroll, buffer, registered,
          reader>>

Chunks == Seq(1..MaxChunks)
NoBuffer == [state |-> "none", chunks |-> <<>>, aged |-> FALSE]
Unused == [pc |-> "off", after |-> 0, cursor |-> 0, pending |-> <<>>, n |-> 0,
           got |-> <<>>]

TypeOK ==
    /\ idAt \in 1..(MaxChunks + 1)
    /\ session \in BOOLEAN
    /\ req \in {"writing", "sending", "ending", "erroring", "ended", "failed"}
    /\ finished \in BOOLEAN
    /\ written \in 0..MaxChunks
    /\ sent \in [chunks : 0..MaxChunks, endings : SUBSET {"end", "error"}]
    /\ preroll \in Chunks
    /\ buffer \in [state : {"none", "open", "complete"}, chunks : Chunks,
                   aged : BOOLEAN]
    /\ registered \in BOOLEAN
    /\ reader \in [Reader ->
         [pc : {"off", "headers", "drain", "send", "wait", "end", "ended",
                "unknown", "gone"},
          after : 0..(MaxChunks + 1), cursor : 0..(MaxChunks + 1),
          pending : Chunks, n : 0..MaxChunks, got : Chunks]]

Init ==
    /\ idAt \in 1..(MaxChunks + 1)
    /\ session = TRUE
    /\ req = "writing"
    /\ finished = FALSE
    /\ written = 0
    /\ sent = [chunks |-> 0, endings |-> {}]
    /\ preroll = <<>>
    /\ buffer = NoBuffer
    /\ registered = FALSE
    /\ reader = [r \in Reader |-> Unused]

-----------------------------------------------------------------------------
(* The request: _run and _FrameStreamWriter                                 *)

\* progressed.set() resolves every waiter at once.
Wake == reader' = [r \in Reader |-> IF reader[r].pc = "wait"
                                    THEN [reader[r] EXCEPT !.pc = "drain"]
                                    ELSE reader[r]]

BugAppendWithoutPreroll(n) ==
    IF buffer.state = "open"
    THEN /\ buffer' = [buffer EXCEPT !.chunks = Append(@, n)]
         /\ Wake
         /\ UNCHANGED <<preroll, registered>>
    ELSE IF n < idAt
    THEN /\ preroll' = Append(preroll, n)
         /\ UNCHANGED <<buffer, registered, reader>>
    ELSE /\ buffer' = [NoBuffer EXCEPT !.state = "open", !.chunks = <<n>>]
         /\ registered' = TRUE
         /\ preroll' = <<>>
         /\ UNCHANGED reader

\* _append_buffer
AppendBuffer(n) ==
    \/ /\ buffer.state = "open"
       /\ buffer' = [buffer EXCEPT !.chunks = Append(@, n)]
       /\ Wake
       /\ UNCHANGED <<preroll, registered>>
    \/ /\ buffer.state = "none" /\ n < idAt
       /\ preroll' = Append(preroll, n)
       /\ UNCHANGED <<buffer, registered, reader>>
    \/ /\ buffer.state = "none" /\ n >= idAt
       /\ buffer' = [NoBuffer EXCEPT !.state = "open",
                                     !.chunks = Append(preroll, n)]
       /\ registered' = TRUE
       /\ preroll' = <<>>
       /\ UNCHANGED reader

\* send_chunk, up to its send
SendChunk ==
    /\ req = "writing"
    /\ written < MaxChunks
    /\ written' = written + 1
    /\ AppendBuffer(written + 1)
    /\ req' = "sending"
    /\ UNCHANGED <<idAt, session, finished, sent>>

SentChunk ==
    /\ req = "sending"
    /\ req' = "writing"
    /\ sent' = [sent EXCEPT !.chunks = @ + 1]
    /\ UNCHANGED <<idAt, session, finished, written, preroll, buffer, registered, reader>>

BugFinalizeSilently ==
    /\ buffer' = IF buffer.state = "open"
                 THEN [buffer EXCEPT !.state = "complete"] ELSE buffer
    /\ UNCHANGED reader

\* finalize
Finalize ==
    /\ buffer' = IF buffer.state = "open"
                 THEN [buffer EXCEPT !.state = "complete"] ELSE buffer
    /\ Wake

\* finish, up to its send
Finish ==
    /\ req = "writing"
    /\ Finalize
    /\ finished' = TRUE
    /\ req' = "ending"
    /\ UNCHANGED <<idAt, session, written, sent, preroll, registered>>

SentEnd ==
    /\ req = "ending"
    /\ req' = "ended"
    /\ sent' = [sent EXCEPT !.endings = @ \cup {"end"}]
    /\ UNCHANGED <<idAt, session, finished, written, preroll, buffer, registered, reader>>

BugAbandon == Finalize /\ UNCHANGED registered

\* abandon, which does nothing once finish has been called
Abandon ==
    \/ finished /\ UNCHANGED <<buffer, registered, reader>>
    \/ ~finished /\ Finalize /\ registered' = FALSE

\* A frame whose send is interrupted may be out or not.
Interrupted ==
    \/ UNCHANGED sent
    \/ req = "sending" /\ sent' = [sent EXCEPT !.chunks = @ + 1]
    \/ req = "ending" /\ sent' = [sent EXCEPT !.endings = @ \cup {"end"}]

\* No progress within VYLEN_HERMES_TIMEOUT: the dispatcher is cancelled,
\* wherever it waits.
Timeout ==
    /\ req \in {"writing", "sending", "ending"}
    /\ Interrupted
    /\ Abandon
    /\ req' = "erroring"
    /\ UNCHANGED <<idAt, session, finished, written, preroll>>

\* The dispatcher raises, or a send does because the socket is gone.
Crash ==
    /\ req \in {"writing", "sending", "ending"}
    /\ Abandon
    /\ req' = "erroring"
    /\ UNCHANGED <<idAt, session, finished, written, sent, preroll>>

SendError ==
    /\ req = "erroring"
    /\ req' = "failed"
    /\ \/ sent' = [sent EXCEPT !.endings = @ \cup {"error"}]
       \/ UNCHANGED sent
    /\ UNCHANGED <<idAt, session, finished, written, preroll, buffer, registered, reader>>

-----------------------------------------------------------------------------
(* The registry                                                             *)

GraceExpires ==
    /\ buffer.state = "complete" /\ ~buffer.aged
    /\ buffer' = [buffer EXCEPT !.aged = TRUE]
    /\ UNCHANGED <<idAt, session, req, finished, written, sent, preroll, registered,
                   reader>>

Evictable == buffer.aged \/ Len(buffer.chunks) > MaxBuffered

Sweep ==
    /\ registered /\ Evictable
    /\ registered' = FALSE
    /\ UNCHANGED <<idAt, session, req, finished, written, sent, preroll, buffer, reader>>

\* _teardown_session cancels every task of the relay and forgets the
\* registry; the next session has a new one.
Teardown ==
    /\ session
    /\ session' = FALSE
    /\ registered' = FALSE
    /\ buffer' = IF req \in {"writing", "sending"} /\ buffer.state = "open"
                 THEN [buffer EXCEPT !.state = "complete"] ELSE buffer
    /\ req' = IF req = "ended" THEN req ELSE "failed"
    /\ reader' = [r \in Reader |->
         IF reader[r].pc \in {"off", "ended", "unknown"} THEN reader[r]
         ELSE [reader[r] EXCEPT !.pc = "gone"]]
    /\ UNCHANGED <<idAt, finished, written, sent, preroll>>

-----------------------------------------------------------------------------
(* A resume request: _run_resume                                            *)

Step(r, s) == reader' = [reader EXCEPT ![r] = s]
Goto(r, pc) == Step(r, [reader[r] EXCEPT !.pc = pc])
ReaderOnly ==
    UNCHANGED <<idAt, session, req, finished, written, sent, preroll, buffer, registered>>

\* The client may ask for any position, past the end included.
Resume(r, after) ==
    /\ reader[r].pc = "off"
    /\ IF registered
       THEN Step(r, [Unused EXCEPT !.pc = "headers", !.after = after,
                                   !.cursor = after])
       ELSE Goto(r, "unknown")
    /\ ReaderOnly

SentHeaders(r) == reader[r].pc = "headers" /\ Goto(r, "drain") /\ ReaderOnly

Pending(r) == SubSeq(buffer.chunks, reader[r].cursor + 1, Len(buffer.chunks))

\* The snapshot of what is pending and, when nothing is, the decision to end
\* or to wait, in one go.
Drain(r) ==
    /\ reader[r].pc = "drain"
    /\ \/ /\ Pending(r) # <<>>
          /\ Step(r, [reader[r] EXCEPT !.pc = "send", !.pending = Pending(r),
                                       !.n = 0])
       \/ Pending(r) = <<>> /\ buffer.state = "complete" /\ Goto(r, "end")
       \/ Pending(r) = <<>> /\ buffer.state = "open" /\ Goto(r, "wait")
    /\ ReaderOnly

BugAdvance(r) == Len(buffer.chunks)

\* Where the cursor goes after a snapshot: past what was sent, not past what
\* has been appended meanwhile.
Advance(r) == reader[r].cursor + Len(reader[r].pending)

SentPending(r) ==
    LET n == reader[r].n + 1
        next == [reader[r] EXCEPT !.n = n,
                                  !.got = Append(@, reader[r].pending[n])]
    IN  /\ reader[r].pc = "send"
        /\ Step(r, IF n < Len(reader[r].pending) THEN next
                   ELSE [next EXCEPT !.pc = "drain", !.cursor = Advance(r),
                                     !.pending = <<>>, !.n = 0])
        /\ ReaderOnly

SentReaderEnd(r) == reader[r].pc = "end" /\ Goto(r, "ended") /\ ReaderOnly

ReaderSendFails(r) ==
    /\ reader[r].pc \in {"headers", "send", "end"}
    /\ Goto(r, "gone")
    /\ ReaderOnly

-----------------------------------------------------------------------------

RequestStep == SendChunk \/ SentChunk \/ Finish \/ SentEnd \/ Timeout \/ Crash \/ SendError

ReaderStep(r) == SentHeaders(r) \/ Drain(r) \/ SentPending(r) \/ SentReaderEnd(r)

Next ==
    \/ RequestStep
    \/ GraceExpires
    \/ Sweep
    \/ Teardown
    \/ \E r \in Reader : \/ ReaderStep(r)
                         \/ ReaderSendFails(r)
                         \/ \E after \in 0..(MaxChunks + 1) : Resume(r, after)

(***************************************************************************)
(* The loop runs every ready task and sends complete or fail.  A request   *)
(* always takes another step, if only because a dispatcher that hangs is   *)
(* timed out; that is so unless VYLEN_HERMES_TIMEOUT is "none".            *)
(***************************************************************************)
Spec ==
    /\ Init /\ [][Next]_vars
    /\ WF_vars(RequestStep)
    /\ \A r \in Reader : WF_vars(ReaderStep(r))

-----------------------------------------------------------------------------
(* Properties                                                               *)

Iota(m, n) == [i \in 1..(n - m + 1) |-> m + i - 1]

\* The buffer holds the response from its first byte, although it is created
\* only when the id turns up, and is never behind what the client was sent.
BufferHoldsAll ==
    /\ IF buffer.state = "none" THEN preroll = Iota(1, written)
       ELSE preroll = <<>> /\ buffer.chunks = Iota(1, written)
    /\ sent.chunks <= written

\* A resumed reader gets the chunks after its cursor, in order, none skipped
\* and none twice, whatever is appended while it sends; when it is told that
\* the response ends it has had all of them.
ReaderGetsRest ==
    \A r \in Reader :
        LET s == reader[r]
        IN  /\ s.got = Iota(s.after + 1, s.after + Len(s.got))
            /\ s.pc \in {"end", "ended"} /\ s.after <= written =>
                  s.after + Len(s.got) = written

\* A response that ended normally stays resumable for its grace period, and
\* one that was cut off is not resumable at all, so that a client is not given
\* a truncated reply for a whole one by a resume that starts later.
RegistryKeepsWhole ==
    /\ registered => session /\ (buffer.state = "complete" <=> finished)
    /\ session /\ finished /\ buffer.state = "complete" /\ ~Evictable => registered

\* A reader that waits is woken: once it resumes it is served to an end of its
\* stream, whether the response is completed, crashes or times out.
ReaderServed ==
    \A r \in Reader :
        reader[r].pc = "headers" ~> reader[r].pc \in {"ended", "gone"}

=============================================================================
