------------------------- MODULE ResponseStreamProofs -------------------------
(***************************************************************************)
(* Proofs about ResponseStream, for any readers, any number of chunks and  *)
(* any size of the registry: the buffer has the whole response, a reader   *)
(* gets the rest of it without gap or repetition, what can be resumed is   *)
(* whole, and every variable keeps its type.                               *)
(***************************************************************************)
EXTENDS ResponseStream, SequenceTheorems, TLAPS

(* The buffer: it has every chunk that was written, and is not resumable   *)
(* unless it is whole or still written.                                    *)
BufferFields == DOMAIN buffer = {"state", "chunks", "aged"}
                /\ buffer.state \in {"none", "open", "complete"}

BufferInv ==
    /\ written \in Nat /\ sent.chunks \in Nat /\ DOMAIN sent = {"chunks", "endings"}
    /\ BufferFields
    /\ BufferHoldsAll
    /\ req = "sending" => sent.chunks < written

(* The request: who wrote the ending, and whether the registry has it.     *)
RequestInv ==
    /\ req \in {"writing", "sending"} => session /\ ~finished /\ buffer.state # "complete"
    /\ buffer.state = "open" => ~finished
    /\ registered => buffer.state # "none"
    /\ buffer.state = "open" => ~buffer.aged
    /\ session /\ buffer.state = "open" /\ written <= MaxBuffered => registered
    /\ registered => session /\ (buffer.state = "complete" <=> finished)
    /\ session /\ finished /\ buffer.state = "complete" /\ ~buffer.aged
         /\ written <= MaxBuffered => registered

(* A reader: what it got ends where its cursor is, but for the part of the *)
(* snapshot it has sent.                                                   *)
Serving == {"headers", "drain", "send", "wait", "end", "ended"}

ReaderFields(s) ==
    /\ DOMAIN s = {"pc", "after", "cursor", "pending", "n", "got"}
    /\ s.after \in Nat /\ s.cursor \in Nat /\ s.n \in Nat /\ Len(s.got) \in Nat

Position(s) ==
    /\ s.pc \in {"headers", "drain", "wait"} => s.cursor = s.after + Len(s.got)
    /\ s.pc = "send" =>
         /\ s.cursor + s.n = s.after + Len(s.got)
         /\ Len(s.pending) \in Nat
         /\ s.pending = Iota(s.cursor + 1, s.cursor + Len(s.pending))
         /\ s.n < Len(s.pending)

ReaderInv(s, w, state) ==
    /\ ReaderFields(s) /\ Position(s)
    /\ s.got = Iota(s.after + 1, s.after + Len(s.got))
    /\ Len(s.got) > 0 => s.after + Len(s.got) <= w
    /\ s.pc = "send" => s.cursor + Len(s.pending) <= w
    /\ s.pc \in Serving => state # "none"
    /\ s.pc \in {"end", "ended"} =>
         /\ state = "complete"
         /\ s.after <= w => s.after + Len(s.got) = w

ReadersInv ==
    /\ reader = [r \in Reader |-> reader[r]]
    /\ \A r \in Reader : ReaderInv(reader[r], written, buffer.state)

IInv == BufferInv /\ RequestInv /\ ReadersInv

-----------------------------------------------------------------------------
(* Lemmas about runs of numbers.                                           *)

LEMMA IotaSeq ==
  ASSUME NEW m \in Nat, NEW n \in Int, n - m + 1 \in Nat
  PROVE  /\ Iota(m, n) \in Seq(Nat)
         /\ Len(Iota(m, n)) = n - m + 1
         /\ \A i \in 1..(n - m + 1) : Iota(m, n)[i] = m + i - 1
  BY DEF Iota

LEMMA IotaEmpty == ASSUME NEW n \in Nat PROVE Iota(n + 1, n) = <<>>
<1>1. Iota(n + 1, n) \in Seq(Nat) /\ Len(Iota(n + 1, n)) = 0
  BY IotaSeq
<1> QED BY <1>1

LEMMA IotaAppend ==
  ASSUME NEW m \in Nat, NEW n \in Nat, m <= n + 1
  PROVE  Append(Iota(m, n), n + 1) = Iota(m, n + 1)
<1>1. Iota(m, n) \in Seq(Nat) /\ Len(Iota(m, n)) = n - m + 1
      /\ \A i \in 1..(n - m + 1) : Iota(m, n)[i] = m + i - 1
  BY IotaSeq
<1>2. Iota(m, n + 1) \in Seq(Nat) /\ Len(Iota(m, n + 1)) = n - m + 2
      /\ \A i \in 1..(n - m + 2) : Iota(m, n + 1)[i] = m + i - 1
  BY IotaSeq
<1> DEFINE s == Append(Iota(m, n), n + 1)
<1>3. s \in Seq(Nat) /\ Len(s) = n - m + 2
      /\ \A i \in 1..(n - m + 2) : s[i] = m + i - 1
  BY <1>1
<1> HIDE DEF s
<1>4. s = Iota(m, n + 1)
  BY <1>2, <1>3, SeqEqual
<1> QED BY <1>4 DEF s

LEMMA IotaItem ==
  ASSUME NEW c \in Nat, NEW k \in Nat, NEW n \in 1..k
  PROVE  Iota(c + 1, c + k)[n] = c + n
<1>1. (c + k) - (c + 1) + 1 = k
  OBVIOUS
<1>2. n \in 1..((c + k) - (c + 1) + 1)
  BY <1>1
<1>3. Iota(c + 1, c + k)[n] = (c + 1) + n - 1
  BY <1>2 DEF Iota
<1> QED BY <1>3

LEMMA IotaRest ==
  ASSUME NEW c \in Nat, NEW n \in Nat
  PROVE  SubSeq(Iota(1, n), c + 1, Len(Iota(1, n))) = Iota(c + 1, n)
<1> DEFINE s == SubSeq(Iota(1, n), c + 1, n)
<1>1. Iota(1, n) \in Seq(Nat) /\ Len(Iota(1, n)) = n
      /\ \A i \in 1..n : Iota(1, n)[i] = i
  <2>1. n - 1 + 1 = n
    OBVIOUS
  <2> QED BY <2>1, IotaSeq
<1>2. CASE c <= n
  <2>1. s \in Seq(Nat) /\ Len(s) = n - c
        /\ \A i \in 1..(n - c) : s[i] = Iota(1, n)[c + i]
    BY <1>1, <1>2
  <2>2. \A i \in 1..(n - c) : s[i] = c + i
    BY <1>1, <1>2, <2>1
  <2>3. Iota(c + 1, n) \in Seq(Nat) /\ Len(Iota(c + 1, n)) = n - c
        /\ \A i \in 1..(n - c) : Iota(c + 1, n)[i] = c + i
    <3> DEFINE k == n - (c + 1) + 1
    <3>1. k = n - c /\ n - c \in Nat
      BY <1>2
    <3>2. Iota(c + 1, n) \in Seq(Nat) /\ Len(Iota(c + 1, n)) = k
          /\ \A i \in 1..k : Iota(c + 1, n)[i] = (c + 1) + i - 1
      BY <3>1 DEF Iota
    <3> HIDE DEF k
    <3> QED BY <3>1, <3>2
  <2> HIDE DEF s
  <2>4. s = Iota(c + 1, n)
    BY <2>1, <2>2, <2>3, SeqEqual
  <2> QED BY <1>1, <2>4 DEF s
<1>3. CASE c > n
  <2>1. s = <<>>
    BY <1>1, <1>3
  <2>2. Iota(c + 1, n) = <<>>
    <3>1. 1..(n - (c + 1) + 1) = {}
      BY <1>3
    <3> QED BY <3>1 DEF Iota
  <2> QED BY <1>1, <2>1, <2>2
<1> QED BY <1>2, <1>3

LEMMA BufferLength ==
  ASSUME BufferInv, buffer.state # "none"
  PROVE  buffer.chunks = Iota(1, written) /\ Len(buffer.chunks) = written
<1>1. buffer.chunks = Iota(1, written)
  BY DEF BufferInv, BufferHoldsAll
<1>2. written - 1 + 1 = written /\ written \in Nat
  BY DEF BufferInv
<1> QED BY <1>1, <1>2, IotaSeq

-----------------------------------------------------------------------------
(* Init and the steps of the request.                                      *)

LEMMA InitInv == ASSUME Init PROVE IInv
<1>1. /\ session = TRUE /\ req = "writing" /\ finished = FALSE /\ written = 0
      /\ sent = [chunks |-> 0, endings |-> {}]
      /\ preroll = <<>> /\ buffer = NoBuffer /\ registered = FALSE
      /\ reader = [r \in Reader |-> Unused]
  BY DEF Init
<1>2. BufferFields /\ buffer.state = "none"
  BY <1>1 DEF BufferFields, NoBuffer
<1>3. Iota(1, 0) = <<>>
  <2>1. Iota(0 + 1, 0) = <<>>
    BY IotaEmpty
  <2> QED BY <2>1
<1>4. BufferInv
  BY <1>1, <1>2, <1>3 DEF BufferInv, BufferHoldsAll
<1>5. RequestInv
  BY <1>1, <1>2 DEF RequestInv
<1>6. ReaderInv(Unused, written, buffer.state)
  <2>1. Unused.got = <<>> /\ Unused.after = 0 /\ Unused.pc = "off" /\ ReaderFields(Unused)
    BY DEF Unused, ReaderFields
  <2>2. Unused.got = Iota(Unused.after + 1, Unused.after + Len(Unused.got))
    BY <1>3, <2>1
  <2> QED BY <1>1, <1>2, <2>1, <2>2 DEF ReaderInv, Position, Serving
<1>7. ReadersInv
  BY <1>1, <1>6 DEF ReadersInv
<1> QED BY <1>4, <1>5, <1>7 DEF IInv

(* A reader that is left alone, woken or cancelled, while chunks may be    *)
(* added to a buffer that is not complete.                                 *)
LEMMA ReadersKept ==
  ASSUME IInv, written' \in Nat, written <= written',
         buffer.state = "complete" => buffer'.state = "complete" /\ written' = written,
         buffer.state # "none" => buffer'.state # "none",
         \/ UNCHANGED reader
         \/ Wake
         \/ reader' = [r \in Reader |->
              IF reader[r].pc \in {"off", "ended", "unknown"} THEN reader[r]
              ELSE [reader[r] EXCEPT !.pc = "gone"]]
  PROVE  ReadersInv'
<1>1. reader' = [r \in Reader |-> reader'[r]]
  BY DEF Wake, IInv, ReadersInv
<1>2. ASSUME NEW r \in Reader
      PROVE  ReaderInv(reader'[r], written', buffer'.state)
  <2> DEFINE s == reader[r]
             z == reader'[r]
  <2>1. /\ z.after = s.after /\ z.cursor = s.cursor /\ z.pending = s.pending
        /\ z.n = s.n /\ z.got = s.got /\ DOMAIN z = DOMAIN s
        /\ z.pc = s.pc \/ (z.pc = "drain" /\ s.pc = "wait") \/ z.pc = "gone"
    <3>1. DOMAIN s = {"pc", "after", "cursor", "pending", "n", "got"}
      BY DEF IInv, ReadersInv, ReaderInv, ReaderFields
    <3>2. z = s \/ (z = [s EXCEPT !.pc = "drain"] /\ s.pc = "wait") \/ z = [s EXCEPT !.pc = "gone"]
      BY DEF Wake
    <3> HIDE DEF s, z
    <3> QED BY <3>1, <3>2
  <2>2. ReaderInv(s, written, buffer.state)
    BY DEF IInv, ReadersInv
  <2>3. written \in Nat
    BY DEF IInv, BufferInv
  <2> HIDE DEF s, z
  <2>4. ReaderInv(z, written', buffer'.state)
    BY <2>1, <2>2, <2>3 DEF ReaderInv, ReaderFields, Position, Serving
  <2> QED BY <2>4 DEF z
<1> QED BY <1>1, <1>2 DEF ReadersInv

LEMMA SendChunkInv == ASSUME IInv, SendChunk PROVE IInv'
<1>1. /\ req = "writing" /\ req' = "sending" /\ written' = written + 1
      /\ UNCHANGED <<session, finished, sent>>
      /\ written \in Nat /\ written' \in Nat
  BY DEF SendChunk, IInv, BufferInv
<1>2. session /\ ~finished /\ buffer.state # "complete"
  BY <1>1 DEF IInv, RequestInv
<1>3. Append(Iota(1, written), written + 1) = Iota(1, written')
  <2>1. 1 <= written + 1
    BY <1>1
  <2> QED BY <1>1, <2>1, IotaAppend
<1>4. CASE buffer.state = "open"
  <2>1. buffer' = [buffer EXCEPT !.chunks = Append(@, written + 1)] /\ Wake
        /\ UNCHANGED <<preroll, registered>>
    BY <1>4 DEF SendChunk, AppendBuffer
  <2>2. /\ BufferFields' /\ buffer'.state = "open" /\ buffer'.aged = buffer.aged
        /\ buffer'.chunks = Iota(1, written')
    BY <1>3, <1>4, <2>1, BufferLength DEF IInv, BufferInv, BufferFields
  <2>3. BufferInv'
    BY <1>1, <1>4, <2>1, <2>2 DEF IInv, BufferInv, BufferHoldsAll
  <2>4. RequestInv'
    BY <1>1, <1>2, <1>4, <2>1, <2>2, SizeAssumption DEF IInv, RequestInv
  <2>5. ReadersInv'
    BY <1>1, <1>4, <2>1, <2>2, ReadersKept
  <2> QED BY <2>3, <2>4, <2>5 DEF IInv
<1>5. CASE buffer.state = "none"
  <2>1. UNCHANGED reader
    BY <1>5 DEF SendChunk, AppendBuffer
  <2>2. ReadersInv'
    BY <1>1, <1>5, <2>1, ReadersKept
  <2>3. preroll = Iota(1, written) /\ ~registered
    BY <1>5 DEF IInv, BufferInv, BufferHoldsAll, RequestInv
  <2>4. CASE preroll' = Append(preroll, written + 1) /\ UNCHANGED <<buffer, registered>>
    <3>1. BufferInv'
      BY <1>1, <1>3, <1>5, <2>3, <2>4 DEF IInv, BufferInv, BufferHoldsAll, BufferFields
    <3>2. RequestInv'
      BY <1>1, <1>2, <1>5, <2>3, <2>4 DEF IInv, RequestInv
    <3> QED BY <2>2, <3>1, <3>2 DEF IInv
  <2>5. CASE /\ buffer' = [NoBuffer EXCEPT !.state = "open",
                                           !.chunks = Append(preroll, written + 1)]
             /\ registered' = TRUE /\ preroll' = <<>>
    <3>1. /\ BufferFields' /\ buffer'.state = "open" /\ ~buffer'.aged
          /\ buffer'.chunks = Iota(1, written')
      BY <1>3, <2>3, <2>5 DEF NoBuffer, BufferFields
    <3>2. BufferInv'
      BY <1>1, <2>5, <3>1 DEF IInv, BufferInv, BufferHoldsAll
    <3>3. RequestInv'
      BY <1>1, <1>2, <2>5, <3>1 DEF RequestInv
    <3> QED BY <2>2, <3>2, <3>3 DEF IInv
  <2> QED BY <1>5, <2>4, <2>5 DEF SendChunk, AppendBuffer
<1> QED BY <1>2, <1>4, <1>5 DEF IInv, BufferInv, BufferFields

(* A step that closes the buffer, or leaves it, and writes no chunk.       *)
Closes ==
    buffer' = IF buffer.state = "open" THEN [buffer EXCEPT !.state = "complete"] ELSE buffer

LEMMA ClosesFacts ==
  ASSUME IInv, Closes \/ UNCHANGED buffer
  PROVE  /\ BufferFields' /\ buffer'.chunks = buffer.chunks /\ buffer'.aged = buffer.aged
         /\ Closes => buffer'.state = IF buffer.state = "open" THEN "complete" ELSE buffer.state
         /\ UNCHANGED buffer \/ buffer'.state = "complete"
         /\ buffer.state = "none" <=> buffer'.state = "none"
         /\ buffer.state = "complete" => buffer'.state = "complete"
<1>1. BufferFields
  BY DEF IInv, BufferInv
<1>2. CASE UNCHANGED buffer
  BY <1>1, <1>2 DEF BufferFields, Closes
<1>3. CASE buffer' = [buffer EXCEPT !.state = "complete"] /\ buffer.state = "open"
  BY <1>1, <1>3 DEF BufferFields, Closes
<1> QED BY <1>2, <1>3 DEF Closes

(* The frames that are out grow by the one in flight at most.              *)
LEMMA ClosingInv ==
  ASSUME IInv, Closes \/ UNCHANGED buffer,
         UNCHANGED <<written, preroll>>,
         DOMAIN sent' = {"chunks", "endings"},
         sent'.chunks = sent.chunks \/ (req = "sending" /\ sent'.chunks = sent.chunks + 1),
         req' # "sending",
         RequestInv',
         \/ UNCHANGED reader
         \/ Wake
         \/ reader' = [r \in Reader |->
              IF reader[r].pc \in {"off", "ended", "unknown"} THEN reader[r]
              ELSE [reader[r] EXCEPT !.pc = "gone"]]
  PROVE  IInv'
<1>1. BufferInv'
  BY ClosesFacts DEF IInv, BufferInv, BufferHoldsAll
<1>2. written \in Nat /\ written' = written
  BY DEF IInv, BufferInv
<1>3. ReadersInv'
  BY <1>2, ClosesFacts, ReadersKept
<1> QED BY <1>1, <1>3 DEF IInv

LEMMA SentFields ==
  ASSUME IInv,
         \/ UNCHANGED sent
         \/ sent' = [sent EXCEPT !.chunks = @ + 1]
         \/ \E e : sent' = [sent EXCEPT !.endings = @ \cup {e}]
  PROVE  /\ DOMAIN sent' = {"chunks", "endings"}
         /\ sent'.chunks = sent.chunks \/ sent' = [sent EXCEPT !.chunks = @ + 1]
         /\ sent' = [sent EXCEPT !.chunks = @ + 1] => sent'.chunks = sent.chunks + 1
  BY DEF IInv, BufferInv

LEMMA SendingSteps == ASSUME IInv, SentChunk \/ SentEnd \/ SendError PROVE IInv'
<1>1. /\ UNCHANGED <<buffer, written, preroll, reader, session, finished, registered>>
      /\ req' # "sending"
      /\ req' = "writing" => req = "sending"
  BY DEF SentChunk, SentEnd, SendError
<1>2. RequestInv'
  BY <1>1 DEF IInv, RequestInv
<1>3. DOMAIN sent' = {"chunks", "endings"}
      /\ (sent'.chunks = sent.chunks \/ (req = "sending" /\ sent'.chunks = sent.chunks + 1))
  <2>1. CASE SentChunk
    BY <2>1 DEF SentChunk, IInv, BufferInv
  <2>2. CASE SentEnd
    BY <2>2 DEF SentEnd, IInv, BufferInv
  <2>3. CASE SendError
    BY <2>3 DEF SendError, IInv, BufferInv
  <2> QED BY <2>1, <2>2, <2>3
<1> QED BY <1>1, <1>2, <1>3, ClosingInv

LEMMA FinishInv == ASSUME IInv, Finish PROVE IInv'
<1>1. /\ req = "writing" /\ req' = "ending" /\ finished' = TRUE
      /\ Closes /\ Wake
      /\ UNCHANGED <<session, written, sent, preroll, registered>>
  BY DEF Finish, Finalize, Closes
<1>2. session /\ ~finished /\ buffer.state # "complete" /\ BufferFields
  BY <1>1 DEF IInv, RequestInv, BufferInv
<1>3. RequestInv'
  BY <1>1, <1>2, ClosesFacts DEF IInv, RequestInv, BufferFields
<1> QED BY <1>1, <1>3, ClosingInv DEF IInv, BufferInv

LEMMA InterruptedInv == ASSUME IInv, Timeout \/ Crash PROVE IInv'
<1>1. /\ req' = "erroring"
      /\ UNCHANGED <<session, finished, written, preroll>>
      /\ Abandon
  BY DEF Timeout, Crash
<1>2. DOMAIN sent' = {"chunks", "endings"}
      /\ (sent'.chunks = sent.chunks \/ (req = "sending" /\ sent'.chunks = sent.chunks + 1))
  BY DEF Timeout, Crash, Interrupted, IInv, BufferInv
<1>3. CASE finished /\ UNCHANGED <<buffer, registered, reader>>
  <2>1. RequestInv'
    BY <1>1, <1>3 DEF IInv, RequestInv
  <2> QED BY <1>1, <1>2, <1>3, <2>1, ClosingInv
<1>4. CASE ~finished /\ Closes /\ Wake /\ registered' = FALSE
  <2>1. BufferFields
    BY DEF IInv, BufferInv
  <2>2. RequestInv'
    BY <1>1, <1>4, <2>1, ClosesFacts DEF RequestInv, BufferFields
  <2> QED BY <1>1, <1>2, <1>4, <2>2, ClosingInv
<1> QED BY <1>1, <1>3, <1>4 DEF Abandon, Finalize, Closes

LEMMA TeardownInv == ASSUME IInv, Teardown PROVE IInv'
<1>1. /\ session' = FALSE /\ registered' = FALSE
      /\ Closes \/ UNCHANGED buffer
      /\ req' \in {"ended", "failed"}
      /\ UNCHANGED <<finished, written, sent, preroll>>
      /\ buffer' # buffer => req \in {"writing", "sending"}
  BY DEF Teardown, Closes
<1>2. buffer'.state = "open" => ~finished /\ ~buffer'.aged
  BY <1>1, ClosesFacts DEF IInv, RequestInv
<1>3. RequestInv'
  BY <1>1, <1>2 DEF RequestInv
<1>4. DOMAIN sent' = {"chunks", "endings"} /\ sent'.chunks = sent.chunks
  BY <1>1 DEF IInv, BufferInv
<1> QED BY <1>1, <1>3, <1>4, ClosingInv DEF Teardown

-----------------------------------------------------------------------------
(* The registry.                                                           *)

LEMMA EvictableMeans ==
  ASSUME IInv, buffer.state # "none"
  PROVE  Evictable <=> buffer.aged \/ ~(written <= MaxBuffered)
<1>1. Len(buffer.chunks) = written /\ written \in Nat
  BY BufferLength DEF IInv, BufferInv
<1> QED BY <1>1, SizeAssumption DEF Evictable

LEMMA RegistryInv == ASSUME IInv, GraceExpires \/ Sweep PROVE IInv'
<1>1. UNCHANGED <<session, req, finished, written, sent, preroll, reader>>
  BY DEF GraceExpires, Sweep
<1>2. CASE GraceExpires
  <2>1. buffer.state = "complete" /\ buffer' = [buffer EXCEPT !.aged = TRUE]
        /\ UNCHANGED registered
    BY <1>2 DEF GraceExpires
  <2>2. BufferFields' /\ buffer'.state = "complete" /\ buffer'.chunks = buffer.chunks
        /\ buffer'.aged
    BY <2>1 DEF IInv, BufferInv, BufferFields
  <2>3. BufferInv'
    BY <1>1, <2>1, <2>2 DEF IInv, BufferInv, BufferHoldsAll
  <2>4. RequestInv'
    BY <1>1, <2>1, <2>2 DEF IInv, RequestInv
  <2>5. written \in Nat
    BY DEF IInv, BufferInv
  <2>6. ReadersInv'
    BY <1>1, <2>1, <2>2, <2>5, ReadersKept
  <2> QED BY <2>3, <2>4, <2>6 DEF IInv
<1>3. CASE Sweep
  <2>1. registered /\ Evictable /\ registered' = FALSE /\ UNCHANGED buffer
    BY <1>3 DEF Sweep
  <2>2. buffer.state # "none"
    BY <2>1 DEF IInv, RequestInv
  <2>3. buffer.aged \/ ~(written <= MaxBuffered)
    BY <2>1, <2>2, EvictableMeans
  <2>4. RequestInv'
    BY <1>1, <2>1, <2>3 DEF IInv, RequestInv
  <2>5. BufferInv' /\ ReadersInv'
    BY <1>1, <2>1 DEF IInv, BufferInv, BufferFields, BufferHoldsAll, ReadersInv
  <2> QED BY <2>4, <2>5 DEF IInv
<1> QED BY <1>2, <1>3

-----------------------------------------------------------------------------
(* The readers.                                                            *)

(* A reader takes a step of its own.                                       *)
LEMMA ReaderSteps ==
  ASSUME IInv, NEW r \in Reader, NEW z, Step(r, z), ReaderOnly,
         ReaderInv(z, written, buffer.state)
  PROVE  IInv'
<1>1. UNCHANGED <<session, req, finished, written, sent, preroll, buffer, registered>>
  BY DEF ReaderOnly
<1>2. BufferInv' /\ RequestInv'
  BY <1>1 DEF IInv, BufferInv, BufferFields, BufferHoldsAll, RequestInv
<1>3. reader' = [q \in Reader |-> IF q = r THEN z ELSE reader[q]]
  BY DEF Step, IInv, ReadersInv
<1>4. ReadersInv'
  BY <1>1, <1>3 DEF IInv, ReadersInv
<1> QED BY <1>2, <1>4 DEF IInv

LEMMA GotoInv ==
  ASSUME IInv, NEW r \in Reader, NEW pc, Goto(r, pc), ReaderOnly,
         \/ pc \in {"gone", "unknown"}
         \/ reader[r].pc = "headers" /\ pc = "drain"
         \/ reader[r].pc = "end" /\ pc = "ended"
         \/ /\ reader[r].pc = "drain"
            /\ \/ pc = "wait"
               \/ /\ pc = "end" /\ buffer.state = "complete"
                  /\ reader[r].after <= written =>
                       reader[r].after + Len(reader[r].got) = written
  PROVE  IInv'
<1> DEFINE s == reader[r]
           z == [s EXCEPT !.pc = pc]
<1>1. ReaderInv(s, written, buffer.state)
  BY DEF IInv, ReadersInv
<1>2. /\ z.after = s.after /\ z.cursor = s.cursor /\ z.pending = s.pending /\ z.n = s.n
      /\ z.got = s.got /\ z.pc = pc /\ DOMAIN z = DOMAIN s
  <2> HIDE DEF s
  <2> QED BY <1>1 DEF ReaderInv, ReaderFields
<1>3. Step(r, z)
  BY DEF Goto
<1> HIDE DEF z
<1>4. ReaderInv(z, written, buffer.state)
  BY <1>1, <1>2 DEF ReaderInv, ReaderFields, Position, Serving
<1> QED BY <1>3, <1>4, ReaderSteps

LEMMA ResumeInv == ASSUME IInv, NEW r \in Reader, NEW after \in Nat, Resume(r, after) PROVE IInv'
<1>1. CASE registered
  <2> DEFINE z == [Unused EXCEPT !.pc = "headers", !.after = after, !.cursor = after]
  <2>1. Step(r, z) /\ ReaderOnly
    BY <1>1 DEF Resume
  <2>2. /\ z.pc = "headers" /\ z.after = after /\ z.cursor = after /\ z.got = <<>> /\ z.n = 0
        /\ DOMAIN z = {"pc", "after", "cursor", "pending", "n", "got"}
    BY DEF Unused
  <2>3. buffer.state # "none"
    BY <1>1 DEF IInv, RequestInv
  <2> HIDE DEF z
  <2>4. z.got = Iota(z.after + 1, z.after + Len(z.got)) /\ Len(z.got) = 0
    BY <2>2, IotaEmpty
  <2>5. ReaderInv(z, written, buffer.state)
    BY <2>2, <2>3, <2>4 DEF ReaderInv, ReaderFields, Position
  <2> QED BY <2>1, <2>5, ReaderSteps
<1>2. CASE ~registered
  BY <1>2, GotoInv DEF Resume
<1> QED BY <1>1, <1>2

(* What is pending is what was written behind the cursor.                  *)
LEMMA PendingIs ==
  ASSUME IInv, NEW r \in Reader, buffer.state # "none", reader[r].cursor \in Nat
  PROVE  /\ Pending(r) = Iota(reader[r].cursor + 1, written)
         /\ Pending(r) = <<>> <=> written <= reader[r].cursor
         /\ Pending(r) # <<>> => Len(Pending(r)) = written - reader[r].cursor
<1> DEFINE c == reader[r].cursor
<1>1. buffer.chunks = Iota(1, written) /\ written \in Nat
  BY BufferLength DEF IInv, BufferInv
<1>2. Pending(r) = Iota(c + 1, written)
  BY <1>1, IotaRest DEF Pending
<1>3. CASE written <= c
  <2>1. 1..(written - (c + 1) + 1) = {}
    BY <1>1, <1>3
  <2>2. Iota(c + 1, written) = <<>>
    BY <2>1 DEF Iota
  <2> QED BY <1>2, <1>3, <2>2
<1>4. CASE ~(written <= c)
  <2>1. c + 1 \in Nat /\ written \in Int /\ written - (c + 1) + 1 \in Nat
    BY <1>1, <1>4
  <2>2. Iota(c + 1, written) \in Seq(Nat)
        /\ Len(Iota(c + 1, written)) = written - (c + 1) + 1
    BY <2>1, IotaSeq
  <2>3. written - (c + 1) + 1 = written - c /\ written - c > 0
    BY <1>1, <1>4
  <2>4. Len(Iota(c + 1, written)) = written - c /\ Iota(c + 1, written) # <<>>
    BY <2>2, <2>3
  <2> QED BY <1>2, <1>4, <2>4
<1> QED BY <1>3, <1>4

LEMMA DrainInv == ASSUME IInv, NEW r \in Reader, Drain(r) PROVE IInv'
<1> DEFINE s == reader[r]
<1>1. /\ s.pc = "drain" /\ ReaderInv(s, written, buffer.state) /\ ReaderOnly
      /\ written \in Nat
  BY DEF Drain, IInv, ReadersInv, BufferInv
<1>2. /\ ReaderFields(s) /\ s.cursor = s.after + Len(s.got) /\ buffer.state # "none"
      /\ Len(s.got) > 0 => s.after + Len(s.got) <= written
  BY <1>1 DEF ReaderInv, Position, Serving
<1>3. /\ Pending(r) = Iota(s.cursor + 1, written)
      /\ Pending(r) = <<>> <=> written <= s.cursor
      /\ Pending(r) # <<>> => Len(Pending(r)) = written - s.cursor
  BY <1>2, PendingIs DEF ReaderFields
<1>4. CASE Pending(r) # <<>> /\ Step(r, [s EXCEPT !.pc = "send", !.pending = Pending(r), !.n = 0])
  <2> DEFINE p == Pending(r)
             z == [s EXCEPT !.pc = "send", !.pending = p, !.n = 0]
  <2>1. /\ z.pc = "send" /\ z.pending = p /\ z.n = 0 /\ z.after = s.after
        /\ z.cursor = s.cursor /\ z.got = s.got /\ DOMAIN z = DOMAIN s
    <3> HIDE DEF p, s
    <3> QED BY <1>2 DEF ReaderFields
  <2>2. Step(r, z)
    BY <1>4
  <2>3. /\ Len(p) = written - s.cursor /\ written - s.cursor \in Nat /\ written > s.cursor
        /\ s.cursor + Len(p) = written /\ p = Iota(s.cursor + 1, s.cursor + Len(p))
    BY <1>1, <1>2, <1>3, <1>4 DEF ReaderFields
  <2> HIDE DEF z, p, s
  <2>4. ReaderFields(z)
    BY <1>2, <2>1 DEF ReaderFields
  <2>5. Position(z)
    <3>1. /\ z.cursor + z.n = z.after + Len(z.got)
          /\ Len(z.pending) \in Nat /\ z.n < Len(z.pending)
      <4>1. s.cursor \in Nat /\ s.cursor + 0 = s.cursor
        BY <1>2 DEF ReaderFields
      <4>2. z.cursor + z.n = z.after + Len(z.got)
        BY <1>2, <2>1, <4>1
      <4>3. Len(p) \in Nat /\ 0 < Len(p)
        <5> DEFINE k == Len(p)
        <5>1. k = written - s.cursor /\ written > s.cursor
          BY <2>3
        <5> HIDE DEF k
        <5>2. k \in Nat /\ 0 < k
          BY <1>1, <4>1, <5>1
        <5> QED BY <5>2 DEF k
      <4>4. z.pending = p /\ z.n = 0
        BY <2>1
      <4> QED BY <4>2, <4>3, <4>4
    <3>2. z.pending = Iota(z.cursor + 1, z.cursor + Len(z.pending))
      BY <2>1, <2>3
    <3> QED BY <2>1, <3>1, <3>2 DEF Position
  <2>6. ReaderInv(z, written, buffer.state)
    <3>1. /\ z.got = Iota(z.after + 1, z.after + Len(z.got))
          /\ Len(z.got) > 0 => z.after + Len(z.got) <= written
      BY <1>1, <1>2, <2>1 DEF ReaderInv
    <3>2. z.cursor + Len(z.pending) <= written
      BY <1>1, <2>1, <2>3
    <3> QED BY <1>2, <2>1, <2>4, <2>5, <3>1, <3>2 DEF ReaderInv
  <2> QED BY <1>1, <2>2, <2>6, ReaderSteps
<1>5. CASE Pending(r) = <<>> /\ buffer.state = "complete" /\ Goto(r, "end")
  <2>1. s.after <= written => s.after + Len(s.got) = written
    BY <1>1, <1>2, <1>3, <1>5 DEF ReaderFields
  <2> QED BY <1>1, <1>5, <2>1, GotoInv
<1>6. CASE Goto(r, "wait")
  BY <1>1, <1>6, GotoInv
<1> QED BY <1>4, <1>5, <1>6 DEF Drain

LEMMA SentPendingInv == ASSUME IInv, NEW r \in Reader, SentPending(r) PROVE IInv'
<1> DEFINE s == reader[r]
           n == s.n + 1
           next == [s EXCEPT !.n = n, !.got = Append(@, s.pending[n])]
           last == [next EXCEPT !.pc = "drain", !.cursor = s.cursor + Len(s.pending),
                                !.pending = <<>>, !.n = 0]
<1>1. /\ s.pc = "send" /\ ReaderInv(s, written, buffer.state) /\ ReaderOnly
      /\ written \in Nat
      /\ Step(r, IF n < Len(s.pending) THEN next ELSE last)
  BY DEF SentPending, Advance, IInv, ReadersInv, BufferInv
<1>2. /\ ReaderFields(s) /\ s.cursor + s.n = s.after + Len(s.got) /\ Len(s.pending) \in Nat
      /\ s.pending = Iota(s.cursor + 1, s.cursor + Len(s.pending)) /\ s.n < Len(s.pending)
      /\ s.got = Iota(s.after + 1, s.after + Len(s.got))
      /\ s.cursor + Len(s.pending) <= written /\ buffer.state # "none"
  BY <1>1 DEF ReaderInv, Position, Serving
<1> HIDE DEF s
<1>3. /\ s.after \in Nat /\ s.cursor \in Nat /\ s.n \in Nat /\ Len(s.got) \in Nat
      /\ n \in 1..Len(s.pending)
      /\ DOMAIN s = {"pc", "after", "cursor", "pending", "n", "got"}
  BY <1>2 DEF ReaderFields
<1>4. s.pending[n] = s.after + Len(s.got) + 1
  <2>1. Iota(s.cursor + 1, s.cursor + Len(s.pending))[n] = s.cursor + n
    BY <1>2, <1>3, IotaItem
  <2>2. s.pending[n] = s.cursor + n
    BY <1>2, <2>1
  <2> QED BY <1>2, <1>3, <2>2
<1> DEFINE g == Append(s.got, s.pending[n])
<1>5. g = Iota(s.after + 1, s.after + Len(s.got) + 1)
  <2>1. s.after + 1 \in Nat /\ s.after + Len(s.got) \in Nat
        /\ s.after + 1 <= s.after + Len(s.got) + 1
    BY <1>3
  <2>2. Append(Iota(s.after + 1, s.after + Len(s.got)), s.after + Len(s.got) + 1)
          = Iota(s.after + 1, s.after + Len(s.got) + 1)
    BY <2>1, IotaAppend
  <2> QED BY <1>2, <1>4, <2>2
<1>6. Len(g) = Len(s.got) + 1
  <2>1. s.after + 1 \in Nat /\ s.after + Len(s.got) + 1 \in Int
        /\ (s.after + Len(s.got) + 1) - (s.after + 1) + 1 = Len(s.got) + 1
    BY <1>3
  <2>2. (s.after + Len(s.got) + 1) - (s.after + 1) + 1 \in Nat
    BY <1>3
  <2>3. Len(Iota(s.after + 1, s.after + Len(s.got) + 1))
          = (s.after + Len(s.got) + 1) - (s.after + 1) + 1
    BY <2>1, <2>2, IotaSeq
  <2> QED BY <1>5, <2>1, <2>3
<1>7. g = Iota(s.after + 1, s.after + Len(g))
  BY <1>3, <1>5, <1>6
<1>8. /\ next.pc = s.pc /\ next.after = s.after /\ next.cursor = s.cursor /\ next.n = n
      /\ next.pending = s.pending /\ next.got = g /\ DOMAIN next = DOMAIN s
  <2> HIDE DEF n
  <2> QED BY <1>3
<1>9. /\ last.pc = "drain" /\ last.after = s.after /\ last.cursor = s.cursor + Len(s.pending)
      /\ last.n = 0 /\ last.got = g /\ DOMAIN last = DOMAIN s
  <2> HIDE DEF next
  <2> QED BY <1>3, <1>8
<1> HIDE DEF next, last, g
<1>10. CASE n < Len(s.pending)
  <2>1. ReaderInv(next, written, buffer.state)
    BY <1>1, <1>2, <1>3, <1>6, <1>7, <1>8, <1>10
    DEF ReaderInv, ReaderFields, Position, Serving
  <2> QED BY <1>1, <1>10, <2>1, ReaderSteps
<1>11. CASE ~(n < Len(s.pending))
  <2>1. n = Len(s.pending)
    BY <1>3, <1>11
  <2>2. ReaderInv(last, written, buffer.state)
    BY <1>1, <1>2, <1>3, <1>6, <1>7, <1>9, <2>1
    DEF ReaderInv, ReaderFields, Position, Serving
  <2> QED BY <1>1, <1>11, <2>2, ReaderSteps
<1> QED BY <1>10, <1>11

LEMMA StepInv == ASSUME IInv, [Next]_vars PROVE IInv'
<1>1. CASE RequestStep
  BY <1>1, SendChunkInv, SendingSteps, FinishInv, InterruptedInv DEF RequestStep
<1>2. CASE GraceExpires \/ Sweep
  BY <1>2, RegistryInv
<1>3. CASE Teardown
  BY <1>3, TeardownInv
<1>4. ASSUME NEW r \in Reader, ReaderStep(r) \/ ReaderSendFails(r) PROVE IInv'
  <2>1. CASE SentHeaders(r) \/ SentReaderEnd(r) \/ ReaderSendFails(r)
    BY <2>1, GotoInv DEF SentHeaders, SentReaderEnd, ReaderSendFails
  <2> QED BY <1>4, <2>1, DrainInv, SentPendingInv DEF ReaderStep
<1>5. ASSUME NEW r \in Reader, NEW after \in 0..(MaxChunks + 1), Resume(r, after) PROVE IInv'
  BY <1>5, ResumeInv
<1>6. CASE UNCHANGED vars
  BY <1>6 DEF vars, IInv, BufferInv, BufferFields, BufferHoldsAll, RequestInv, ReadersInv
<1> QED BY <1>1, <1>2, <1>3, <1>4, <1>5, <1>6 DEF Next

-----------------------------------------------------------------------------
(* The invariant holds in every state, whatever is fair.                   *)
THEOREM Invariance == Spec => []IInv
<1>1. Init => IInv
  BY InitInv
<1>2. IInv /\ [Next]_vars => IInv'
  BY StepInv
<1> QED BY <1>1, <1>2, PTL DEF Spec

(* The buffer has the response from its first chunk, however late the id   *)
(* turns up.                                                               *)
THEOREM BufferWhole == Spec => []BufferHoldsAll
<1>1. IInv => BufferHoldsAll
  BY DEF IInv, BufferInv
<1> QED BY <1>1, Invariance, PTL

(* A reader that resumes anywhere gets what follows, once and in order,    *)
(* whatever is appended while it sends; an end means that it has it all.   *)
THEOREM ReadersServedExactly == Spec => []ReaderGetsRest
<1>1. IInv => ReaderGetsRest
  BY DEF IInv, ReadersInv, ReaderInv, ReaderGetsRest
<1> QED BY <1>1, Invariance, PTL

(* A response that ended normally can be resumed until it is swept, and    *)
(* one that was cut off cannot be.                                         *)
THEOREM ResumableIsWhole == Spec => []RegistryKeepsWhole
<1>1. IInv => RegistryKeepsWhole
  <2>1. ASSUME IInv, session, finished, buffer.state = "complete", ~Evictable
        PROVE  registered
    BY <2>1, EvictableMeans DEF IInv, RequestInv
  <2> QED BY <2>1 DEF IInv, RequestInv, RegistryKeepsWhole
<1> QED BY <1>1, Invariance, PTL
-----------------------------------------------------------------------------
(* Types.  That nothing is counted beyond the chunks of the response is     *)
(* what IInv says.                                                          *)

RecordOf(s) ==
    s \in [pc : {"off", "headers", "drain", "send", "wait", "end", "ended", "unknown", "gone"},
           after : 0..(MaxChunks + 1), cursor : 0..(MaxChunks + 1),
           pending : Chunks, n : 0..MaxChunks, got : Chunks]

LEMMA InitTyped == Init => TypeOK
<1> SUFFICES ASSUME Init PROVE TypeOK
  OBVIOUS
<1>1. 0 \in 0..MaxChunks /\ 0 \in 0..(MaxChunks + 1) /\ <<>> \in Chunks
  BY SizeAssumption DEF Chunks
<1>2. Unused \in [pc : {"off", "headers", "drain", "send", "wait", "end", "ended",
                       "unknown", "gone"},
                 after : 0..(MaxChunks + 1), cursor : 0..(MaxChunks + 1),
                 pending : Chunks, n : 0..MaxChunks, got : Chunks]
  BY <1>1 DEF Unused
<1> QED  BY <1>1, <1>2 DEF Init, TypeOK, NoBuffer

\* Readers that are woken or cancelled.
LEMMA MovedTyped ==
  ASSUME TypeOK,
         \/ UNCHANGED reader
         \/ Wake
         \/ reader' = [r \in Reader |->
              IF reader[r].pc \in {"off", "ended", "unknown"} THEN reader[r]
              ELSE [reader[r] EXCEPT !.pc = "gone"]]
  PROVE  reader' \in [Reader ->
         [pc : {"off", "headers", "drain", "send", "wait", "end", "ended",
                "unknown", "gone"},
          after : 0..(MaxChunks + 1), cursor : 0..(MaxChunks + 1),
          pending : Chunks, n : 0..MaxChunks, got : Chunks]]
<1>1. CASE UNCHANGED reader
  BY <1>1 DEF TypeOK
<1>2. CASE Wake
  BY <1>2 DEF Wake, TypeOK
<1>3. CASE reader' = [r \in Reader |->
              IF reader[r].pc \in {"off", "ended", "unknown"} THEN reader[r]
              ELSE [reader[r] EXCEPT !.pc = "gone"]]
  BY <1>3 DEF TypeOK
<1> QED  BY <1>1, <1>2, <1>3

\* Frames and chunks do not outnumber the chunks of the response.
LEMMA CountsTyped ==
  ASSUME TypeOK, IInv', written' \in 0..MaxChunks,
         \/ UNCHANGED sent
         \/ sent' = [sent EXCEPT !.chunks = @ + 1]
         \/ \E e \in {"end", "error"} : sent' = [sent EXCEPT !.endings = @ \cup {e}]
  PROVE  sent' \in [chunks : 0..MaxChunks, endings : SUBSET {"end", "error"}]
<1>1. sent'.chunks \in Nat /\ sent'.chunks <= written'
  BY DEF IInv, BufferInv, BufferHoldsAll
<1>2. sent'.chunks \in 0..MaxChunks
  BY <1>1, SizeAssumption
<1>3. DOMAIN sent' = {"chunks", "endings"}
  BY DEF IInv, BufferInv
<1>4. sent'.endings \in SUBSET {"end", "error"}
  BY DEF TypeOK
<1>5. sent' = [chunks |-> sent'.chunks, endings |-> sent'.endings]
  BY DEF TypeOK
<1> QED  BY <1>2, <1>4, <1>5

LEMMA RequestTyped ==
  ASSUME IInv, TypeOK, IInv', RequestStep \/ Teardown
  PROVE  TypeOK'
<1>1. CASE SendChunk
  <2>1. written + 1 \in 1..MaxChunks /\ written' = written + 1
    BY <1>1, SizeAssumption DEF SendChunk, TypeOK
  <2>2. /\ Append(preroll, written + 1) \in Chunks /\ <<>> \in Chunks
        /\ Append(buffer.chunks, written + 1) \in Chunks
    BY <2>1 DEF TypeOK, Chunks
  <2>3. /\ preroll' \in Chunks
        /\ buffer' \in [state : {"none", "open", "complete"}, chunks : Chunks, aged : BOOLEAN]
        /\ registered' \in BOOLEAN
        /\ Wake \/ UNCHANGED reader
    BY <1>1, <2>2 DEF SendChunk, AppendBuffer, NoBuffer, TypeOK
  <2>4. /\ written' \in 0..MaxChunks /\ req' = "sending"
        /\ UNCHANGED <<idAt, session, finished, sent>>
    BY <1>1, <2>1 DEF SendChunk
  <2> QED  BY <2>3, <2>4, MovedTyped DEF TypeOK
<1>2. CASE SentChunk \/ SentEnd \/ SendError
  <2>1. /\ UNCHANGED <<idAt, session, finished, written, preroll, buffer, registered, reader>>
        /\ req' \in {"writing", "ended", "failed"}
    BY <1>2 DEF SentChunk, SentEnd, SendError
  <2>2. sent' \in [chunks : 0..MaxChunks, endings : SUBSET {"end", "error"}]
    <3>1. written' \in 0..MaxChunks
      BY <2>1 DEF TypeOK
    <3> QED  BY <1>2, <3>1, CountsTyped DEF SentChunk, SentEnd, SendError
  <2> QED  BY <2>1, <2>2 DEF TypeOK
<1>3. CASE Finish \/ Timeout \/ Crash
  <2>1. /\ UNCHANGED <<idAt, session, written, preroll>>
        /\ req' \in {"ending", "erroring"} /\ finished' \in BOOLEAN
        /\ registered' \in BOOLEAN
    BY <1>3 DEF Finish, Timeout, Crash, Abandon, TypeOK
  <2>2. (Closes /\ Wake) \/ UNCHANGED <<buffer, reader>>
    BY <1>3 DEF Finish, Timeout, Crash, Abandon, Finalize, Closes
  <2>3. buffer' \in [state : {"none", "open", "complete"}, chunks : Chunks, aged : BOOLEAN]
    BY <2>2 DEF Closes, TypeOK
  <2>4. sent' \in [chunks : 0..MaxChunks, endings : SUBSET {"end", "error"}]
    <3>1. written' \in 0..MaxChunks
      BY <2>1 DEF TypeOK
    <3> QED  BY <1>3, <3>1, CountsTyped DEF Finish, Timeout, Crash, Interrupted
  <2> QED  BY <2>1, <2>2, <2>3, <2>4, MovedTyped DEF TypeOK
<1>4. CASE Teardown
  <2>1. /\ session' \in BOOLEAN /\ registered' \in BOOLEAN
        /\ UNCHANGED <<idAt, finished, written, sent, preroll>>
        /\ req' \in {"ended", "failed"}
    BY <1>4 DEF Teardown
  <2>2. buffer' \in [state : {"none", "open", "complete"}, chunks : Chunks, aged : BOOLEAN]
    BY <1>4 DEF Teardown, TypeOK
  <2>3. reader' = [r \in Reader |->
              IF reader[r].pc \in {"off", "ended", "unknown"} THEN reader[r]
              ELSE [reader[r] EXCEPT !.pc = "gone"]]
    BY <1>4 DEF Teardown
  <2> QED  BY <2>1, <2>2, <2>3, MovedTyped DEF TypeOK
<1> QED  BY <1>1, <1>2, <1>3, <1>4 DEF RequestStep

\* A reader stays within the chunks that were written.
LEMMA ReaderTyped ==
  ASSUME IInv, TypeOK, NEW r \in Reader,
         \/ ReaderStep(r) \/ ReaderSendFails(r)
         \/ \E after \in 0..(MaxChunks + 1) : Resume(r, after)
  PROVE  TypeOK'
<1> DEFINE s == reader[r]
<1>0. RecordOf(s)
  BY DEF TypeOK, RecordOf
<1>1. \E z : RecordOf(z) /\ Step(r, z) /\ ReaderOnly
  <2>1. CASE SentHeaders(r) \/ SentReaderEnd(r) \/ ReaderSendFails(r)
    <3>1. PICK pc \in {"drain", "ended", "gone"} : Goto(r, pc) /\ ReaderOnly
      BY <2>1 DEF SentHeaders, SentReaderEnd, ReaderSendFails
    <3>2. RecordOf([s EXCEPT !.pc = pc])
      BY <1>0 DEF RecordOf
    <3> QED  BY <3>1, <3>2 DEF Goto
  <2>2. CASE Drain(r)
    <3>1. CASE Pending(r) # <<>> /\ Step(r, [s EXCEPT !.pc = "send", !.pending = Pending(r), !.n = 0])
      <4>1. Pending(r) \in Chunks
        <5>1. buffer.chunks \in Seq(1..MaxChunks) /\ s.cursor \in Nat
          BY <1>0, SizeAssumption DEF TypeOK, RecordOf, Chunks
        <5>2. s.cursor + 1 \in 1..Len(buffer.chunks)
          BY <3>1, <5>1 DEF Pending
        <5> DEFINE c == buffer.chunks
        <5>3. ASSUME NEW i \in (s.cursor + 1)..Len(c) PROVE c[i] \in 1..MaxChunks
          <6>1. i \in 1..Len(c)
            BY <5>1
          <6> HIDE DEF c, s
          <6> QED  BY <5>1, <6>1, ElementOfSeq DEF c
        <5>4. SubSeq(c, s.cursor + 1, Len(c)) \in Seq(1..MaxChunks)
          <6>1. Len(c) \in Int /\ s.cursor + 1 \in Int
            BY <5>1
          <6> HIDE DEF c, s
          <6> QED  BY <5>3, <6>1, SubSeqProperties
        <5> QED  BY <5>4 DEF Pending, Chunks
      <4>2. RecordOf([s EXCEPT !.pc = "send", !.pending = Pending(r), !.n = 0])
        <5> HIDE DEF s
        <5>1. 0 \in 0..MaxChunks
          BY SizeAssumption
        <5> QED  BY <1>0, <4>1, <5>1 DEF RecordOf
      <4> QED  BY <2>2, <3>1, <4>2 DEF Drain
    <3>2. CASE Goto(r, "end") \/ Goto(r, "wait")
      <4>1. RecordOf([s EXCEPT !.pc = "end"]) /\ RecordOf([s EXCEPT !.pc = "wait"])
        BY <1>0 DEF RecordOf
      <4> QED  BY <2>2, <3>2, <4>1 DEF Drain, Goto
    <3> QED  BY <2>2, <3>1, <3>2 DEF Drain
  <2>3. CASE SentPending(r)
    <3>1. /\ s.pc = "send" /\ s.n \in Nat /\ Len(s.pending) \in Nat /\ s.n < Len(s.pending)
          /\ s.cursor \in Nat /\ s.cursor + Len(s.pending) <= written
      BY <2>3 DEF SentPending, IInv, ReadersInv, ReaderInv, ReaderFields, Position
    <3>2. written \in 0..MaxChunks /\ MaxChunks \in Nat
      BY SizeAssumption DEF TypeOK
    <3>3. s.n + 1 \in 1..Len(s.pending) /\ s.n + 1 \in 0..MaxChunks
      <4> HIDE DEF s
      <4>1. \A n, k, c, w, m \in Nat : n < k /\ c + k <= w /\ w <= m =>
              n + 1 \in 1..k /\ n + 1 \in 0..m
        OBVIOUS
      <4>2. written \in Nat /\ written <= MaxChunks
        BY <3>2
      <4> QED  BY <3>1, <3>2, <4>1, <4>2
    <3>4. s.pending[s.n + 1] \in 1..MaxChunks
      <4> HIDE DEF s
      <4>1. s.pending \in Seq(1..MaxChunks)
        BY <1>0 DEF RecordOf, Chunks
      <4> QED  BY <3>3, <4>1, ElementOfSeq
    <3>5. Append(s.got, s.pending[s.n + 1]) \in Chunks
      BY <1>0, <3>4 DEF RecordOf, Chunks
    <3> DEFINE next == [s EXCEPT !.n = s.n + 1, !.got = Append(@, s.pending[s.n + 1])]
               last == [next EXCEPT !.pc = "drain", !.cursor = Advance(r),
                                    !.pending = <<>>, !.n = 0]
    <3>6. RecordOf(next)
      BY <1>0, <3>3, <3>5 DEF RecordOf
    <3>7. Advance(r) \in 0..(MaxChunks + 1) /\ <<>> \in Chunks
      BY <3>1, <3>2 DEF Advance, Chunks
    <3>8. RecordOf(last)
      <4> HIDE DEF next
      <4>1. 0 \in 0..MaxChunks
        BY SizeAssumption
      <4> QED  BY <3>6, <3>7, <4>1 DEF RecordOf
    <3>9. Step(r, next) \/ Step(r, last)
      BY <2>3 DEF SentPending
    <3> QED  BY <2>3, <3>6, <3>8, <3>9 DEF SentPending
  <2>4. CASE \E after \in 0..(MaxChunks + 1) : Resume(r, after)
    <3>1. PICK after \in 0..(MaxChunks + 1) : Resume(r, after)
      BY <2>4
    <3>2. RecordOf([Unused EXCEPT !.pc = "headers", !.after = after, !.cursor = after])
      <4>1. 0 \in 0..MaxChunks /\ <<>> \in Chunks
        BY SizeAssumption DEF Chunks
      <4> QED  BY <4>1 DEF Unused, RecordOf
    <3>3. RecordOf([s EXCEPT !.pc = "unknown"])
      BY <1>0 DEF RecordOf
    <3> QED  BY <3>1, <3>2, <3>3 DEF Resume, Goto
  <2> QED  BY <2>1, <2>2, <2>3, <2>4 DEF ReaderStep
<1>2. PICK z : RecordOf(z) /\ Step(r, z) /\ ReaderOnly
  BY <1>1
<1> QED  BY <1>2 DEF TypeOK, Step, ReaderOnly, RecordOf

LEMMA NextTyped == ASSUME IInv, TypeOK, IInv', [Next]_vars PROVE TypeOK'
<1>1. CASE UNCHANGED vars
  BY <1>1 DEF vars, TypeOK
<1>2. CASE GraceExpires
  BY <1>2 DEF GraceExpires, TypeOK
<1>3. CASE Sweep
  BY <1>3 DEF Sweep, TypeOK
<1> QED  BY <1>1, <1>2, <1>3, RequestTyped, ReaderTyped DEF Next

\* Nothing is buffered, sent or asked for beyond the chunks of the response and the
\* position after it, by any number of readers.
THEOREM ResponseTypeCorrect == Spec => []TypeOK
<1>1. Init => IInv
  BY InitInv
<1>2. IInv /\ [Next]_vars => IInv'
  BY StepInv
<1>3. IInv /\ TypeOK /\ IInv' /\ [Next]_vars => TypeOK'
  BY NextTyped
<1> QED  BY <1>1, <1>2, <1>3, InitTyped, PTL DEF Spec

===============================================================================
