--------------------------- MODULE CursorRelayProofs ---------------------------
(***************************************************************************)
(* Proofs about ChatCursorRelay, for any number of threads, chats,         *)
(* sessions, pushes and subscriptions, any clock and any configuration of  *)
(* the store.  The first part is about pushes and uses nothing of what the *)
(* store guarantees: only that a push sees what the others do to the log.  *)
(* The second part, about snapshots, and the third, about subscriptions    *)
(* (ChatTail), rest on the store's invariant: its logs have no holes.      *)
(***************************************************************************)
EXTENDS CursorRelay, ChatTail, ChatStoreProofs

PushShape ==
    /\ push = [p \in Push |-> push[p]]
    /\ \A p \in Push : DOMAIN push[p] = DOMAIN NoPush

\* The lock keeps two pushes of one session apart.
Exclusive ==
    \A p, q \in Push :
        push[p].pc \in Holding /\ push[q].pc \in Holding
          /\ push[p].session = push[q].session => p = q

\* Between its reading and the append the number is the next one of the log.
NumberHeld(p) ==
    push[p].pc \in {"send", "append", "commit"} =>
        push[p].number = NextSeq(push[p].chat) \/ push[p].disturbed

\* The except clause has seen all that the log shows from the floor on.
LookedAt(p) ==
    /\ push[p].pc \in {"floor", "check", "drop"} => ~push[p].existed
    /\ push[p].pc = "check" =>
         \A n \in Seqs(events[push[p].chat]) :
             n <= push[p].floor => n \in push[p].unseen
    /\ push[p].pc = "drop" => Seqs(events[push[p].chat]) \subseteq push[p].unseen

Numbered(p) ==
    push[p].pc = "bump" => push[p].seq = push[p].number \/ push[p].disturbed

Fine(p) == NumberHeld(p) /\ LookedAt(p) /\ Numbered(p)

PushInv == PushShape /\ Exclusive /\ \A p \in Push : Fine(p)

-----------------------------------------------------------------------------
(* What a step means for the pushes that do not take it *)

\* The log and the push are as they were.
LEMMA Undisturbed ==
    ASSUME NEW q \in Push, Fine(q), push'[q] = push[q], UNCHANGED <<row, events>>
    PROVE  Fine(q)'
BY DEF Fine, NumberHeld, LookedAt, Numbered, NextSeq, Seqs

\* The log changes and the push sees it, or it has no number and looks at nothing.
LEMMA SeenByPush ==
    ASSUME PushShape, NEW q \in Push, Fine(q), NEW own,
           push'[q] = Seen(own)[q],
           q \in own => push[q].pc \notin Holding
    PROVE  /\ Fine(q)'
           /\ DOMAIN push'[q] = DOMAIN NoPush
           /\ push'[q].session = push[q].session /\ push'[q].pc = push[q].pc
<1> DEFINE c == push[q].chat
<1>1. CASE q \in own \/ push[q].pc \in {"off", "done"}
    <2>1. push'[q] = push[q]
        BY <1>1 DEF Seen
    <2>2. push[q].pc \notin Holding
        BY <1>1 DEF Holding
    <2> QED
        BY <2>1, <2>2 DEF PushShape, Fine, NumberHeld, LookedAt, Numbered, Holding
<1>2. CASE ~(q \in own \/ push[q].pc \in {"off", "done"})
    <2>1. push'[q] = [push[q] EXCEPT
                        !.disturbed = @ \/ EndMoves(c) \/ RowGoes(c),
                        !.unseen = @ \cup (Seqs(events'[c]) \ Seqs(events[c]))]
        BY <1>2 DEF Seen
    <2>2. DOMAIN push[q] = DOMAIN NoPush
        BY DEF PushShape
    <2>3. /\ push'[q].pc = push[q].pc /\ push'[q].chat = c
          /\ push'[q].session = push[q].session
          /\ push'[q].existed = push[q].existed
          /\ push'[q].number = push[q].number /\ push'[q].seq = push[q].seq
          /\ push'[q].floor = push[q].floor
          /\ DOMAIN push'[q] = DOMAIN NoPush
        BY <2>1, <2>2 DEF NoPush
    <2>4. push[q].disturbed \/ EndMoves(c) => push'[q].disturbed
        BY <2>1, <2>2 DEF NoPush
    <2>5. push'[q].unseen = push[q].unseen \cup (Seqs(events'[c]) \ Seqs(events[c]))
        BY <2>1, <2>2 DEF NoPush
    <2>6. NumberHeld(q)'
        BY <2>3, <2>4 DEF Fine, NumberHeld, NextSeq, EndMoves
    <2>7. Seqs(events[push[q].chat])' = Seqs(events'[c])
        BY <2>3 DEF Seqs
    <2>8. LookedAt(q)'
        BY <2>3, <2>5, <2>7 DEF Fine, LookedAt
    <2>9. Numbered(q)'
        BY <2>3, <2>4 DEF Fine, Numbered
    <2> QED
        BY <2>3, <2>6, <2>8, <2>9 DEF Fine
<1> QED
    BY <1>1, <1>2

\* A push that goes on keeps its place under the lock.
LEMMA ExclusiveKept ==
    ASSUME Exclusive,
           \A p \in Push : /\ push'[p].session = push[p].session
                           /\ push'[p].pc \in Holding => push[p].pc \in Holding
    PROVE  Exclusive'
BY DEF Exclusive

\* A step of one push that leaves the log alone.
LEMMA OwnStep ==
    ASSUME PushInv, NEW p \in Push, NEW s,
           Set(p, s), UNCHANGED <<row, events>>,
           DOMAIN s = DOMAIN NoPush,
           s.session = push[p].session, s.pc \in Holding => push[p].pc \in Holding,
           Fine(p)'
    PROVE  PushInv'
<1>1. \A q \in Push : push'[q] = IF q = p THEN s ELSE push[q]
    BY DEF PushInv, PushShape, Set
<1>2. PushShape'
    BY <1>1 DEF PushInv, PushShape, Set
<1>3. Exclusive'
    BY <1>1, ExclusiveKept DEF PushInv
<1>4. \A q \in Push : Fine(q)'
    BY <1>1, Undisturbed DEF PushInv
<1> QED
    BY <1>2, <1>3, <1>4 DEF PushInv

-----------------------------------------------------------------------------
(* The steps *)

LEMMA InitPushInv == RelayInit => PushInv
BY DEF RelayInit, PushInv, PushShape, Exclusive, Holding, Fine, NumberHeld, LookedAt,
       Numbered, NoPush

LEMMA AcquireKeeps ==
    ASSUME PushInv, NEW p \in Push, NEW c \in Chat, Acquire(p, c)
    PROVE  PushInv'
<1> DEFINE s == [NoPush EXCEPT !.pc = "get", !.chat = c, !.session = session]
<1>1. Set(p, s) /\ UNCHANGED <<row, events>>
    BY DEF Acquire, PushOnly, vars
<1>2. \A q \in Push : push'[q] = IF q = p THEN s ELSE push[q]
    BY <1>1 DEF PushInv, PushShape, Set
<1>3. s.pc = "get" /\ s.session = session /\ DOMAIN s = DOMAIN NoPush
    BY DEF NoPush
<1>4. PushShape'
    BY <1>1, <1>2, <1>3 DEF PushInv, PushShape, Set
<1>5. Exclusive'
    <2>1. \A q \in Push : push[q].pc \in Holding => push[q].session # session
        BY DEF Acquire
    <2>2. \A q \in Push \ {p} : push'[q] = push[q]
        BY <1>2
    <2>3. push'[p].session = session
        BY <1>2, <1>3
    <2> QED
        BY <2>1, <2>2, <2>3 DEF PushInv, Exclusive
<1>6. \A q \in Push : Fine(q)'
    <2> TAKE q \in Push
    <2>1. CASE q = p
        BY <1>2, <1>3, <2>1 DEF Fine, NumberHeld, LookedAt, Numbered
    <2>2. CASE q # p
        BY <1>1, <1>2, <2>2, Undisturbed DEF PushInv
    <2> QED
        BY <2>1, <2>2
<1> QED
    BY <1>4, <1>5, <1>6 DEF PushInv

LEMMA NumberKeeps ==
    ASSUME PushInv, NEW p \in Push, GetLog(p) \/ ReadNumber(p) \/ Sent(p) \/ StartRetain(p)
    PROVE  PushInv'
<1> USE DEF PushInv, PushShape, PushOnly, vars, durable, Fine, At, NoPush, Holding
<1>1. CASE GetLog(p)
    <2> DEFINE s == [At(p, "number") EXCEPT !.existed = Present(push[p].chat)]
    <2>1. Set(p, s) /\ UNCHANGED <<row, events>> /\ push[p].pc = "get"
        BY <1>1 DEF GetLog
    <2>2. s.pc = "number" /\ s.session = push[p].session /\ DOMAIN s = DOMAIN NoPush
        OBVIOUS
    <2>3. Fine(p)'
        BY <2>1, <2>2 DEF Set, NumberHeld, LookedAt, Numbered
    <2> QED
        BY <2>1, <2>2, <2>3, OwnStep
<1>2. CASE ReadNumber(p)
    <2> DEFINE s == [At(p, "send") EXCEPT !.number = NextSeq(push[p].chat), !.disturbed = FALSE]
               d == At(p, "done")
    <2>1. push[p].pc = "number" /\ UNCHANGED <<row, events>>
        BY <1>2 DEF ReadNumber
    <2>2. CASE Set(p, s)
        <3>1. /\ s.pc = "send" /\ s.session = push[p].session /\ DOMAIN s = DOMAIN NoPush
              /\ s.chat = push[p].chat /\ s.number = NextSeq(push[p].chat)
            OBVIOUS
        <3>2. push'[p] = s
            BY <2>2 DEF Set
        <3>3. Fine(p)'
            BY <2>1, <3>1, <3>2 DEF NumberHeld, LookedAt, Numbered, NextSeq
        <3> QED
            BY <2>1, <2>2, <3>1, <3>3, OwnStep
    <2>3. CASE Set(p, d)
        <3>1. d.pc = "done" /\ d.session = push[p].session /\ DOMAIN d = DOMAIN NoPush
            OBVIOUS
        <3>2. Fine(p)'
            BY <2>1, <2>3, <3>1 DEF Set, NumberHeld, LookedAt, Numbered
        <3> QED
            BY <2>1, <2>3, <3>1, <3>2, OwnStep
    <2> QED
        BY <1>2, <2>2, <2>3 DEF ReadNumber
<1>3. CASE Sent(p) \/ StartRetain(p)
    <2> DEFINE s(pc) == At(p, pc)
    <2>1. PICK pc \in {"append", "commit"} :
            Set(p, s(pc)) /\ UNCHANGED <<row, events>> /\ push[p].pc \in {"send", "append"}
        BY <1>3 DEF Sent, StartRetain, BeginAppend
    <2>2. /\ s(pc).pc = pc /\ s(pc).session = push[p].session
          /\ DOMAIN s(pc) = DOMAIN NoPush /\ s(pc).chat = push[p].chat
          /\ s(pc).number = push[p].number /\ s(pc).disturbed = push[p].disturbed
        OBVIOUS
    <2>3. push'[p] = s(pc)
        BY <2>1 DEF Set
    <2>4. Fine(p)'
        BY <2>1, <2>2, <2>3 DEF NumberHeld, LookedAt, Numbered, NextSeq
    <2> QED
        BY <2>1, <2>2, <2>4, OwnStep
<1> QED
    BY <1>1, <1>2, <1>3

LEMMA LookKeeps ==
    ASSUME PushInv, NEW p \in Push,
           SendFails(p) \/ ReadFloor(p) \/ CheckEvents(p)
    PROVE  PushInv'
<1> USE DEF PushInv, PushShape, PushOnly, vars, durable, Fine, At, NoPush, Holding
<1>1. CASE SendFails(p)
    <2> DEFINE s == At(p, IF push[p].existed THEN "done" ELSE "floor")
    <2>1. Set(p, s) /\ UNCHANGED <<row, events>> /\ push[p].pc = "send"
        BY <1>1 DEF SendFails
    <2>2. /\ s.pc = IF push[p].existed THEN "done" ELSE "floor"
          /\ s.session = push[p].session /\ DOMAIN s = DOMAIN NoPush
          /\ s.existed = push[p].existed
        OBVIOUS
    <2>3. push'[p] = s
        BY <2>1 DEF Set
    <2>4. Fine(p)'
        BY <2>1, <2>2, <2>3 DEF NumberHeld, LookedAt, Numbered
    <2> QED
        BY <2>1, <2>2, <2>4, OwnStep
<1>2. CASE ReadFloor(p)
    <2> DEFINE c == push[p].chat
               s == [At(p, "check") EXCEPT !.floor = row[c].floor, !.unseen = Hidden(c)]
    <2>1. Set(p, s) /\ UNCHANGED <<row, events>> /\ push[p].pc = "floor"
        BY <1>2 DEF ReadFloor
    <2>2. /\ s.pc = "check" /\ s.session = push[p].session /\ DOMAIN s = DOMAIN NoPush
          /\ s.existed = push[p].existed /\ s.chat = c
          /\ s.floor = row[c].floor /\ s.unseen = Hidden(c)
        OBVIOUS
    <2>3. push'[p] = s
        BY <2>1 DEF Set
    <2>4. Fine(p)'
        BY <2>1, <2>2, <2>3 DEF NumberHeld, LookedAt, Numbered, Hidden, Seqs
    <2> QED
        BY <2>1, <2>2, <2>4, OwnStep
<1>3. CASE CheckEvents(p)
    <2>1. push[p].pc = "check" /\ UNCHANGED <<row, events>>
        BY <1>3 DEF CheckEvents
    <2>2. PICK pc \in {"drop", "done"} : Set(p, At(p, pc)) /\ (pc = "drop" => FoundEmpty(p))
        BY <1>3 DEF CheckEvents
    <2> DEFINE s == At(p, pc)
    <2>3. /\ s.pc = pc /\ s.session = push[p].session /\ DOMAIN s = DOMAIN NoPush
          /\ s.existed = push[p].existed /\ s.chat = push[p].chat
          /\ s.unseen = push[p].unseen
        OBVIOUS
    <2>4. push'[p] = s
        BY <2>2 DEF Set
    <2>5. pc = "drop" => Seqs(events[push[p].chat]) \subseteq push[p].unseen
        BY <2>1, <2>2 DEF FoundEmpty, LookedAt, Seqs
    <2>6. Fine(p)'
        BY <2>1, <2>3, <2>4, <2>5 DEF NumberHeld, LookedAt, Numbered, Seqs
    <2> QED
        BY <2>1, <2>2, <2>3, <2>6, OwnStep
<1> QED
    BY <1>1, <1>2, <1>3

LEMMA EndKeeps ==
    ASSUME PushInv, NEW p \in Push, RetainFails(p) \/ Release(p)
    PROVE  PushInv'
<1> DEFINE s == At(p, "done")
<1>1. Set(p, s) /\ UNCHANGED <<row, events>> /\ push[p].pc \in {"commit", "bump"}
    BY DEF RetainFails, Release, AppendFails, Bump, durable
<1>2. s.pc = "done" /\ s.session = push[p].session /\ DOMAIN s = DOMAIN NoPush
    BY DEF At, PushInv, PushShape, NoPush
<1>3. push'[p] = s
    BY <1>1 DEF Set, PushInv, PushShape
<1>4. Fine(p)'
    BY <1>2, <1>3 DEF Fine, NumberHeld, LookedAt, Numbered
<1>5. s.pc \notin Holding
    BY <1>2 DEF Holding
<1> QED
    BY <1>1, <1>2, <1>4, <1>5, OwnStep

\* A step that changes the log, of p or (with own empty) of nobody in Push.
LEMMA LogStep ==
    ASSUME PushInv, NEW own, NEW p \in Push, NEW s,
           push' = [Seen(own) EXCEPT ![p] = s],
           \A q \in Push \ {p} : q \in own => push[q].pc \notin Holding,
           DOMAIN s = DOMAIN NoPush, s.session = push[p].session,
           push[p].pc \in Holding, Fine(p)'
    PROVE  PushInv'
<1>1. push' = [q \in Push |-> IF q = p THEN s ELSE Seen(own)[q]]
    BY DEF Seen
<1>2. \A q \in Push \ {p} : /\ Fine(q)'
                            /\ DOMAIN push'[q] = DOMAIN NoPush
                            /\ push'[q].session = push[q].session
                            /\ push'[q].pc = push[q].pc
    <2> TAKE q \in Push \ {p}
    <2>1. push'[q] = Seen(own)[q]
        BY <1>1
    <2> QED
        BY <2>1, SeenByPush DEF PushInv
<1>3. push'[p] = s
    BY <1>1
<1>4. PushShape'
    BY <1>1, <1>2, <1>3 DEF PushShape
<1>5. Exclusive'
    BY <1>2, <1>3, ExclusiveKept DEF PushInv
<1> QED
    BY <1>2, <1>4, <1>5 DEF PushInv

LEMMA DropKeeps ==
    ASSUME PushInv, NEW p \in Push, DropChat(p)
    PROVE  PushInv'
<1> DEFINE s == At(p, "done")
<1>1. push' = [Seen({p}) EXCEPT ![p] = s] /\ push[p].pc = "drop"
    BY DEF DropChat
<1>2. s.pc = "done" /\ s.session = push[p].session /\ DOMAIN s = DOMAIN NoPush
    BY DEF At, PushInv, PushShape, NoPush
<1>3. push'[p] = s
    BY <1>1 DEF Seen
<1>4. Fine(p)'
    BY <1>2, <1>3 DEF Fine, NumberHeld, LookedAt, Numbered
<1>5. push[p].pc \in Holding
    BY <1>1 DEF Holding
<1> QED
    BY <1>1, <1>2, <1>4, <1>5, LogStep

LEMMA RetainKeeps ==
    ASSUME PushInv, NEW p \in Push, Retain(p)
    PROVE  PushInv'
<1> DEFINE s == [At(p, "bump") EXCEPT !.seq = NextSeq(push[p].chat)]
<1>1. push' = [Seen(Companions(p)) EXCEPT ![p] = s] /\ push[p].pc = "commit"
    BY DEF Retain
<1>2. /\ s.pc = "bump" /\ s.session = push[p].session /\ DOMAIN s = DOMAIN NoPush
      /\ s.seq = NextSeq(push[p].chat) /\ s.number = push[p].number
      /\ s.disturbed = push[p].disturbed
    BY DEF At, PushInv, PushShape, NoPush
<1>3. push'[p] = s
    BY <1>1 DEF Seen
<1>4. push[p].pc \in Holding
    BY <1>1 DEF Holding
<1>5. Fine(p)'
    <2>1. push[p].number = NextSeq(push[p].chat) \/ push[p].disturbed
        BY <1>1 DEF PushInv, Fine, NumberHeld
    <2> QED
        BY <1>2, <1>3, <2>1 DEF Fine, NumberHeld, LookedAt, Numbered
<1>6. \A q \in Push \ {p} : q \in Companions(p) => push[q].pc \notin Holding
    BY <1>4 DEF PushInv, Exclusive, Companions
<1> QED
    BY <1>1, <1>2, <1>4, <1>5, <1>6, LogStep

LEMMA OthersKeep ==
    ASSUME PushInv, push' = Seen({})
    PROVE  PushInv'
<1>1. \A q \in Push : /\ Fine(q)'
                      /\ DOMAIN push'[q] = DOMAIN NoPush
                      /\ push'[q].session = push[q].session
                      /\ push'[q].pc = push[q].pc
    <2> TAKE q \in Push
    <2>1. push'[q] = Seen({})[q]
        OBVIOUS
    <2> QED
        BY <2>1, SeenByPush DEF PushInv
<1>2. PushShape'
    BY <1>1 DEF PushShape, Seen
<1>3. Exclusive'
    BY <1>1, ExclusiveKept DEF PushInv
<1> QED
    BY <1>1, <1>2, <1>3 DEF PushInv

LEMMA StillKeeps ==
    ASSUME PushInv, UNCHANGED <<row, events, push>>
    PROVE  PushInv'
<1>1. \A q \in Push : Fine(q)'
    BY Undisturbed DEF PushInv
<1>2. PushShape' /\ Exclusive'
    BY DEF PushInv, PushShape, Exclusive
<1> QED
    BY <1>1, <1>2 DEF PushInv

LEMMA NextPushInv == PushInv /\ [RelayNext]_relayVars => PushInv'
<1> SUFFICES ASSUME PushInv, [RelayNext]_relayVars PROVE PushInv'
    OBVIOUS
<1>1. CASE UNCHANGED relayVars \/ Elapse \/ NewSession
    BY <1>1, StillKeeps DEF relayVars, vars, Elapse, Tick, NewSession
<1>2. CASE \E t \in Thread \ Push : OtherThread(t)
    BY <1>2, OthersKeep DEF OtherThread
<1>3. ASSUME NEW p \in Push, PushStep(p) \/ \E c \in Chat : Acquire(p, c)
      PROVE  PushInv'
    BY <1>3, AcquireKeeps, NumberKeeps, LookKeeps, EndKeeps, DropKeeps, RetainKeeps
    DEF PushStep
<1>4. ASSUME NEW q \in Pager,
             \/ ReadRow(q) \/ ReadEvents(q)
             \/ \E c \in Chat, n \in 0..MaxSeq : Ask(q, c, n)
      PROVE  PushInv'
    BY <1>4, StillKeeps DEF ReadRow, ReadEvents, Ask, PageOnly, vars
<1> QED
    BY <1>1, <1>2, <1>3, <1>4 DEF RelayNext

THEOREM PushInvariance == RelaySpec => []PushInv
BY InitPushInv, NextPushInv, PTL DEF RelaySpec

-----------------------------------------------------------------------------

\* The number sent in a push frame is the one under which it is retained, for any
\* number of pushes and sessions, unless something other than a push of its session
\* moved the end of the log in between.
THEOREM PushesNumberedTruly == RelaySpec => []PushNumberTrue
<1>1. PushInv => PushNumberTrue
    BY DEF PushInv, Fine, Numbered, PushNumberTrue
<1> QED
    BY <1>1, PushInvariance, PTL

\* A failed push drops only a chat that was not there when it began, with no event
\* that the log showed when it looked, whatever sweeps, deletions and appends do and
\* in whatever order they read the clock.
THEOREM FailedPushesSpare == RelaySpec => FailedPushSparesChat
<1>1. ASSUME PushInv, [RelayNext]_relayVars
      PROVE  [\A p \in Push :
                DropChat(p) => /\ ~push[p].existed
                               /\ Seqs(events[push[p].chat]) \subseteq push[p].unseen]_relayVars
    BY <1>1 DEF PushInv, Fine, LookedAt, DropChat
<1> QED
    BY <1>1, PushInvariance, PTL DEF RelaySpec, FailedPushSparesChat

(***************************************************************************)
(* Snapshots.  They rest on what the store guarantees: a log has no holes  *)
(* and does not shrink at its end while its row lives.                     *)
(***************************************************************************)

PushPlaced == \A p \in Push : push[p].pc \in Holding => push[p].chat \in Chat

PageState ==
    [pc : {"off", "row", "events", "answered"}, chat : Chat \cup {NoChat},
     after : Nat, latest : Nat, seqs : SUBSET Nat, next : Nat,
     more : BOOLEAN, same : BOOLEAN]

\* A page is asked for with nothing in it.
Asked(q) ==
    page[q].pc \in {"row", "events"} => page[q].chat \in Chat /\ page[q].seqs = {}

\* The end that the row counts is not above the end of the log it was read in.
CountedEnd(q) ==
    /\ page[q].pc = "row" => page[q].latest = 0
    /\ page[q].pc = "events" /\ page[q].same =>
          /\ Present(page[q].chat)
          /\ page[q].latest <= row[page[q].chat].latest

Whole(q) ==
    page[q].pc = "answered" =>
        /\ page[q].seqs = page[q].after + 1 .. page[q].next
        /\ page[q].same /\ ~page[q].more => page[q].next >= page[q].latest

PageInv ==
    /\ page \in [Pager -> PageState]
    /\ \A q \in Pager : Asked(q) /\ CountedEnd(q) /\ Whole(q)

RelayInv == IInv /\ PushInv /\ PushPlaced /\ PageInv

-----------------------------------------------------------------------------
(* Pages of a log without holes                                             *)

\* LIMIT k takes the next k numbers of a run.
LEMMA FirstOfRun ==
    ASSUME NEW a \in Nat, NEW e \in Nat, NEW k \in Nat
    PROVE  First(a + 1 .. e, k) = {m \in a + 1 .. e : m <= a + k}
<1> SUFFICES ASSUME NEW m \in a + 1 .. e
             PROVE  Cardinality({n \in a + 1 .. e : n < m}) < k <=> m <= a + k
  BY DEF First
<1>1. {n \in a + 1 .. e : n < m} = a + 1 .. m - 1
  OBVIOUS
<1>2. Cardinality(a + 1 .. m - 1) = m - 1 - a
  BY FS_Interval
<1>3. Cardinality({n \in a + 1 .. e : n < m}) = m - 1 - a
  BY <1>1, <1>2
<1> DEFINE C == Cardinality({n \in a + 1 .. e : n < m})
<1>4. C = m - 1 - a
  BY <1>3
<1> HIDE DEF C
<1>5. C < k <=> m <= a + k
  BY <1>4
<1> QED
  BY <1>5 DEF C

\* Above the floor the log is a run up to its end.
LEMMA AfterIsRun ==
    ASSUME IInv, NEW c \in Chat, NEW a \in Nat, a >= row[c].floor
    PROVE  After(c, a) = a + 1 .. row[c].latest
<1>1. row[c].latest \in Nat /\ row[c].floor \in Nat /\ events[c] \subseteq Event
  BY DEF IInv, TypeOK, Row
<1>2. ASSUME NEW n \in After(c, a) PROVE n \in a + 1 .. row[c].latest
  <2>1. PICK e \in events[c] : e.seq = n
    BY DEF After, Seqs
  <2>2. n \in Nat /\ n > a /\ n <= row[c].latest
    BY <1>1, <2>1 DEF After, Event, IInv, WellFormedLog
  <2> QED
    BY <1>1, <2>2
<1>3. ASSUME NEW n \in a + 1 .. row[c].latest PROVE n \in After(c, a)
  <2>1. n \in row[c].floor + 1 .. row[c].latest /\ n > a
    BY <1>1
  <2> QED
    BY <2>1 DEF IInv, NoHoles, After
<1> QED
  BY <1>2, <1>3

\* The newest of a run.
LEMMA MaxOfRun ==
    ASSUME NEW a \in Nat, NEW b \in Nat, b > a
    PROVE  MaxOf(a + 1 .. b) = b
<1>1. b \in a + 1 .. b /\ \A n \in a + 1 .. b : n <= b
  OBVIOUS
<1>2. \A m \in a + 1 .. b : (\A n \in a + 1 .. b : n <= m) => m = b
  OBVIOUS
<1> QED
  BY <1>1, <1>2 DEF MaxOf

\* What an answer holds: a run from the client's cursor on, and the end of the
\* log if it says that there is no more.
LEMMA AnswerIsWhole ==
    ASSUME IInv, PageInv, NEW q \in Pager, page[q].chat \in Chat,
           page[q].after >= row[page[q].chat].floor, Answer(q, Replayed(q))
    PROVE  /\ page' \in [Pager -> PageState]
           /\ page'[q].pc = "answered" /\ page'[q].after = page[q].after
           /\ page'[q].latest = page[q].latest /\ page'[q].same = page[q].same
           /\ page'[q].seqs = page[q].after + 1 .. page'[q].next
           /\ ~page'[q].more => page'[q].next >= row[page[q].chat].latest
<1> DEFINE a == page[q].after
           e == row[page[q].chat].latest
           S == Replayed(q)
<1>0. /\ a \in Nat /\ e \in Nat /\ PageLimit \in Nat \ {0} /\ page[q] \in PageState
      /\ page \in [Pager -> PageState]
  BY PageLimitAssumption DEF IInv, TypeOK, Row, PageInv, PageState
<1>1. S = {m \in a + 1 .. e : m <= a + (PageLimit + 1)}
  BY <1>0, AfterIsRun, FirstOfRun DEF Replayed
<1>2. PICK m \in Nat : \/ /\ S = a + 1 .. m /\ m <= e
                          /\ m = e \/ m = a + PageLimit + 1
                       \/ S = {} /\ e <= a
  <2>1. CASE e <= a
    <3>1. S = {}
      BY <1>0, <1>1, <2>1
    <3> QED
      BY <1>0, <2>1, <3>1
  <2>2. CASE e > a /\ e <= a + PageLimit + 1
    <3>1. S = a + 1 .. e
      BY <1>0, <1>1, <2>2
    <3> QED
      BY <1>0, <2>2, <3>1
  <2>3. CASE e > a + PageLimit + 1
    <3>1. S = a + 1 .. a + PageLimit + 1
      BY <1>0, <1>1, <2>3
    <3>2. a + PageLimit + 1 \in Nat
      BY <1>0
    <3> QED
      BY <1>0, <2>3, <3>1, <3>2
  <2> QED
    BY <1>0, <2>1, <2>2, <2>3
<1>3. PICK k \in 1..PageLimit :
        LET fits == First(S, k)
        IN  SetPage(q, [page[q] EXCEPT
                !.pc = "answered", !.seqs = fits,
                !.next = IF fits = {} THEN page[q].after ELSE MaxOf(fits),
                !.more = fits # S])
  BY DEF Answer
<1> DEFINE fits == First(S, k)
           next == IF fits = {} THEN a ELSE MaxOf(fits)
           r == [page[q] EXCEPT !.pc = "answered", !.seqs = fits, !.next = next,
                                !.more = fits # S]
<1>4. page' = [page EXCEPT ![q] = r]
  BY <1>3 DEF SetPage
<1>5. fits = a + 1 .. next /\ next \in Nat /\ (fits = S => next >= e)
  <2> HIDE DEF S
  <2>1. CASE S = {} /\ e <= a
    <3>1. fits = {}
      BY <2>1 DEF First
    <3>2. next = a
      BY <3>1
    <3> HIDE DEF next, fits
    <3> QED
      BY <1>0, <2>1, <3>1, <3>2
  <2>2. CASE S = a + 1 .. m /\ m <= e /\ (m = e \/ m = a + PageLimit + 1) /\ e > a
    <3>1. fits = {n \in a + 1 .. m : n <= a + k}
      BY <1>0, <2>2, FirstOfRun
    <3>3. m > a
      BY <1>0, <2>2
    <3> HIDE DEF fits, next
    <3>4. PICK b \in Nat : b > a /\ fits = a + 1 .. b /\ b <= a + k /\ b <= m
      <4>1. CASE m <= a + k
        <5>1. fits = a + 1 .. m
          BY <1>0, <3>1, <4>1
        <5> QED
          BY <3>3, <4>1, <5>1
      <4>2. CASE m > a + k
        <5>1. fits = a + 1 .. a + k /\ a + k \in Nat /\ a + k > a /\ a + k <= a + k
          BY <1>0, <3>1, <4>2
        <5>2. a + k <= m
          BY <1>0, <4>2
        <5> QED
          BY <5>1, <5>2
      <4> QED
        BY <1>0, <4>1, <4>2
    <3>5. b \in fits
      BY <1>0, <3>4
    <3>6. MaxOf(fits) = b
      BY <1>0, <3>4, MaxOfRun
    <3>7. next = b
      BY <3>5, <3>6 DEF next
    <3>8. ASSUME fits = S PROVE b = m
      <4>1. m \in fits
        BY <1>0, <2>2, <3>3, <3>8
      <4> QED
        BY <3>4, <4>1
    <3>9. b = m => m = e
      BY <1>0, <2>2, <3>4
    <3> QED
      BY <1>0, <3>4, <3>7, <3>8, <3>9
  <2>3. CASE S = a + 1 .. m /\ m <= e /\ e <= a
    <3>1. S = {}
      BY <1>0, <2>3
    <3> QED
      BY <2>1, <2>3, <3>1
  <2> QED
    BY <1>0, <1>2, <2>1, <2>2, <2>3
<1> HIDE DEF fits, next, S
<1>6. r \in PageState
  <2>1. fits \in SUBSET Nat
    BY <1>0, <1>5
  <2> QED
    BY <1>0, <1>5, <2>1 DEF PageState
<1>7. /\ r.pc = "answered" /\ r.after = a /\ r.latest = page[q].latest
      /\ r.same = page[q].same /\ r.seqs = fits /\ r.next = next
      /\ r.more = (fits # S)
  BY <1>0 DEF PageState
<1> HIDE DEF r
<1>8. page'[q] = r /\ page' \in [Pager -> PageState]
  BY <1>0, <1>4, <1>6
<1> QED
  BY <1>5, <1>7, <1>8


-----------------------------------------------------------------------------
(* The steps                                                                *)

\* Every step is one of the store's, or leaves it alone, or is the look of a
\* failed push.
LEMMA RelayStepsStore ==
    ASSUME PushPlaced, [RelayNext]_relayVars
    PROVE  \/ Next \/ UNCHANGED vars
           \/ \E p \in Push : CheckEvents(p) /\ ~UNCHANGED vars
<1>1. CASE UNCHANGED relayVars \/ Elapse \/ NewSession
  BY <1>1 DEF relayVars, Elapse, NewSession, Next
<1>2. ASSUME NEW t \in Thread, OtherThread(t) PROVE Next
  BY <1>2 DEF OtherThread, Next, ThreadStep, Call
<1>3. ASSUME NEW p \in Push, PushStep(p)
      PROVE  Next \/ UNCHANGED vars \/ CheckEvents(p)
  <2>1. p \in Thread
    BY PushAssumption
  <2>2. CASE DropChat(p) \/ Retain(p) \/ RetainFails(p) \/ Release(p)
    BY <2>1, <2>2 DEF DropChat, Retain, RetainFails, Release, Next, ThreadStep
  <2>3. CASE StartRetain(p)
    <3>1. push[p].chat \in Chat
      BY <2>3 DEF StartRetain, PushPlaced, Holding
    <3> QED
      BY <2>1, <2>3, <3>1 DEF StartRetain, Next, Call
  <2> QED
    BY <1>3, <2>2, <2>3 DEF PushStep, GetLog, ReadNumber, Sent, SendFails, ReadFloor, PushOnly
<1>4. ASSUME NEW p \in Push, NEW c \in Chat, Acquire(p, c) PROVE UNCHANGED vars
  BY <1>4 DEF Acquire, PushOnly
<1>5. ASSUME NEW q \in Pager,
             \/ ReadRow(q) \/ ReadEvents(q)
             \/ \E c \in Chat, n \in 0..MaxSeq : Ask(q, c, n)
      PROVE  UNCHANGED vars
  BY <1>5 DEF ReadRow, ReadEvents, Ask, PageOnly
<1> QED
  BY <1>1, <1>2, <1>3, <1>4, <1>5 DEF RelayNext

\* A push that finds the log empty goes on to drop it.
LEMMA CheckKeepsIInv ==
    ASSUME IInv, PushPlaced, NEW p \in Push, CheckEvents(p)
    PROVE  IInv'
<1>1. CASE UNCHANGED vars
  BY <1>1, NextIInv
<1>2. CASE ~UNCHANGED vars
  <2> DEFINE s == [Idle EXCEPT !.pc = "drop", !.chat = push[p].chat]
  <2>1. push[p].chat \in Chat /\ p \in Thread
    BY PushAssumption DEF CheckEvents, PushPlaced, Holding
  <2>2. s \in ThreadState /\ s.pc = "drop" /\ s.chat = push[p].chat
    BY <2>1 DEF Idle, ThreadState, Kind
  <2>3. /\ thread' = [thread EXCEPT ![p] = s]
        /\ UNCHANGED <<clock, durable, since, requested, tailers, notice>>
    BY <1>2 DEF CheckEvents
  <2> HIDE DEF s
  <2>4. TypeOK'
    BY <2>1, <2>2, <2>3 DEF IInv, TypeOK, durable
  <2> QED
    BY <2>3, <2>4, TablesUnchanged DEF IInv
<1> QED
  BY <1>1, <1>2

LEMMA RelayKeepsIInv ==
    ASSUME IInv, PushPlaced, [RelayNext]_relayVars
    PROVE  IInv'
BY RelayStepsStore, CheckKeepsIInv, NextIInv

\* Pushes keep the chat they are about.
LEMMA RelayKeepsPlaced ==
    ASSUME PushInv, PushPlaced, [RelayNext]_relayVars
    PROVE  PushPlaced'
<1> SUFFICES ASSUME NEW q \in Push, push'[q].pc \in Holding
             PROVE  push'[q].chat \in Chat
  BY DEF PushPlaced
<1>0. push = [p \in Push |-> push[p]] /\ DOMAIN push[q] = DOMAIN NoPush
  BY DEF PushInv, PushShape
<1>1. ASSUME push'[q] = push[q] PROVE push'[q].chat \in Chat
  BY <1>1 DEF PushPlaced
<1>2. ASSUME NEW own, push'[q] = Seen(own)[q] PROVE push'[q].chat \in Chat
  BY <1>0, <1>2 DEF Seen, NoPush, PushPlaced, Holding
<1>3. CASE UNCHANGED push
  BY <1>1, <1>3
<1>4. ASSUME NEW p \in Push, NEW c \in Chat, Acquire(p, c)
      PROVE  push'[q].chat \in Chat
  <2> DEFINE s == [NoPush EXCEPT !.pc = "get", !.chat = c, !.session = session]
  <2>1. push'[q] = IF q = p THEN s ELSE push[q]
    BY <1>0, <1>4 DEF Acquire, Set
  <2>2. s.chat = c
    BY DEF NoPush
  <2> QED
    BY <1>1, <2>1, <2>2
<1>5. ASSUME NEW p \in Push, PushStep(p) PROVE push'[q].chat \in Chat
  <2>1. CASE q # p
    <3>1. push'[q] = push[q] \/ \E own : push'[q] = Seen(own)[q]
      BY <1>0, <1>5, <2>1
         DEF PushStep, GetLog, ReadNumber, Sent, SendFails, ReadFloor, CheckEvents,
             DropChat, StartRetain, Retain, RetainFails, Release, Set, Seen
    <3> QED
      BY <1>1, <1>2, <3>1
  <2>2. CASE q = p
    <3>1. push[p].pc \in Holding
      BY <1>5
         DEF PushStep, GetLog, ReadNumber, Sent, SendFails, ReadFloor, CheckEvents,
             DropChat, StartRetain, Retain, RetainFails, Release, Holding
    <3>2. DOMAIN push[p] = DOMAIN NoPush
      BY <1>0, <2>2
    <3>3. \A pc : push'[p] = At(p, pc) => push'[p].chat = push[p].chat
      BY <3>2 DEF At, NoPush
    <3>4. ASSUME GetLog(p) \/ ReadNumber(p) \/ ReadFloor(p)
          PROVE push'[p].chat = push[p].chat
      <4>1. \A pc, x, y :
              /\ [At(p, pc) EXCEPT !.existed = x].chat = push[p].chat
              /\ [At(p, pc) EXCEPT !.number = x, !.disturbed = y].chat = push[p].chat
              /\ [At(p, pc) EXCEPT !.floor = x, !.unseen = y].chat = push[p].chat
        BY <3>2 DEF At, NoPush
      <4>2. CASE GetLog(p)
        <5>1. \E x : push'[p] = [At(p, "number") EXCEPT !.existed = x]
          BY <1>0, <4>2 DEF GetLog, Set
        <5> QED
          BY <4>1, <5>1
      <4>3. ASSUME NEW s, Set(p, s) PROVE push'[p] = s
        BY <1>0, <4>3 DEF Set
      <4>4. CASE ReadNumber(p)
        <5>1. \/ \E x, y : push'[p] = [At(p, "send") EXCEPT !.number = x, !.disturbed = y]
              \/ push'[p] = At(p, "done")
          BY <4>3, <4>4 DEF ReadNumber
        <5>2. ASSUME NEW x, NEW y,
                     push'[p] = [At(p, "send") EXCEPT !.number = x, !.disturbed = y]
              PROVE  push'[p].chat = push[p].chat
          BY <4>1, <5>2
        <5> QED
          BY <3>3, <5>1, <5>2
      <4>5. CASE ReadFloor(p)
        <5>1. \E x, y : push'[p] = [At(p, "check") EXCEPT !.floor = x, !.unseen = y]
          BY <4>3, <4>5 DEF ReadFloor
        <5> QED
          BY <4>1, <5>1
      <4> QED
        BY <3>4, <4>2, <4>4, <4>5
    <3>5. ASSUME NEW pc, Set(p, At(p, pc)) PROVE push'[p].chat = push[p].chat
      BY <1>0, <3>3, <3>5 DEF Set
    <3>6. ASSUME DropChat(p) \/ Retain(p) PROVE push'[p].chat = push[p].chat
      <4>1. \E own : \/ push' = [Seen(own) EXCEPT ![p] = At(p, "done")]
                    \/ push' = [Seen(own) EXCEPT ![p] =
                                  [At(p, "bump") EXCEPT !.seq = NextSeq(push[p].chat)]]
        BY <3>6 DEF DropChat, Retain
      <4> QED
        BY <3>2, <4>1 DEF Seen, At, NoPush
    <3>7. push'[p].chat = push[p].chat
      BY <1>5, <3>4, <3>5, <3>6
         DEF PushStep, Sent, SendFails, CheckEvents, StartRetain, RetainFails, Release
    <3> QED
      BY <2>2, <3>1, <3>7 DEF PushPlaced
  <2> QED
    BY <2>1, <2>2
<1>6. CASE \E t \in Thread \ Push : OtherThread(t)
  BY <1>2, <1>6 DEF OtherThread
<1>7. CASE \E p \in Pager : \/ ReadRow(p) \/ ReadEvents(p)
                           \/ \E c \in Chat, n \in 0..MaxSeq : Ask(p, c, n)
  BY <1>3, <1>7 DEF ReadRow, ReadEvents, Ask, PageOnly
<1> QED
  BY <1>3, <1>4, <1>5, <1>6, <1>7 DEF RelayNext, relayVars, Elapse, NewSession

\* A step of the store that the snapshots see.
LEMMA SeenByPages ==
    ASSUME IInv, PageInv, Next, PagesSee
    PROVE  PageInv'
<1> DEFINE Gone(q) == page[q].pc \in {"row", "events"} /\ RowGoes(page[q].chat)
           Blurred(q) == [page[q] EXCEPT !.same = page[q].pc = "row"]
<1>1. page' = [q \in Pager |-> IF Gone(q) THEN Blurred(q) ELSE page[q]]
  BY DEF PagesSee
<1>2. ASSUME NEW q \in Pager
      PROVE  page'[q] \in PageState /\ Asked(q)' /\ CountedEnd(q)' /\ Whole(q)'
  <2>1. page[q] \in PageState /\ Asked(q) /\ CountedEnd(q) /\ Whole(q)
    BY DEF PageInv
  <2>2. CASE Gone(q)
    <3>1. page'[q] = Blurred(q)
      BY <1>1, <2>2
    <3>2. (page[q].pc = "row") \in BOOLEAN
      OBVIOUS
    <3>3. /\ Blurred(q) \in PageState /\ Blurred(q).pc = page[q].pc
          /\ Blurred(q).chat = page[q].chat /\ Blurred(q).seqs = page[q].seqs
          /\ Blurred(q).latest = page[q].latest
          /\ Blurred(q).same <=> page[q].pc = "row"
      BY <2>1, <3>2 DEF PageState
    <3> HIDE DEF Blurred
    <3>4. page'[q].pc = page[q].pc /\ page[q].pc \in {"row", "events"}
      BY <2>2, <3>1, <3>3
    <3>5. Asked(q)'
      BY <2>1, <3>1, <3>3 DEF Asked
    <3>6. CountedEnd(q)'
      BY <2>1, <3>1, <3>3, <3>4 DEF CountedEnd
    <3>7. Whole(q)'
      BY <3>4 DEF Whole
    <3> QED
      BY <3>1, <3>3, <3>5, <3>6, <3>7
  <2>3. CASE ~Gone(q)
    <3>1. page'[q] = page[q]
      BY <1>1, <2>3
    <3>2. CountedEnd(q)'
      <4>1. SUFFICES ASSUME page[q].pc = "events", page[q].same
                     PROVE  /\ Present(page[q].chat)'
                            /\ page[q].latest <= row'[page[q].chat].latest
        BY <2>1, <3>1 DEF CountedEnd, Present
      <4>2. PICK c \in Chat : c = page[q].chat
        BY <2>1, <4>1 DEF Asked
      <4>3. Present(c) /\ page[q].latest <= row[c].latest
        BY <2>1, <4>1, <4>2 DEF CountedEnd
      <4>4. row'[c].status # "absent"
        BY <2>3, <4>1, <4>2, <4>3 DEF RowGoes
      <4>5. row'[c].latest >= row[c].latest
        BY <4>3, <4>4, NextMovesForward DEF LogMovesForward, SameLife, Present
      <4>6. row'[c].latest \in Nat /\ row[c].latest \in Nat /\ page[q].latest \in Nat
        <5>1. IInv'
          BY NextIInv
        <5> QED
          BY <2>1, <5>1 DEF IInv, TypeOK, Row, PageState
      <4>7. page[q].latest <= row'[c].latest
        BY <4>3, <4>5, <4>6
      <4>8. page'[q].chat = c
        BY <3>1, <4>2
      <4> QED
        BY <4>2, <4>4, <4>7, <4>8 DEF Present
    <3> QED
      BY <2>1, <3>1, <3>2 DEF Asked, Whole
  <2> QED
    BY <2>2, <2>3
<1>3. page' \in [Pager -> PageState]
  BY <1>1, <1>2
<1> QED
  BY <1>2, <1>3 DEF PageInv

\* A step that leaves the rows and the snapshots alone.
LEMMA PagesRest ==
    ASSUME PageInv, UNCHANGED <<row, page>>
    PROVE  PageInv'
BY DEF PageInv, Asked, CountedEnd, Whole, Present

\* A step of one snapshot.
LEMMA OwnPage ==
    ASSUME PageInv, UNCHANGED row, NEW q \in Pager, NEW r \in PageState, SetPage(q, r),
           r.pc \in {"row", "events"} => r.chat \in Chat /\ r.seqs = {},
           r.pc = "row" => r.latest = 0,
           r.pc = "events" /\ r.same =>
             Present(r.chat) /\ r.latest <= row[r.chat].latest,
           r.pc = "answered" =>
             /\ r.seqs = r.after + 1 .. r.next
             /\ r.same /\ ~r.more => r.next >= r.latest
    PROVE  PageInv'
<1>1. page' \in [Pager -> PageState] /\ page'[q] = r
  BY DEF PageInv, SetPage
<1>2. ASSUME NEW o \in Pager, o # q
      PROVE  Asked(o)' /\ CountedEnd(o)' /\ Whole(o)'
  <2>1. page'[o] = page[o]
    BY <1>2 DEF PageInv, SetPage
  <2> QED
    BY <2>1 DEF PageInv, Asked, CountedEnd, Whole, Present
<1>3. Asked(q)' /\ CountedEnd(q)' /\ Whole(q)'
  BY <1>1 DEF Asked, CountedEnd, Whole, Present
<1> QED
  BY <1>1, <1>2, <1>3 DEF PageInv

LEMMA PageStepKeeps ==
    ASSUME IInv, PageInv, NEW q \in Pager,
           \/ ReadRow(q) \/ ReadEvents(q)
           \/ \E c \in Chat, n \in 0..MaxSeq : Ask(q, c, n)
    PROVE  PageInv'
<1>1. page[q] \in PageState /\ Asked(q) /\ CountedEnd(q) /\ Whole(q)
  BY DEF PageInv
<1>2. ASSUME NEW c \in Chat, NEW n \in 0..MaxSeq, Ask(q, c, n) PROVE PageInv'
  <2> DEFINE r == [NoPage EXCEPT !.pc = "row", !.chat = c, !.after = n]
  <2>1. /\ r \in PageState /\ r.pc = "row" /\ r.chat = c /\ r.seqs = {}
        /\ r.latest = 0
    <3>1. n \in Nat
      BY LimitsAssumption
    <3>2. PICK x \in PageState : x = NoPage /\ x.seqs = {} /\ x.latest = 0
      <4>1. NoPage \in PageState
        BY DEF NoPage, PageState
      <4>2. NoPage.seqs = {} /\ NoPage.latest = 0
        BY DEF NoPage
      <4> QED
        BY <4>1, <4>2
    <3>3. r = [x EXCEPT !.pc = "row", !.chat = c, !.after = n]
      BY <3>2
    <3> HIDE DEF r
    <3> QED
      BY <3>1, <3>2, <3>3 DEF PageState
  <2>2. SetPage(q, r) /\ UNCHANGED row
    BY <1>2 DEF Ask, PageOnly, vars
  <2> HIDE DEF r
  <2> QED
    BY <2>1, <2>2, OwnPage
<1>3. CASE ReadRow(q)
  <2>1. PICK c \in Chat : c = page[q].chat /\ page[q].pc = "row" /\ page[q].seqs = {}
                         /\ page[q].latest = 0
    BY <1>1, <1>3 DEF ReadRow, Asked, CountedEnd
  <2>2. UNCHANGED row /\ row[c].latest \in Nat
    BY <1>3 DEF ReadRow, PageOnly, vars, IInv, TypeOK, Row
  <2>3. CASE Present(c) /\ SetPage(q, [page[q] EXCEPT !.pc = "events", !.same = TRUE,
                                                   !.latest = row[c].latest])
    <3> DEFINE r == [page[q] EXCEPT !.pc = "events", !.same = TRUE, !.latest = row[c].latest]
    <3>1. /\ r \in PageState /\ r.pc = "events" /\ r.chat = c /\ r.seqs = {}
          /\ r.latest = row[c].latest
      BY <1>1, <2>1, <2>2 DEF PageState
    <3>2. SetPage(q, r)
      BY <2>3
    <3> HIDE DEF r
    <3>3. r.latest <= row[r.chat].latest
      BY <2>2, <3>1
    <3> QED
      BY <2>2, <2>3, <3>1, <3>2, <3>3, OwnPage
  <2>4. CASE SetPage(q, [page[q] EXCEPT !.pc = "answered", !.next = page[q].after])
    <3> DEFINE r == [page[q] EXCEPT !.pc = "answered", !.next = page[q].after]
    <3>1. /\ r \in PageState /\ r.pc = "answered" /\ r.seqs = {} /\ r.after \in Nat
          /\ r.latest = 0 /\ r.next = r.after
      BY <1>1, <2>1 DEF PageState
    <3>2. SetPage(q, r)
      BY <2>4
    <3> HIDE DEF r
    <3>3. r.seqs = r.after + 1 .. r.next /\ r.next >= r.latest
      BY <3>1
    <3> QED
      BY <2>2, <3>1, <3>2, <3>3, OwnPage
  <2> QED
    BY <1>3, <2>1, <2>3, <2>4 DEF ReadRow
<1>4. CASE ReadEvents(q)
  <2>1. PICK c \in Chat : c = page[q].chat
    BY <1>1, <1>4 DEF ReadEvents, Asked
  <2>2. UNCHANGED row /\ page[q].pc = "events"
    BY <1>4 DEF ReadEvents, PageOnly, vars
  <2>3. CASE SetPage(q, NoPage)
    <3>1. NoPage \in PageState /\ NoPage.pc = "off"
      BY DEF NoPage, PageState
    <3> QED
      BY <2>2, <2>3, <3>1, OwnPage
  <2>4. CASE page[q].after >= row[c].floor /\ Answer(q, Replayed(q))
    <3>1. /\ page' \in [Pager -> PageState]
          /\ page'[q].pc = "answered" /\ page'[q].after = page[q].after
          /\ page'[q].latest = page[q].latest /\ page'[q].same = page[q].same
          /\ page'[q].seqs = page[q].after + 1 .. page'[q].next
          /\ ~page'[q].more => page'[q].next >= row[page[q].chat].latest
      BY <2>1, <2>4, AnswerIsWhole
    <3>2. SetPage(q, page'[q])
      BY <2>4 DEF Answer, SetPage, PageInv
    <3>3. PICK r \in PageState : r = page'[q]
      BY <3>1
    <3>4. row[c].latest \in Nat /\ r.next \in Nat /\ r.latest \in Nat
      BY <3>3 DEF IInv, TypeOK, Row, PageState
    <3>5. page[q].same => page[q].latest <= row[c].latest
      BY <1>1, <2>1, <2>2 DEF CountedEnd
    <3>6. r.same /\ ~r.more => r.next >= r.latest
      BY <2>1, <3>1, <3>3, <3>4, <3>5
    <3>7. SetPage(q, r) /\ r.pc = "answered" /\ r.seqs = r.after + 1 .. r.next
      BY <3>1, <3>2, <3>3
    <3> QED
      BY <2>2, <3>6, <3>7, OwnPage
  <2> QED
    BY <1>4, <2>1, <2>3, <2>4 DEF ReadEvents
<1> QED
  BY <1>2, <1>3, <1>4

LEMMA RelayKeepsPages ==
    ASSUME IInv, PushPlaced, PageInv, [RelayNext]_relayVars
    PROVE  PageInv'
<1>1. CASE UNCHANGED <<row, page>>
  BY <1>1, PagesRest
<1>2. CASE PagesSee /\ Next
  BY <1>2, SeenByPages
<1>3. ASSUME NEW q \in Pager,
             \/ ReadRow(q) \/ ReadEvents(q)
             \/ \E c \in Chat, n \in 0..MaxSeq : Ask(q, c, n)
      PROVE  PageInv'
  BY <1>3, PageStepKeeps
<1>4. ASSUME NEW t \in Thread, OtherThread(t) PROVE PagesSee /\ Next
  BY <1>4 DEF OtherThread, Next, ThreadStep, Call
<1>5. ASSUME NEW p \in Push, PushStep(p) \/ \E c \in Chat : Acquire(p, c)
      PROVE  UNCHANGED <<row, page>> \/ (PagesSee /\ Next)
  <2>1. CASE DropChat(p) \/ Retain(p)
    <3>1. p \in Thread
      BY PushAssumption
    <3> QED
      BY <2>1, <3>1 DEF DropChat, Retain, Next, ThreadStep
  <2>2. CASE CheckEvents(p)
    BY <2>2 DEF CheckEvents, vars, durable
  <2>3. CASE StartRetain(p) \/ RetainFails(p) \/ Release(p)
    BY <2>3 DEF StartRetain, RetainFails, Release, BeginAppend, AppendFails, Bump, durable
  <2>4. CASE PushOnly
    BY <2>4 DEF PushOnly, vars
  <2> QED
    BY <1>5, <2>1, <2>2, <2>3, <2>4
       DEF PushStep, GetLog, ReadNumber, Sent, SendFails, ReadFloor, Acquire
<1>6. CASE UNCHANGED relayVars \/ Elapse \/ NewSession
  BY <1>1, <1>6 DEF relayVars, vars, Elapse, Tick, NewSession
<1> QED
  BY <1>1, <1>2, <1>3, <1>4, <1>5, <1>6 DEF RelayNext

LEMMA InitRelayInv == RelayInit => RelayInv
<1> SUFFICES ASSUME RelayInit PROVE RelayInv
  OBVIOUS
<1>1. IInv /\ PushInv
  BY InitIInv, InitPushInv DEF RelayInit
<1>2. PushPlaced
  BY DEF RelayInit, PushPlaced, NoPush, Holding
<1>3. NoPage \in PageState /\ NoPage.pc = "off"
  BY DEF NoPage, PageState
<1>4. PageInv
  BY <1>3 DEF RelayInit, PageInv, Asked, CountedEnd, Whole
<1> QED
  BY <1>1, <1>2, <1>4 DEF RelayInv

LEMMA NextRelayInv == RelayInv /\ [RelayNext]_relayVars => RelayInv'
BY NextPushInv, RelayKeepsIInv, RelayKeepsPlaced, RelayKeepsPages DEF RelayInv

\* The store keeps its promises while pushes look at logs and drop them: its tables
\* stay consistent and its logs without holes.
LEMMA RelayInvariant == RelaySpec => []RelayInv
BY InitRelayInv, NextRelayInv, PTL DEF RelaySpec

\* A page of a snapshot skips nothing, and reaches the end that the row counts if it
\* says that there is no more: for any limit, log length and size of a frame, and
\* whatever sweeps, deletions, appends and failed pushes do between the reading of
\* the row and that of the events.
THEOREM PagesAreWhole == RelaySpec => []PageIsWhole
<1>1. RelayInv => PageIsWhole
  BY DEF RelayInv, PageInv, Whole, PageIsWhole
<1> QED
  BY <1>1, RelayInvariant, PTL

(***************************************************************************)
(* Subscriptions                                                           *)
(***************************************************************************)

-----------------------------------------------------------------------------
(* What holds of one subscription.                                          *)

\* It belongs to a chat and to a log object that the chat has or had.
Placed(s) ==
    IF Attached(s)
    THEN /\ sub[s].chat \in Chat /\ sub[s].client \in Client
         /\ sub[s].gen \in 1..gen[sub[s].chat]
    ELSE sub[s] = Off

\* Its batch is a run of sequence numbers that starts just above its cursor.
InOrder(s) ==
    /\ \A n \in sub[s].batch : n > sub[s].cursor /\ n <= MaxSeq + 1
    /\ \A n \in sub[s].batch : sub[s].cursor + 1 .. n \subseteq sub[s].batch
    /\ sub[s].cursor <= MaxSeq + 1
    /\ sub[s].pc = "ack" => sub[s].cursor > 0
    /\ sub[s].pc \in {"park", "waiting"} => sub[s].batch = {}

Bumping(c) ==
    \E t \in Thread : \/ thread[t].pc = "bump" /\ thread[t].chat = c
                      \/ thread[t].pc = "bump_all"

HasReplayed == {"deliver", "ack", "park", "waiting"}

\* What it has replayed is all there is above its cursor, unless the version
\* has moved since or somebody is about to move it.
UpToDate(s) ==
    sub[s].pc \in HasReplayed /\ Registered(s) =>
        \/ sub[s].moved
        \/ Bumping(sub[s].chat)
        \/ /\ sub[s].cursor >= row[sub[s].chat].floor
           /\ ReplayAfter(sub[s].chat, sub[s].cursor) \subseteq sub[s].batch

\* A sleeper whose version has moved has a wake-up queued.
Woken(s) ==
    sub[s].pc = "waiting" /\ sub[s].moved =>
        <<sub[s].chat, sub[s].gen>> \in queued

\* What is to be delivered has been appended to the log in its present life.
Appended(s) ==
    Sound(s) => \A n \in sub[s].batch : n <= row[sub[s].chat].latest

SubInv(s) ==
    Placed(s) /\ InOrder(s) /\ UpToDate(s) /\ Woken(s) /\ Appended(s)

\* The log objects that drops may still cost stay within the bound.
GensBounded == \A c \in Chat : GenOf(c) \in 1..MaxLogs

\* A log grows no longer than the bound and the tombstone above it.
SeqsBounded ==
    \A c \in Chat : /\ row[c].latest <= MaxSeq + 1
                    /\ ~Deleted(c) => row[c].latest <= MaxSeq

AttachedFinite == IsFiniteSet({s \in Sub : Attached(s)})

TailInv ==
    /\ IInv /\ TailTypeOK /\ GensBounded /\ SeqsBounded
    /\ AttachedFinite /\ TailersExact
    /\ \A s \in Sub : SubInv(s)

-----------------------------------------------------------------------------
(* What the store's steps do to one chat                                    *)

Quiet(c) ==
    /\ row'[c].latest = row[c].latest /\ row'[c].floor = row[c].floor
    /\ events'[c] = events[c]
    /\ Present(c) => Present(c)'
    /\ Deleted(c) => Deleted(c)'

Grows(c, t) ==
    /\ thread[t].chat = c /\ thread'[t].pc = "bump" /\ thread'[t].chat = c
    /\ row[c].latest < MaxSeq
    /\ row'[c].latest = row[c].latest + 1 /\ row'[c].floor = row[c].floor
    /\ Present(c)'

Trims(c) ==
    /\ \/ row'[c].latest = row[c].latest /\ row'[c].status = row[c].status
       \/ row'[c].latest = row[c].latest + 1 /\ Live(c) /\ Deleted(c)'
    /\ row'[c].floor \in row[c].floor .. row'[c].latest
    /\ Present(c) => Present(c)'

Removed(c) == row'[c] = NoRow /\ events'[c] = {}

\* The steps of the store that neither sweep nor drop nor restart.
Ordinary ==
    \/ Tick
    \/ ConsumeSweepRequested
    \/ \E t \in Thread :
         \/ MarkDeleted(t) \/ Append(t) \/ AppendFails(t) \/ SweepFails(t)
         \/ BeginSweep(t) \/ ScanTailers(t) \/ CheckEmpty(t) \/ Bump(t)
         \/ \E c \in Chat : Call(t, c)
    \/ \E c \in Chat, m \in Msg : DedupRecord(c, m) \/ DedupForget(c, m)

LEMMA OrdinaryRow ==
    ASSUME IInv, Ordinary, NEW c \in Chat
    PROVE  Quiet(c) \/ \E t \in Thread : Grows(c, t)
<1>0. TypeOK /\ WellFormedLog /\ row[c] \in Row
  BY DEF IInv, TypeOK
<1>1. CASE row'[c] = row[c] /\ events'[c] = events[c]
  BY <1>1 DEF Quiet, Present, Deleted
<1>2. ASSUME NEW t \in Thread, MarkDeleted(t) PROVE Quiet(c)
  <2>1. events' = events
        /\ row' = [row EXCEPT ![thread[t].chat].status = "deleted",
                              ![thread[t].chat].deletedAt = thread[t].ts,
                              ![thread[t].chat].updatedAt = thread[t].ts]
    BY <1>2 DEF MarkDeleted
  <2>2. row'[c].latest = row[c].latest /\ row'[c].floor = row[c].floor
        /\ (row'[c].status = row[c].status \/ row'[c].status = "deleted")
    BY <1>0, <2>1 DEF TypeOK, Row
  <2> QED
    BY <2>1, <2>2 DEF Quiet, Present, Deleted
<1>3. ASSUME NEW t \in Thread, Append(t), thread[t].chat = c PROVE Grows(c, t)
  <2> DEFINE ts == thread[t].ts
             base == IF Present(c) THEN row[c] ELSE NewRow(ts)
             up == [Idle EXCEPT !.pc = "bump", !.chat = c]
  <2>1. /\ row' = [row EXCEPT ![c] = [base EXCEPT !.latest = NextSeq(c),
                                                  !.updatedAt = ts]]
        /\ thread' = [thread EXCEPT ![t] = up]
        /\ row[c].latest < MaxSeq
    BY <1>3 DEF Append
  <2>2. ts \in Nat
    BY <1>0 DEF TypeOK, ThreadState
  <2>3. base \in Row /\ base.status # "absent" /\ base.floor = row[c].floor
    <3>1. CASE Present(c)
      BY <1>0, <3>1 DEF Present
    <3>2. CASE ~Present(c)
      <4>1. row[c] = NoRow
        BY <1>0, <3>2 DEF WellFormedLog
      <4>2. base = NewRow(ts)
        BY <3>2
      <4> HIDE DEF base, ts
      <4> QED
        BY <2>2, <4>1, <4>2 DEF NewRow, NoRow, Row
    <3> QED
      BY <3>1, <3>2
  <2> HIDE DEF base, ts
  <2>4. row'[c] = [base EXCEPT !.latest = NextSeq(c), !.updatedAt = ts]
    BY <1>0, <2>1 DEF TypeOK
  <2>5. row'[c].latest = NextSeq(c) /\ row'[c].floor = base.floor
        /\ row'[c].status = base.status
    BY <2>3, <2>4 DEF Row
  <2>6. up.pc = "bump" /\ up.chat = c
    BY DEF Idle
  <2> HIDE DEF up
  <2>7. thread'[t] = up
    BY <1>0, <2>1 DEF TypeOK
  <2> QED
    BY <1>3, <2>1, <2>3, <2>5, <2>6, <2>7 DEF Grows, NextSeq, Present
<1>4. ASSUME NEW t \in Thread, Append(t), thread[t].chat # c
      PROVE  row'[c] = row[c] /\ events'[c] = events[c]
  BY <1>0, <1>4 DEF Append, TypeOK
<1>5. ASSUME NEW b \in Chat, NEW m \in Msg, DedupRecord(b, m) PROVE Quiet(c)
  <2>1. row' = (IF Present(b) THEN row ELSE [row EXCEPT ![b] = NewRow(clock)])
        /\ events' = events
    BY <1>5 DEF DedupRecord
  <2>2. CASE Present(b) \/ b # c
    <3>1. row'[c] = row[c]
      BY <1>0, <2>1, <2>2 DEF TypeOK
    <3>2. events'[c] = events[c]
      BY <2>1
    <3> QED
      BY <3>1, <3>2 DEF Quiet, Present, Deleted
  <2>3. CASE ~Present(b) /\ b = c
    <3>1. row[c] = NoRow
      BY <1>0, <2>3 DEF WellFormedLog
    <3>2. row'[c] = NewRow(clock)
      BY <1>0, <2>1, <2>3 DEF TypeOK
    <3> QED
      BY <2>1, <3>1, <3>2 DEF Quiet, Present, Deleted, NewRow, NoRow
  <2> QED
    BY <2>2, <2>3
<1>6. CASE row' = row /\ events' = events
  BY <1>1, <1>6
<1> QED
  BY <1>1, <1>2, <1>3, <1>4, <1>5, <1>6 DEF Ordinary, Tick, ConsumeSweepRequested,
     AppendFails, SweepFails, BeginSweep, ScanTailers, CheckEmpty, Bump, Call,
     BeginAppend, BeginDelete, BeginDrop, DedupForget, durable

LEMMA SweepRow ==
    ASSUME IInv, NEW ts \in Nat, NEW active, NEW told,
           SweepTxn(ts, active, told), NEW c \in Chat
    PROVE  Trims(c) \/ (Removed(c) /\ Deleted(c))
<1>1. PICK victims \in SUBSET Countable : Collect(ts, victims, told)
  BY DEF SweepTxn
<1>2. TypeOK /\ WellFormedLog
  BY DEF IInv
<1>3. row[c] \in Row /\ row[c].latest \in Nat /\ row[c].floor \in Nat
      /\ row[c].floor <= row[c].latest
  BY <1>2 DEF TypeOK, Row, WellFormedLog
<1>4. CASE c \in Buried(ts)
  <2>1. c \notin victims /\ Deleted(c)
    BY <1>4 DEF Buried, Countable, Deleted, Live
  <2> QED
    BY <1>1, <1>4, <2>1 DEF Collect, Removed
<1>5. CASE c \notin Buried(ts) /\ c \in victims
  <2>1. row'[c] = TombstoneRow(c, ts) /\ Live(c)
    BY <1>1, <1>5 DEF Collect, Countable
  <2> QED
    BY <1>3, <2>1 DEF Trims, TombstoneRow, NextSeq, Deleted, Present
<1>6. CASE c \notin Buried(ts) /\ c \notin victims
  <2>1. row'[c] = TrimmedRow(c, ts)
    BY <1>1, <1>6 DEF Collect
  <2>2. /\ TrimmedRow(c, ts) \in Row
        /\ TrimmedRow(c, ts).latest = row[c].latest
        /\ TrimmedRow(c, ts).floor >= row[c].floor
        /\ TrimmedRow(c, ts).floor <= row[c].latest
        /\ TrimmedRow(c, ts).status = row[c].status
    BY <1>2, TrimLeavesSuffix
  <2>3. TrimmedRow(c, ts).floor \in Nat
    BY <2>2 DEF Row
  <2> QED
    BY <1>3, <2>1, <2>2, <2>3 DEF Trims, Present
<1> QED
  BY <1>4, <1>5, <1>6

LEMMA DropRow ==
    ASSUME IInv, NEW t \in Thread, Drop(t), NEW c \in Chat
    PROVE  IF c = thread[t].chat THEN Removed(c) ELSE Quiet(c)
<1>1. TypeOK
  BY DEF IInv
<1>2. /\ row' = [row EXCEPT ![thread[t].chat] = NoRow]
      /\ events' = [events EXCEPT ![thread[t].chat] = {}]
  BY DEF Drop
<1> QED
  BY <1>1, <1>2 DEF TypeOK, Removed, Quiet, Present, Deleted

\* What a restart finds of a chat: the log as it was or swept, or nothing.
LEMMA RestartRow ==
    ASSUME IInv, Restart \/ RestartAfterCorruption, NEW c \in Chat
    PROVE  Quiet(c) \/ Trims(c) \/ Removed(c)
<1>1. CASE row' = row /\ events' = events
  BY <1>1 DEF Quiet, Present, Deleted
<1>2. CASE SweepTxn(clock, {}, Lose(Thread))
  BY <1>2, SweepRow DEF IInv, TypeOK
<1>3. CASE RestartAfterCorruption
  BY <1>3 DEF RestartAfterCorruption, Removed
<1> QED
  BY <1>1, <1>2, <1>3 DEF Restart

\* Logs stay within the bound explored.
LEMMA NextSeqsBounded ==
    ASSUME IInv, SeqsBounded, Next
    PROVE  SeqsBounded'
<1> SUFFICES ASSUME NEW c \in Chat
             PROVE  /\ row'[c].latest <= MaxSeq + 1
                    /\ ~Deleted(c)' => row'[c].latest <= MaxSeq
  BY DEF SeqsBounded, Deleted
<1>0. row[c].latest \in Nat /\ MaxSeq \in Nat
  BY LimitsAssumption DEF IInv, TypeOK, Row
<1>1. row[c].latest <= MaxSeq + 1 /\ (~Deleted(c) => row[c].latest <= MaxSeq)
  BY DEF SeqsBounded
<1>2. CASE Quiet(c)
  BY <1>1, <1>2 DEF Quiet
<1>3. ASSUME NEW t \in Thread, Grows(c, t)
      PROVE  row'[c].latest <= MaxSeq + 1 /\ row'[c].latest <= MaxSeq
  BY <1>0, <1>3 DEF Grows
<1>4. CASE Trims(c)
  <2>1. CASE row'[c].latest = row[c].latest /\ row'[c].status = row[c].status
    BY <1>1, <2>1 DEF Deleted
  <2>2. CASE row'[c].latest = row[c].latest + 1 /\ Live(c) /\ Deleted(c)'
    BY <1>0, <1>1, <2>2 DEF Deleted, Live
  <2> QED
    BY <1>4, <2>1, <2>2 DEF Trims
<1>5. CASE Removed(c)
  BY <1>0, <1>5 DEF Removed, NoRow
<1>6. CASE Ordinary
  BY <1>0, <1>2, <1>3, <1>6, OrdinaryRow
<1>7. ASSUME NEW t \in Thread, Sweep(t)
      PROVE  Trims(c) \/ Removed(c)
  BY <1>7, SweepRow DEF Sweep, IInv, TypeOK, ThreadState
<1>8. ASSUME NEW t \in Thread, Drop(t) PROVE Removed(c) \/ Quiet(c)
  BY <1>8, DropRow
<1>9. CASE Restart \/ RestartAfterCorruption
  BY <1>2, <1>4, <1>5, <1>9, RestartRow
<1>10. CASE row' = row
  BY <1>1, <1>10 DEF Deleted
<1> QED
  BY <1>2, <1>4, <1>5, <1>6, <1>7, <1>8, <1>9, <1>10 DEF Next, ThreadStep, Ordinary,
     Acknowledge, Attach, Detach, durable

-----------------------------------------------------------------------------
(* Every step of ChatTail is a step of the store                            *)

\* What a reader acknowledges is a number the store can have given out.
LEMMA AcksInRange ==
    ASSUME TailInv, NEW s \in Sub, AckDelivered(s)
    PROVE  /\ sub[s].chat \in Chat /\ sub[s].client \in Client
           /\ sub[s].cursor \in 1..(MaxSeq + 1)
<1>1. sub[s] \in SubState /\ Placed(s) /\ InOrder(s)
  BY DEF TailInv, SubInv, TailTypeOK
<1>2. sub[s].pc = "ack"
  BY DEF AckDelivered
<1>3. MaxSeq \in Nat
  BY LimitsAssumption
<1> QED
  BY <1>1, <1>2, <1>3 DEF Placed, InOrder, Attached, SubState

LEMMA TailStepsStore ==
    ASSUME TailInv, TailNext
    PROVE  Next \/ UNCHANGED vars
<1>1. CASE QuietStep
  <2>1. ASSUME NEW t \in Thread,
               \/ MarkDeleted(t) \/ Append(t) \/ AppendFails(t)
               \/ BeginSweep(t) \/ ScanTailers(t) \/ CheckEmpty(t)
               \/ \E c \in Chat : BeginAppend(t, c) \/ BeginDelete(t, c)
        PROVE  Next
    BY <2>1 DEF Next, ThreadStep, Call
  <2>2. CASE Tick \/ ConsumeSweepRequested
             \/ \E c \in Chat, m \in Msg : DedupRecord(c, m) \/ DedupForget(c, m)
    BY <2>2 DEF Next
  <2> QED
    BY <1>1, <2>1, <2>2 DEF QuietStep
<1>2. ASSUME NEW t \in Thread, SweepEnds(t) \/ BumpOne(t) \/ BumpAll(t) \/ DropLog(t)
      PROVE  Next
  BY <1>2 DEF SweepEnds, BumpOne, BumpAll, DropLog, Next, ThreadStep
<1>3. ASSUME NEW t \in Thread, NEW c \in Chat, PushFails(t, c)
      PROVE  Next
  BY <1>3 DEF PushFails, Next, Call
<1>4. ASSUME NEW l, SetProgressed(l) PROVE UNCHANGED vars
  BY <1>4 DEF SetProgressed
<1>5. ASSUME NEW s \in Sub, AckDelivered(s) PROVE Next
  <2>1. Acknowledge(sub[s].chat, sub[s].client, sub[s].cursor)
    BY <1>5 DEF AckDelivered
  <2> QED
    BY <1>5, <2>1, AcksInRange DEF Next
<1>6. ASSUME NEW s \in Sub, EndTail(s) PROVE Next \/ UNCHANGED vars
  <2>1. sub[s].chat \in Chat
    BY <1>6 DEF EndTail, TailInv, SubInv, Placed, Attached
  <2> QED
    BY <1>6, <2>1 DEF EndTail, Next
<1>7. ASSUME NEW s \in Sub, SubStep(s) \/ DeliverFails(s) \/ Cancel(s)
      PROVE  UNCHANGED vars \/ AckDelivered(s)
  BY <1>7 DEF SubStep, CheckCursor, ReadVersion, Replay, Deliver, AckRefused,
     BatchDone, Park, SendExpired, DeliverFails, Cancel
<1>8. ASSUME NEW s \in Sub, NEW c \in Chat, NEW k \in Client,
             NEW n \in 0..(MaxSeq + 1), Subscribe(s, c, k, n)
      PROVE  Next
  BY <1>8 DEF Subscribe, Next
<1>9. CASE RestartProcess
  BY <1>9 DEF RestartProcess, Next
<1> QED
  BY <1>1, <1>2, <1>3, <1>4, <1>5, <1>6, <1>7, <1>8, <1>9 DEF TailNext

-----------------------------------------------------------------------------
(* Log objects stay within the bound, and the types hold                    *)

LEMMA CreateKeepsBound ==
    ASSUME TailTypeOK, GensBounded, NEW c \in Chat, GetOrCreate(c)
    PROVE  /\ gen' \in [Chat -> 0..MaxLogs] /\ logs' \subseteq Chat
           /\ GensBounded'
           /\ GenOf(c) \in 1..MaxLogs /\ gen'[c] = GenOf(c)
           /\ \A d \in Chat : gen'[d] >= gen[d]
           /\ \A d \in Chat \ {c} : gen'[d] = gen[d] /\ (d \in logs' <=> d \in logs)
<1>1. gen \in [Chat -> 0..MaxLogs] /\ logs \subseteq Chat /\ MaxLogs \in Nat
  BY MaxLogsAssumption DEF TailTypeOK
<1>2. GenOf(c) \in 1..MaxLogs /\ GenOf(c) >= gen[c]
  BY <1>1 DEF GensBounded, GenOf
<1>3. logs' = logs \cup {c} /\ gen' = [gen EXCEPT ![c] = GenOf(c)]
  BY DEF GetOrCreate
<1>4. gen' \in [Chat -> 0..MaxLogs] /\ logs' \subseteq Chat
  <2> HIDE DEF GenOf
  <2> QED
    BY <1>1, <1>2, <1>3
<1>5. gen'[c] = GenOf(c) /\ \A d \in Chat \ {c} : gen'[d] = gen[d]
  BY <1>1, <1>3
<1>6. \A d \in Chat : gen'[d] >= gen[d]
  BY <1>1, <1>2, <1>5
<1>7. GensBounded'
  <2> SUFFICES ASSUME NEW d \in Chat PROVE GenOf(d)' \in 1..MaxLogs
    BY DEF GensBounded
  <2>1. CASE d = c
    BY <1>2, <1>3, <1>5, <2>1 DEF GenOf
  <2>2. CASE d # c
    BY <1>3, <1>5, <2>2 DEF GenOf, GensBounded
  <2> QED
    BY <2>1, <2>2
<1> QED
  BY <1>2, <1>3, <1>4, <1>5, <1>6, <1>7

\* A task keeps its type through the changes that are not its own.
LEMMA MarkedType ==
    ASSUME NEW r \in SubState
    PROVE  /\ [r EXCEPT !.moved = TRUE] \in SubState
           /\ [r EXCEPT !.astray = TRUE] \in SubState
           /\ \A pc \in {"check", "fetch", "replay", "deliver", "ack", "park",
                         "waiting", "expired", "ended"} :
                 [r EXCEPT !.pc = pc] \in SubState
  BY DEF SubState

LEMMA OffType == Off \in SubState
  BY DEF Off, SubState

LEMMA StrayType ==
    ASSUME sub \in [Sub -> SubState], Stray
    PROVE  sub' \in [Sub -> SubState]
<1> SUFFICES ASSUME NEW s \in Sub
             PROVE  (IF /\ Attached(s) /\ Present(sub[s].chat)
                        /\ row'[sub[s].chat].status = "absent"
                     THEN [sub[s] EXCEPT !.astray = TRUE] ELSE sub[s]) \in SubState
  BY DEF Stray
<1> QED
  BY MarkedType

LEMMA BumpLogsType ==
    ASSUME TailTypeOK, NEW L \in SUBSET (Chat \X (1..MaxLogs)), BumpLogs(L)
    PROVE  /\ sub' \in [Sub -> SubState]
           /\ queued' \subseteq Chat \X (1..MaxLogs)
<1>1. sub \in [Sub -> SubState] /\ queued \subseteq Chat \X (1..MaxLogs)
  BY DEF TailTypeOK
<1>2. ASSUME NEW s \in Sub
      PROVE  (IF <<sub[s].chat, sub[s].gen>> \in L
              THEN [sub[s] EXCEPT !.moved = TRUE] ELSE sub[s]) \in SubState
  BY <1>1, MarkedType
<1> QED
  BY <1>1, <1>2 DEF BumpLogs

LEMMA SubStepType ==
    ASSUME TailTypeOK, NEW s \in Sub, Placed(s),
           SubStep(s) \/ DeliverFails(s) \/ Cancel(s)
    PROVE  sub' \in [Sub -> SubState]
<1>1. sub \in [Sub -> SubState] /\ sub[s] \in SubState
  BY DEF TailTypeOK
<1> DEFINE Steps == {"check", "fetch", "replay", "deliver", "ack", "park",
                     "waiting", "expired", "ended"}
<1>2. ASSUME NEW pc \in Steps PROVE Goto(s, pc) \in [Sub -> SubState]
  BY <1>1, <1>2, MarkedType DEF Goto
<1>3. CASE ReadVersion(s)
  <2>1. [sub[s] EXCEPT !.pc = "replay", !.moved = FALSE] \in SubState
    BY <1>1 DEF SubState
  <2>2. sub' = [sub EXCEPT ![s] = [sub[s] EXCEPT !.pc = "replay", !.moved = FALSE]]
    BY <1>1, <1>3 DEF ReadVersion
  <2> QED
    BY <1>1, <2>1, <2>2
<1>4. CASE Replay(s)
  <2>1. ReplayAfter(sub[s].chat, sub[s].cursor) \subseteq Nat \ {0}
    <3>1. events[sub[s].chat] \subseteq Event
      BY <1>4 DEF Placed, Attached, Replay, TailTypeOK, TypeOK
    <3> QED
      BY <3>1 DEF ReplayAfter, Seqs, Event
  <2> DEFINE b == ReplayAfter(sub[s].chat, sub[s].cursor)
  <2> HIDE DEF b
  <2>2. [sub[s] EXCEPT !.pc = "deliver", !.batch = b] \in SubState
    BY <1>1, <2>1 DEF SubState, b
  <2>3. \/ sub' = Goto(s, "expired")
        \/ sub' = [sub EXCEPT ![s] = [sub[s] EXCEPT !.pc = "deliver", !.batch = b]]
    BY <1>1, <1>4 DEF Replay, b
  <2> QED
    BY <1>1, <1>2, <2>2, <2>3
<1>5. CASE Deliver(s)
  <2>1. NextOf(s) \in sub[s].batch
    <3>1. sub[s].batch \in SUBSET Nat /\ sub[s].batch # {}
      BY <1>1, <1>5 DEF Deliver, SubState
    <3>2. \E n \in sub[s].batch : \A m \in sub[s].batch : n <= m
      BY <3>1, MinExists
    <3> QED
      BY <3>2 DEF NextOf
  <2> DEFINE n == NextOf(s)
  <2>2. n \in Nat
    BY <1>1, <2>1 DEF SubState
  <2>3. sub' = [sub EXCEPT ![s] = [sub[s] EXCEPT !.pc = "ack", !.cursor = n,
                                                 !.batch = @ \ {n}]]
    BY <1>1, <1>5 DEF Deliver
  <2> HIDE DEF n
  <2>4. [sub[s] EXCEPT !.pc = "ack", !.cursor = n, !.batch = @ \ {n}] \in SubState
    BY <1>1, <2>2 DEF SubState
  <2> QED
    BY <1>1, <2>3, <2>4
<1>6. CASE CheckCursor(s)
  BY <1>2, <1>6 DEF CheckCursor
<1>7. CASE AckDelivered(s) \/ AckRefused(s) \/ BatchDone(s) \/ SendExpired(s)
           \/ DeliverFails(s) \/ Cancel(s)
  BY <1>2, <1>7 DEF AckDelivered, AckRefused, BatchDone, SendExpired,
     DeliverFails, Cancel
<1>8. CASE Park(s)
  <2>1. (IF sub[s].moved THEN "fetch" ELSE "waiting") \in Steps
    OBVIOUS
  <2> QED
    BY <1>2, <1>8, <2>1 DEF Park
<1> QED
  BY <1>3, <1>4, <1>5, <1>6, <1>7, <1>8 DEF SubStep

LEMMA NextTailTypeOK ==
    ASSUME TailInv, TailNext
    PROVE  TailTypeOK' /\ GensBounded'
<1>0. TypeOK' /\ IInv'
  BY TailStepsStore, NextIInv DEF TailInv, IInv
<1>1. /\ TailTypeOK /\ GensBounded
      /\ sub \in [Sub -> SubState] /\ gen \in [Chat -> 0..MaxLogs]
      /\ logs \subseteq Chat /\ queued \subseteq Chat \X (1..MaxLogs)
  BY DEF TailInv, TailTypeOK
<1>2. ASSUME UNCHANGED <<gen, logs, queued>>, sub' \in [Sub -> SubState]
      PROVE  TailTypeOK' /\ GensBounded'
  BY <1>0, <1>1, <1>2 DEF TailTypeOK, GensBounded, GenOf
<1>3. CASE QuietStep
  BY <1>1, <1>2, <1>3, StrayType DEF QuietStep
<1>4. ASSUME NEW t \in Thread, SweepEnds(t) PROVE TailTypeOK' /\ GensBounded'
  BY <1>1, <1>2, <1>4, StrayType DEF SweepEnds
<1>5. ASSUME NEW t \in Thread, BumpOne(t) PROVE TailTypeOK' /\ GensBounded'
  <2> DEFINE c == thread[t].chat
  <2>1. c \in Chat
    BY <1>5 DEF BumpOne, TailInv, IInv, TypeOK
  <2>2. GetOrCreate(c) /\ BumpLogs({<<c, GenOf(c)>>})
    BY <1>5 DEF BumpOne
  <2> HIDE DEF c
  <2>3. GenOf(c) \in 1..MaxLogs
    BY <1>1, <2>1 DEF GensBounded
  <2>4. {<<c, GenOf(c)>>} \in SUBSET (Chat \X (1..MaxLogs))
    BY <2>1, <2>3
  <2> QED
    BY <1>0, <1>1, <2>1, <2>2, <2>4, BumpLogsType, CreateKeepsBound DEF TailTypeOK
<1>6. ASSUME NEW t \in Thread, BumpAll(t) PROVE TailTypeOK' /\ GensBounded'
  <2> DEFINE L == {<<c, gen[c]>> : c \in logs}
  <2>1. L \in SUBSET (Chat \X (1..MaxLogs))
    BY <1>1 DEF GensBounded, GenOf
  <2>2. BumpLogs(L) /\ UNCHANGED <<gen, logs>>
    BY <1>6 DEF BumpAll
  <2> HIDE DEF L
  <2> QED
    BY <1>0, <1>1, <2>1, <2>2, BumpLogsType DEF TailTypeOK, GensBounded, GenOf
<1>7. ASSUME NEW t \in Thread, DropLog(t) PROVE TailTypeOK' /\ GensBounded'
  <2>1. /\ gen[thread[t].chat] < MaxLogs /\ logs' = logs \ {thread[t].chat}
        /\ UNCHANGED <<gen, queued>> /\ Stray
    BY <1>7 DEF DropLog
  <2>2. sub' \in [Sub -> SubState]
    BY <1>1, <2>1, StrayType
  <2>3. GensBounded'
    <3> SUFFICES ASSUME NEW d \in Chat PROVE GenOf(d)' \in 1..MaxLogs
      BY DEF GensBounded
    <3>1. CASE d = thread[t].chat
      <4>1. gen[d] \in Nat /\ gen[d] < MaxLogs /\ MaxLogs \in Nat
        BY <1>1, <2>1, <3>1, MaxLogsAssumption
      <4> QED
        BY <2>1, <3>1, <4>1 DEF GenOf
    <3>2. CASE d # thread[t].chat
      BY <1>1, <2>1, <3>2 DEF GenOf, GensBounded
    <3> QED
      BY <3>1, <3>2
  <2> QED
    BY <1>0, <1>1, <2>1, <2>2, <2>3 DEF TailTypeOK
<1>8. ASSUME NEW t \in Thread, NEW c \in Chat, PushFails(t, c)
      PROVE  TailTypeOK' /\ GensBounded'
  <2>1. GetOrCreate(c) /\ UNCHANGED <<queued, sub>>
    BY <1>8 DEF PushFails
  <2> QED
    BY <1>0, <1>1, <2>1, CreateKeepsBound DEF TailTypeOK
<1>9. ASSUME NEW l, SetProgressed(l) PROVE TailTypeOK' /\ GensBounded'
  <2>1. /\ queued' = queued \ {l} /\ UNCHANGED <<gen, logs>>
        /\ sub' = [s \in Sub |->
             IF sub[s].pc = "waiting" /\ <<sub[s].chat, sub[s].gen>> = l
             THEN [sub[s] EXCEPT !.pc = "fetch"] ELSE sub[s]]
    BY <1>9 DEF SetProgressed
  <2>2. ASSUME NEW s \in Sub
        PROVE  (IF sub[s].pc = "waiting" /\ <<sub[s].chat, sub[s].gen>> = l
                THEN [sub[s] EXCEPT !.pc = "fetch"] ELSE sub[s]) \in SubState
    BY <1>1, MarkedType
  <2> QED
    BY <1>0, <1>1, <2>1, <2>2 DEF TailTypeOK, GensBounded, GenOf
<1>10. ASSUME NEW s \in Sub, SubStep(s) \/ DeliverFails(s) \/ Cancel(s)
       PROVE  TailTypeOK' /\ GensBounded'
  <2>1. UNCHANGED <<gen, logs, queued>>
    BY <1>10 DEF SubStep, CheckCursor, ReadVersion, Replay, Deliver, AckDelivered,
       AckRefused, BatchDone, Park, SendExpired, DeliverFails, Cancel
  <2>2. Placed(s)
    BY DEF TailInv, SubInv
  <2> QED
    BY <1>1, <1>2, <1>10, <2>1, <2>2, SubStepType
<1>11. ASSUME NEW s \in Sub, EndTail(s) PROVE TailTypeOK' /\ GensBounded'
  <2>1. sub' = [sub EXCEPT ![s] = Off] /\ UNCHANGED <<gen, logs, queued>>
    BY <1>11 DEF EndTail
  <2> QED
    BY <1>1, <1>2, <2>1, OffType
<1>12. ASSUME NEW s \in Sub, NEW c \in Chat, NEW k \in Client,
              NEW n \in 0..(MaxSeq + 1), Subscribe(s, c, k, n)
       PROVE  TailTypeOK' /\ GensBounded'
  <2> DEFINE r == [Off EXCEPT !.pc = "check", !.chat = c, !.client = k,
                              !.gen = GenOf(c), !.cursor = n]
  <2>1. GetOrCreate(c) /\ queued' = queued /\ sub' = [sub EXCEPT ![s] = r]
    BY <1>12 DEF Subscribe
  <2>2. r \in SubState
    <3>1. GenOf(c) \in Nat /\ n \in Nat
      BY <1>1, LimitsAssumption DEF GensBounded
    <3> HIDE DEF GenOf
    <3> QED
      BY <3>1 DEF Off, SubState
  <2> HIDE DEF r
  <2> QED
    BY <1>0, <1>1, <2>1, <2>2, CreateKeepsBound DEF TailTypeOK
<1>13. CASE RestartProcess
  <2>1. /\ gen' = [c \in Chat |-> 0] /\ logs' = {} /\ queued' = {}
        /\ sub' = [s \in Sub |-> Off]
    BY <1>13 DEF RestartProcess
  <2>2. MaxLogs \in Nat \ {0}
    BY MaxLogsAssumption
  <2> QED
    BY <1>0, <2>1, <2>2, OffType DEF TailTypeOK, GensBounded, GenOf
<1> QED
  BY <1>3, <1>4, <1>5, <1>6, <1>7, <1>8, <1>9, <1>10, <1>11, <1>12, <1>13
     DEF TailNext

-----------------------------------------------------------------------------
(* A subscription while others take a step                                  *)

\* It stays as it was, but for its marks.
Kept(s) ==
    \/ sub'[s] = sub[s]
    \/ Attached(s) /\ sub'[s] = [sub[s] EXCEPT !.moved = TRUE]
    \/ Attached(s) /\ sub'[s] = [sub[s] EXCEPT !.astray = TRUE]

LEMMA KeptFields ==
    ASSUME NEW s \in Sub, sub[s] \in SubState, Kept(s)
    PROVE  /\ sub'[s].pc = sub[s].pc /\ sub'[s].chat = sub[s].chat
           /\ sub'[s].client = sub[s].client /\ sub'[s].gen = sub[s].gen
           /\ sub'[s].cursor = sub[s].cursor /\ sub'[s].batch = sub[s].batch
           /\ sub[s].moved => sub'[s].moved
           /\ sub[s].astray => sub'[s].astray
           /\ Attached(s)' = Attached(s)
  BY DEF Kept, SubState, Attached

LEMMA SubKept ==
    ASSUME TailTypeOK, NEW s \in Sub, SubInv(s), Kept(s),
           Attached(s) => gen'[sub[s].chat] \in Nat
                          /\ gen'[sub[s].chat] >= gen[sub[s].chat],
           Attached(s) /\ Registered(s)' => Registered(s),
           Woken(s)',
           Attached(s) /\ Registered(s)' =>
               \/ sub'[s].moved
               \/ Bumping(sub[s].chat)'
               \/ /\ Bumping(sub[s].chat) => Bumping(sub[s].chat)'
                  /\ row'[sub[s].chat].floor = row[sub[s].chat].floor
                  /\ events'[sub[s].chat] = events[sub[s].chat]
               \/ Removed(sub[s].chat),
           Attached(s) /\ Sound(s)' =>
               /\ row[sub[s].chat].latest \in Nat
               /\ row'[sub[s].chat].latest \in Nat
               /\ row'[sub[s].chat].latest >= row[sub[s].chat].latest
    PROVE  SubInv(s)'
<1>0. sub[s] \in SubState /\ gen \in [Chat -> 0..MaxLogs] /\ MaxSeq \in Nat
  BY LimitsAssumption DEF TailTypeOK
<1>1. /\ sub'[s].pc = sub[s].pc /\ sub'[s].chat = sub[s].chat
      /\ sub'[s].client = sub[s].client /\ sub'[s].gen = sub[s].gen
      /\ sub'[s].cursor = sub[s].cursor /\ sub'[s].batch = sub[s].batch
      /\ sub[s].moved => sub'[s].moved
      /\ sub[s].astray => sub'[s].astray
      /\ Attached(s)' = Attached(s)
  BY <1>0, KeptFields
<1>2. CASE ~Attached(s)
  <2>1. sub[s] = Off /\ sub'[s] = Off
    BY <1>2 DEF SubInv, Placed, Kept
  <2>2. sub'[s].pc = "off" /\ sub'[s].batch = {} /\ sub'[s].cursor = 0
    BY <2>1 DEF Off
  <2> QED
    BY <1>0, <2>1, <2>2 DEF SubInv, Placed, Attached, InOrder, UpToDate, Woken,
       Appended, HasReplayed
<1>3. CASE Attached(s)
  <2>1. Placed(s)'
    BY <1>0, <1>1, <1>3 DEF SubInv, Placed
  <2>2. InOrder(s)'
    BY <1>1 DEF SubInv, InOrder
  <2>3. UpToDate(s)'
    <3> SUFFICES ASSUME sub[s].pc \in HasReplayed, Registered(s)',
                        ~sub'[s].moved, ~Bumping(sub[s].chat)'
                 PROVE  /\ sub[s].cursor >= row'[sub[s].chat].floor
                        /\ ReplayAfter(sub[s].chat, sub[s].cursor)'
                             \subseteq sub[s].batch
      BY <1>1 DEF UpToDate, HasReplayed, Bumping, ReplayAfter
    <3>1. CASE Removed(sub[s].chat)
      BY <1>0, <1>1, <3>1 DEF Removed, NoRow, ReplayAfter, Seqs, SubState
    <3>2. CASE ~Removed(sub[s].chat)
      <4>1. /\ ~Bumping(sub[s].chat) /\ Registered(s) /\ ~sub[s].moved
            /\ row'[sub[s].chat].floor = row[sub[s].chat].floor
            /\ events'[sub[s].chat] = events[sub[s].chat]
        BY <1>1, <1>3, <3>2
      <4>2. /\ sub[s].cursor >= row[sub[s].chat].floor
            /\ ReplayAfter(sub[s].chat, sub[s].cursor) \subseteq sub[s].batch
        BY <4>1 DEF SubInv, UpToDate
      <4> QED
        BY <1>1, <4>1, <4>2 DEF ReplayAfter
    <3> QED
      BY <3>1, <3>2
  <2>4. Appended(s)'
    <3> SUFFICES ASSUME Sound(s)', NEW n \in sub[s].batch
                 PROVE  n <= row'[sub[s].chat].latest
      BY <1>1 DEF Appended
    <3>1. Sound(s)
      BY <1>1, <1>3 DEF Sound
    <3>2. n <= row[sub[s].chat].latest /\ n \in Nat
      BY <1>0, <3>1 DEF SubInv, Appended, SubState
    <3> QED
      BY <1>3, <3>2
  <2> QED
    BY <2>1, <2>2, <2>3, <2>4 DEF SubInv
<1> QED
  BY <1>2, <1>3

\* Nobody loses the pending wake-up of another caller.
LEMMA BumpersStay ==
    ASSUME TypeOK, NEW c \in Chat, Bumping(c),
           \/ \E t \in Thread :
                \/ MarkDeleted(t) \/ Append(t) \/ AppendFails(t)
                \/ BeginSweep(t) \/ ScanTailers(t) \/ CheckEmpty(t)
                \/ SweepFails(t) \/ Sweep(t) \/ Drop(t)
                \/ \E d \in Chat : Call(t, d)
           \/ UNCHANGED thread
    PROVE  Bumping(c)'
<1>1. PICK r \in Thread : \/ thread[r].pc = "bump" /\ thread[r].chat = c
                          \/ thread[r].pc = "bump_all"
  BY DEF Bumping
<1>2. thread'[r] = thread[r]
  <2>1. CASE UNCHANGED thread
    BY <2>1
  <2>2. ASSUME NEW t \in Thread, t # r, NEW x, thread' = [thread EXCEPT ![t] = x]
        PROVE  thread'[r] = thread[r]
    BY <2>2 DEF TypeOK
  <2>3. ASSUME NEW t \in Thread,
               MarkDeleted(t) \/ ScanTailers(t) \/ CheckEmpty(t)
        PROVE  thread'[r] = thread[r]
    BY <1>1, <2>3 DEF MarkDeleted, ScanTailers, CheckEmpty, TypeOK
  <2>4. ASSUME NEW t \in Thread, NEW d \in Chat, Call(t, d)
        PROVE  thread'[r] = thread[r]
    BY <1>1, <2>2, <2>4 DEF Call, BeginAppend, BeginDelete, BeginDrop, Enter
  <2>5. ASSUME NEW t \in Thread,
               Append(t) \/ AppendFails(t) \/ SweepFails(t) \/ Sweep(t) \/ Drop(t)
        PROVE  thread'[r] = thread[r]
    BY <1>1, <2>2, <2>5 DEF Append, AppendFails, SweepFails, Sweep, Drop
  <2>6. ASSUME NEW t \in Thread, BeginSweep(t) PROVE thread'[r] = thread[r]
    BY <1>1, <2>2, <2>6 DEF BeginSweep, Enter
  <2> QED
    BY <2>1, <2>3, <2>4, <2>5, <2>6
<1> QED
  BY <1>1, <1>2 DEF Bumping

LEMMA StrayKeeps ==
    ASSUME NEW s \in Sub, sub[s] \in SubState, Stray, queued' = queued, SubInv(s)
    PROVE  Kept(s) /\ Woken(s)'
<1>1. Kept(s)
  BY DEF Stray, Kept
<1>2. sub'[s] = sub[s] \/ sub'[s] = [sub[s] EXCEPT !.astray = TRUE]
  BY DEF Stray
<1>3. /\ sub'[s].pc = sub[s].pc /\ sub'[s].chat = sub[s].chat
      /\ sub'[s].gen = sub[s].gen /\ sub'[s].moved = sub[s].moved
  BY <1>2 DEF SubState
<1> QED
  BY <1>1, <1>3 DEF SubInv, Woken

\* A step of the store disturbs no subscription, as long as what it changes in
\* a log is followed by a wake-up, or the log is gone.
LEMMA StoreStepKeepsSub ==
    ASSUME TailInv, TailTypeOK', NEW s \in Sub, Stray,
           UNCHANGED <<gen, queued>>, logs' \subseteq logs,
           \A c \in Chat :
              \/ Quiet(c) /\ (Bumping(c) => Bumping(c)')
              \/ \E t \in Thread : Grows(c, t)
              \/ Trims(c) /\ Bumping(c)'
              \/ Removed(c)
    PROVE  SubInv(s)'
<1>0. /\ TailTypeOK /\ SubInv(s) /\ sub[s] \in SubState /\ WellFormedLog
      /\ row \in [Chat -> Row] /\ row' \in [Chat -> Row]
      /\ gen \in [Chat -> 0..MaxLogs] /\ sub \in [Sub -> SubState]
  BY DEF TailInv, TailTypeOK, IInv, TypeOK
<1>1. Kept(s) /\ Woken(s)'
  BY <1>0, StrayKeeps
<1>2. sub'[s].chat = sub[s].chat /\ sub'[s].gen = sub[s].gen
  BY <1>0, <1>1, KeptFields
<1>3. ASSUME Attached(s)
      PROVE  /\ gen'[sub[s].chat] \in Nat /\ gen'[sub[s].chat] >= gen[sub[s].chat]
             /\ Registered(s)' => Registered(s)
             /\ sub[s].chat \in Chat
  BY <1>0, <1>2, <1>3 DEF SubInv, Placed, Registered
<1>4. ASSUME Attached(s)
      PROVE  \/ Bumping(sub[s].chat)'
             \/ /\ Bumping(sub[s].chat) => Bumping(sub[s].chat)'
                /\ row'[sub[s].chat].floor = row[sub[s].chat].floor
                /\ events'[sub[s].chat] = events[sub[s].chat]
             \/ Removed(sub[s].chat)
  <2>1. PICK c \in Chat : c = sub[s].chat
    BY <1>3, <1>4
  <2>2. ASSUME NEW t \in Thread, Grows(c, t) PROVE Bumping(c)'
    BY <1>2, <2>2 DEF Grows, Bumping
  <2>3. (\E t \in Thread : Grows(c, t)) => Bumping(c)'
    BY <2>2
  <2>4. \/ Bumping(c)'
        \/ /\ Bumping(c) => Bumping(c)'
           /\ row'[c].floor = row[c].floor
           /\ events'[c] = events[c]
        \/ Removed(c)
    BY <2>1, <2>3 DEF Quiet
  <2> QED
    BY <1>2, <2>1, <2>4 DEF Bumping
<1>5. ASSUME Attached(s), Sound(s)'
      PROVE  /\ row[sub[s].chat].latest \in Nat
             /\ row'[sub[s].chat].latest \in Nat
             /\ row'[sub[s].chat].latest >= row[sub[s].chat].latest
  <2>0. PICK c \in Chat : c = sub[s].chat
    BY <1>3, <1>5
  <2>1. row[c] \in Row /\ row'[c] \in Row
    BY <1>0
  <2>2. row[c].latest \in Nat /\ row'[c].latest \in Nat
    BY <2>1 DEF Row
  <2>3. CASE Removed(c)
    <3>1. row'[c].status = "absent"
      BY <2>3 DEF Removed, NoRow
    <3>2. ~Present(c)
      <4> SUFFICES ASSUME Present(c) PROVE FALSE
        OBVIOUS
      <4>1. sub'[s] = [sub[s] EXCEPT !.astray = TRUE]
        BY <1>5, <2>0, <3>1 DEF Stray
      <4> QED
        BY <1>0, <1>5, <4>1 DEF Sound, SubState
    <3> QED
      BY <1>0, <2>0, <2>1, <2>2, <3>2 DEF WellFormedLog, NoRow
  <2>4. CASE ~Removed(c)
    BY <2>0, <2>1, <2>2, <2>4 DEF Quiet, Grows, Trims
  <2> QED
    BY <2>0, <2>2, <2>3, <2>4
<1> QED
  BY <1>0, <1>1, <1>3, <1>4, <1>5, SubKept

LEMMA StoreStepsKeepSubs ==
    ASSUME TailInv, TailTypeOK', NEW s \in Sub,
           QuietStep \/ \E t \in Thread : SweepEnds(t) \/ DropLog(t)
    PROVE  SubInv(s)'
<1>0. IInv /\ TypeOK
  BY DEF TailInv, IInv
<1>1. CASE QuietStep
  <2>1. Ordinary
    BY <1>1 DEF QuietStep, Ordinary, Call
  <2>2. ASSUME NEW c \in Chat, Bumping(c) PROVE Bumping(c)'
    <3>1. \/ UNCHANGED thread
          \/ \E t \in Thread :
               \/ MarkDeleted(t) \/ Append(t) \/ AppendFails(t)
               \/ BeginSweep(t) \/ ScanTailers(t) \/ CheckEmpty(t)
               \/ \E d \in Chat : Call(t, d)
      BY <1>1 DEF QuietStep, Call, Tick, ConsumeSweepRequested, DedupRecord,
         DedupForget
    <3> QED
      BY <1>0, <2>2, <3>1, BumpersStay
  <2>3. Stray /\ UNCHANGED <<gen, logs, queued>>
    BY <1>1 DEF QuietStep
  <2> QED
    BY <1>0, <2>1, <2>2, <2>3, OrdinaryRow, StoreStepKeepsSub
<1>2. ASSUME NEW t \in Thread, SweepEnds(t), SweepFails(t) PROVE SubInv(s)'
  <2>1. Ordinary
    BY <1>2 DEF Ordinary
  <2>2. \A c \in Chat : Bumping(c) => Bumping(c)'
    BY <1>0, <1>2, BumpersStay
  <2>3. Stray /\ UNCHANGED <<gen, logs, queued>>
    BY <1>2 DEF SweepEnds
  <2> QED
    BY <1>0, <2>1, <2>2, <2>3, OrdinaryRow, StoreStepKeepsSub
<1>3. ASSUME NEW t \in Thread, SweepEnds(t), Sweep(t) PROVE SubInv(s)'
  <2>1. thread[t].ts \in Nat
    BY <1>0 DEF TypeOK, ThreadState
  <2>2. SweepTxn(thread[t].ts, thread[t].active, notice)
    BY <1>3 DEF Sweep
  <2>3. \A c \in Chat : Trims(c) \/ Removed(c)
    BY <1>0, <2>1, <2>2, SweepRow
  <2>4. thread'[t].pc = "bump_all"
    BY <1>0, <1>3 DEF Sweep, TypeOK, Idle
  <2>5. \A c \in Chat : Bumping(c)'
    BY <2>4 DEF Bumping
  <2>6. Stray /\ UNCHANGED <<gen, logs, queued>>
    BY <1>3 DEF SweepEnds
  <2> QED
    BY <2>3, <2>5, <2>6, StoreStepKeepsSub
<1>4. ASSUME NEW t \in Thread, DropLog(t) PROVE SubInv(s)'
  <2>1. Drop(t) /\ Stray /\ UNCHANGED <<gen, queued>> /\ logs' \subseteq logs
    BY <1>4 DEF DropLog
  <2>2. \A c \in Chat : Bumping(c) => Bumping(c)'
    BY <1>0, <2>1, BumpersStay
  <2>3. \A c \in Chat : Removed(c) \/ Quiet(c)
    BY <1>0, <2>1, DropRow
  <2> QED
    BY <2>1, <2>2, <2>3, StoreStepKeepsSub
<1> QED
  BY <1>1, <1>2, <1>3, <1>4 DEF SweepEnds

\* A new log object registers nobody: who is attached is attached to an older
\* one, or to the one that is registered already.
LEMMA CreateRegistersNobody ==
    ASSUME TailTypeOK, GensBounded, NEW c \in Chat, GetOrCreate(c),
           NEW s \in Sub, Attached(s), Placed(s),
           sub'[s].chat = sub[s].chat, sub'[s].gen = sub[s].gen
    PROVE  /\ Registered(s)' => Registered(s)
           /\ Registered(s) => Registered(s)'
           /\ gen'[sub[s].chat] \in Nat /\ gen'[sub[s].chat] >= gen[sub[s].chat]
<1>1. /\ gen' \in [Chat -> 0..MaxLogs] /\ gen'[c] = GenOf(c)
      /\ \A d \in Chat : gen'[d] >= gen[d]
      /\ \A d \in Chat \ {c} : gen'[d] = gen[d] /\ (d \in logs' <=> d \in logs)
  BY CreateKeepsBound
<1>2. /\ sub[s].chat \in Chat /\ sub[s].gen \in 1..gen[sub[s].chat]
      /\ gen[sub[s].chat] \in Nat /\ gen'[sub[s].chat] \in Nat
  BY <1>1 DEF Placed, TailTypeOK
<1>3. CASE sub[s].chat = c
  BY <1>1, <1>2, <1>3 DEF Registered, GenOf, GetOrCreate
<1>4. CASE sub[s].chat # c
  BY <1>1, <1>2, <1>4 DEF Registered
<1> QED
  BY <1>1, <1>2, <1>3, <1>4

\* Who is woken has a new version to see and its event to be set.
LEMMA BumpLogsKeeps ==
    ASSUME TailTypeOK, NEW s \in Sub, SubInv(s),
           NEW L \in SUBSET (Chat \X (1..MaxLogs)), BumpLogs(L)
    PROVE  /\ Kept(s) /\ Woken(s)'
           /\ <<sub[s].chat, sub[s].gen>> \in L => sub'[s].moved
           /\ sub'[s].astray = sub[s].astray
           /\ sub'[s].chat = sub[s].chat /\ sub'[s].gen = sub[s].gen
<1>0. sub[s] \in SubState
  BY DEF TailTypeOK
<1>1. /\ sub'[s] = IF <<sub[s].chat, sub[s].gen>> \in L
                   THEN [sub[s] EXCEPT !.moved = TRUE] ELSE sub[s]
      /\ queued' = queued \cup L
  BY DEF BumpLogs
<1>2. CASE <<sub[s].chat, sub[s].gen>> \in L
  <2>1. Attached(s)
    <3>1. sub[s].chat \in Chat
      BY <1>2
    <3> QED
      BY <3>1, NoChatAssumption DEF SubInv, Placed, Off
  <2> QED
    BY <1>0, <1>1, <1>2, <2>1 DEF Kept, Woken, SubState
<1>3. CASE <<sub[s].chat, sub[s].gen>> \notin L
  BY <1>1, <1>3 DEF Kept, SubInv, Woken
<1> QED
  BY <1>2, <1>3

LEMMA BumpsKeepSubs ==
    ASSUME TailInv, NEW s \in Sub, NEW t \in Thread, BumpOne(t) \/ BumpAll(t)
    PROVE  SubInv(s)'
<1>0. /\ TypeOK /\ TailTypeOK /\ GensBounded /\ SubInv(s) /\ sub[s] \in SubState
      /\ row \in [Chat -> Row] /\ gen \in [Chat -> 0..MaxLogs]
  BY DEF TailInv, TailTypeOK, IInv, TypeOK
<1>1. row' = row /\ events' = events /\ thread' = [thread EXCEPT ![t] = Idle]
  BY DEF BumpOne, BumpAll, Bump, durable
<1>2. ASSUME Attached(s)
      PROVE  /\ row[sub[s].chat].latest \in Nat /\ sub[s].chat \in Chat
             /\ sub[s].gen \in Nat
  BY <1>0, <1>2 DEF SubInv, Placed, Row
<1>3. CASE BumpOne(t)
  <2>1. PICK c \in Chat : c = thread[t].chat
    BY <1>0, <1>3 DEF BumpOne, TypeOK
  <2>2. GetOrCreate(c) /\ BumpLogs({<<c, GenOf(c)>>}) /\ thread[t].pc = "bump"
    BY <1>3, <2>1 DEF BumpOne
  <2>3. PICK g \in 1..MaxLogs : g = GenOf(c)
    BY <1>0 DEF GensBounded
  <2>4. {<<c, g>>} \in SUBSET (Chat \X (1..MaxLogs)) /\ BumpLogs({<<c, g>>})
    BY <2>2, <2>3
  <2>5. /\ Kept(s) /\ Woken(s)'
        /\ <<sub[s].chat, sub[s].gen>> \in {<<c, g>>} => sub'[s].moved
        /\ sub'[s].astray = sub[s].astray
        /\ sub'[s].chat = sub[s].chat /\ sub'[s].gen = sub[s].gen
    BY <1>0, <2>4, BumpLogsKeeps
  <2>6. ASSUME Attached(s)
        PROVE  /\ Registered(s)' => Registered(s)
               /\ gen'[sub[s].chat] \in Nat /\ gen'[sub[s].chat] >= gen[sub[s].chat]
    BY <1>0, <2>2, <2>5, <2>6, CreateRegistersNobody DEF SubInv
  <2>7. ASSUME Attached(s), Registered(s)', sub[s].chat = c PROVE sub'[s].moved
    <3>1. Registered(s) /\ gen[c] = sub[s].gen /\ c \in logs
      BY <2>6, <2>7 DEF Registered
    <3>2. sub[s].gen = g
      BY <2>3, <3>1 DEF GenOf
    <3> QED
      BY <2>5, <2>7, <3>2
  <2>8. ASSUME Attached(s), sub[s].chat # c, Bumping(sub[s].chat)
        PROVE  Bumping(sub[s].chat)'
    BY <1>0, <1>1, <2>1, <2>2, <2>5, <2>8 DEF Bumping, TypeOK
  <2> QED
    BY <1>0, <1>1, <1>2, <2>5, <2>6, <2>7, <2>8, SubKept
<1>4. CASE BumpAll(t)
  <2> DEFINE L == {<<c, gen[c]>> : c \in logs}
  <2>1. L \in SUBSET (Chat \X (1..MaxLogs))
    BY <1>0 DEF GensBounded, GenOf, TailTypeOK
  <2>2. BumpLogs(L) /\ UNCHANGED <<gen, logs>>
    BY <1>4 DEF BumpAll
  <2>3. Registered(s) => <<sub[s].chat, sub[s].gen>> \in L
    BY DEF Registered
  <2> HIDE DEF L
  <2>4. /\ Kept(s) /\ Woken(s)'
        /\ <<sub[s].chat, sub[s].gen>> \in L => sub'[s].moved
        /\ sub'[s].astray = sub[s].astray
        /\ sub'[s].chat = sub[s].chat /\ sub'[s].gen = sub[s].gen
    BY <1>0, <2>1, <2>2, BumpLogsKeeps
  <2>5. Registered(s)' => Registered(s) /\ sub'[s].moved
    BY <2>2, <2>3, <2>4 DEF Registered
  <2>6. ASSUME Attached(s)
        PROVE  gen'[sub[s].chat] \in Nat /\ gen'[sub[s].chat] >= gen[sub[s].chat]
    BY <1>0, <1>2, <2>2, <2>6
  <2> QED
    BY <1>0, <1>1, <1>2, <2>4, <2>5, <2>6, SubKept
<1> QED
  BY <1>3, <1>4

\* The other subscriptions do not notice a step of one of them, of the loop or
\* of a push that creates a log object.
LEMMA OthersKeepSubs ==
    ASSUME TailInv, NEW s \in Sub, sub'[s] = sub[s],
           UNCHANGED <<row, events>>,
           \A d \in Chat : Bumping(d) => Bumping(d)',
           queued \subseteq queued',
           \/ UNCHANGED <<gen, logs>>
           \/ \E c \in Chat : GetOrCreate(c)
    PROVE  SubInv(s)'
<1>0. /\ TypeOK /\ TailTypeOK /\ GensBounded /\ SubInv(s) /\ sub[s] \in SubState
      /\ row \in [Chat -> Row] /\ gen \in [Chat -> 0..MaxLogs]
  BY DEF TailInv, TailTypeOK, IInv, TypeOK
<1>1. ASSUME Attached(s)
      PROVE  /\ row[sub[s].chat].latest \in Nat /\ sub[s].chat \in Chat
             /\ gen[sub[s].chat] \in Nat
  BY <1>0, <1>1 DEF SubInv, Placed, Row
<1>2. Kept(s) /\ Woken(s)'
  BY <1>0 DEF Kept, SubInv, Woken
<1>3. ASSUME Attached(s)
      PROVE  /\ Registered(s)' => Registered(s)
             /\ gen'[sub[s].chat] \in Nat /\ gen'[sub[s].chat] >= gen[sub[s].chat]
  <2>1. CASE UNCHANGED <<gen, logs>>
    BY <1>1, <1>3, <2>1 DEF Registered
  <2>2. ASSUME NEW c \in Chat, GetOrCreate(c)
        PROVE  /\ Registered(s)' => Registered(s)
               /\ gen'[sub[s].chat] \in Nat /\ gen'[sub[s].chat] >= gen[sub[s].chat]
    BY <1>0, <1>3, <2>2, CreateRegistersNobody DEF SubInv
  <2> QED
    BY <2>1, <2>2
<1>4. ASSUME Attached(s), Bumping(sub[s].chat) PROVE Bumping(sub[s].chat)'
  <2>1. PICK d \in Chat : d = sub[s].chat
    BY <1>1, <1>4
  <2>2. Bumping(d)'
    BY <1>4, <2>1
  <2> QED
    BY <2>1, <2>2 DEF Bumping
<1> QED
  BY <1>0, <1>1, <1>2, <1>3, <1>4, SubKept

LEMMA ProgressKeepsSubs ==
    ASSUME TailInv, NEW s \in Sub, NEW l, SetProgressed(l)
    PROVE  SubInv(s)'
<1>0. TailTypeOK /\ SubInv(s) /\ sub[s] \in SubState
  BY DEF TailInv, TailTypeOK
<1>1. /\ row' = row /\ events' = events /\ thread' = thread
      /\ gen' = gen /\ logs' = logs /\ queued' = queued \ {l}
      /\ sub'[s] = IF sub[s].pc = "waiting" /\ <<sub[s].chat, sub[s].gen>> = l
                   THEN [sub[s] EXCEPT !.pc = "fetch"] ELSE sub[s]
  BY DEF SetProgressed, vars, durable
<1>2. CASE sub'[s] = sub[s] /\ ~(sub[s].pc = "waiting" /\ <<sub[s].chat, sub[s].gen>> = l)
  <2>1. Kept(s) /\ Woken(s)'
    BY <1>0, <1>1, <1>2 DEF Kept, SubInv, Woken
  <2>2. ASSUME Attached(s)
        PROVE  /\ row[sub[s].chat].latest \in Nat
               /\ row'[sub[s].chat].latest \in Nat
               /\ row'[sub[s].chat].latest >= row[sub[s].chat].latest
               /\ gen'[sub[s].chat] \in Nat /\ gen'[sub[s].chat] >= gen[sub[s].chat]
    <3>1. sub[s].chat \in Chat
      BY <1>0, <2>2 DEF SubInv, Placed
    <3> QED
      BY <1>0, <1>1, <3>1 DEF TailTypeOK, TypeOK, Row
  <2>3. (Bumping(sub[s].chat) => Bumping(sub[s].chat)')
        /\ (Registered(s)' => Registered(s))
    BY <1>1, <1>2 DEF Bumping, Registered
  <2> QED
    BY <1>0, <1>1, <2>1, <2>2, <2>3, SubKept
<1>3. CASE sub[s].pc = "waiting" /\ sub'[s] = [sub[s] EXCEPT !.pc = "fetch"]
  <2>1. /\ sub'[s].pc = "fetch" /\ sub'[s].chat = sub[s].chat
        /\ sub'[s].client = sub[s].client /\ sub'[s].gen = sub[s].gen
        /\ sub'[s].cursor = sub[s].cursor /\ sub'[s].batch = sub[s].batch
        /\ sub'[s].astray = sub[s].astray
    BY <1>0, <1>3 DEF SubState
  <2>2. Attached(s) /\ Attached(s)' /\ sub[s].batch = {}
    BY <1>0, <1>3, <2>1 DEF Attached, SubInv, InOrder
  <2> QED
    BY <1>0, <1>1, <2>1, <2>2 DEF SubInv, Placed, InOrder, UpToDate, HasReplayed,
       Woken, Appended
<1> QED
  BY <1>1, <1>2, <1>3

-----------------------------------------------------------------------------
(* A subscription's own steps                                               *)

\* What a new state r of the task must satisfy for its invariant to survive.
LEMMA OwnSubStep ==
    ASSUME TailTypeOK, NEW s \in Sub, SubInv(s), Attached(s),
           NEW r \in SubState, sub'[s] = r, r.pc # "off",
           r.chat = sub[s].chat, r.client = sub[s].client,
           r.gen = sub[s].gen, r.astray = sub[s].astray,
           UNCHANGED <<row, events, thread, gen, logs, queued>>,
           \A n \in r.batch : n > r.cursor /\ n <= MaxSeq + 1,
           \A n \in r.batch : r.cursor + 1 .. n \subseteq r.batch,
           r.cursor <= MaxSeq + 1,
           r.pc = "ack" => r.cursor > 0,
           r.pc \in {"park", "waiting"} => r.batch = {},
           r.pc \in HasReplayed /\ Registered(s) =>
               \/ r.moved
               \/ Bumping(sub[s].chat)
               \/ /\ r.cursor >= row[sub[s].chat].floor
                  /\ ReplayAfter(sub[s].chat, r.cursor) \subseteq r.batch,
           r.pc = "waiting" => ~r.moved,
           Sound(s) => \A n \in r.batch : n <= row[sub[s].chat].latest
    PROVE  SubInv(s)'
<1>1. Registered(s)' = Registered(s) /\ Sound(s)' = Sound(s)
  BY DEF Registered, Sound
<1>2. Placed(s)'
  BY DEF SubInv, Placed, Attached
<1>3. InOrder(s)'
  BY DEF InOrder
<1>4. UpToDate(s)'
  BY <1>1 DEF UpToDate, Bumping, ReplayAfter
<1>5. Woken(s)' /\ Appended(s)'
  BY <1>1 DEF Woken, Appended
<1> QED
  BY <1>2, <1>3, <1>4, <1>5 DEF SubInv

\* What a subscription replays is a run of numbers from its cursor on: the log
\* has no holes.
LEMMA ReplayIsRun ==
    ASSUME IInv, SeqsBounded, NEW c \in Chat, NEW cursor \in Nat,
           cursor >= row[c].floor
    PROVE  \A n \in ReplayAfter(c, cursor) :
              /\ n \in Nat /\ n > cursor /\ n <= row[c].latest /\ n <= MaxSeq + 1
              /\ cursor + 1 .. n \subseteq ReplayAfter(c, cursor)
<1> SUFFICES ASSUME NEW n \in ReplayAfter(c, cursor)
             PROVE  /\ n \in Nat /\ n > cursor /\ n <= row[c].latest
                    /\ n <= MaxSeq + 1
                    /\ cursor + 1 .. n \subseteq ReplayAfter(c, cursor)
  OBVIOUS
<1>0. /\ row[c].latest \in Nat /\ row[c].floor \in Nat /\ MaxSeq \in Nat
      /\ row[c].latest <= MaxSeq + 1 /\ events[c] \subseteq Event
  BY LimitsAssumption DEF IInv, TypeOK, Row, SeqsBounded
<1>1. PICK e \in events[c] : e.seq = n
  BY DEF ReplayAfter, Seqs
<1>2. n \in Nat /\ n > cursor /\ n <= row[c].latest
  BY <1>0, <1>1 DEF Event, IInv, WellFormedLog, ReplayAfter
<1>3. ASSUME NEW m \in cursor + 1 .. n PROVE m \in ReplayAfter(c, cursor)
  <2>1. m \in row[c].floor + 1 .. row[c].latest /\ m > cursor
    BY <1>0, <1>2
  <2> QED
    BY <2>1 DEF IInv, NoHoles, ReplayAfter
<1> QED
  BY <1>0, <1>2, <1>3

\* The event delivered is the one after the cursor.
LEMMA NextIsNext ==
    ASSUME NEW s \in Sub, sub[s] \in SubState, InOrder(s), sub[s].batch # {}
    PROVE  NextOf(s) = sub[s].cursor + 1 /\ NextOf(s) \in sub[s].batch
<1>0. sub[s].batch \subseteq Nat /\ sub[s].cursor \in Nat
  BY DEF SubState
<1>1. PICK m \in sub[s].batch : \A n \in sub[s].batch : m <= n
  BY <1>0, MinExists
<1>2. NextOf(s) \in sub[s].batch /\ \A n \in sub[s].batch : NextOf(s) <= n
  BY <1>1 DEF NextOf
<1> HIDE DEF NextOf
<1>3. NextOf(s) > sub[s].cursor /\ sub[s].cursor + 1 .. NextOf(s) \subseteq sub[s].batch
  BY <1>2 DEF InOrder
<1>4. sub[s].cursor + 1 \in sub[s].batch
  BY <1>0, <1>2, <1>3
<1>5. NextOf(s) <= sub[s].cursor + 1
  BY <1>2, <1>4
<1> QED
  BY <1>0, <1>2, <1>3, <1>5

LEMMA OwnStepsKeepSub ==
    ASSUME TailInv, NEW s \in Sub, SubStep(s) \/ DeliverFails(s) \/ Cancel(s)
    PROVE  SubInv(s)'
<1>0. /\ TailTypeOK /\ SubInv(s) /\ sub \in [Sub -> SubState]
      /\ sub[s] \in SubState /\ IInv /\ SeqsBounded
  BY DEF TailInv, TailTypeOK
<1>1. Attached(s)
  BY DEF SubStep, CheckCursor, ReadVersion, Replay, Deliver, AckDelivered,
     AckRefused, BatchDone, Park, SendExpired, DeliverFails, Cancel, Attached
<1>2. UNCHANGED <<row, events, thread, gen, logs, queued>>
  BY DEF SubStep, CheckCursor, ReadVersion, Replay, Deliver, AckDelivered,
     Acknowledge, AckRefused, BatchDone, Park, SendExpired, DeliverFails, Cancel,
     vars, durable
<1>3. /\ sub[s].chat \in Chat
      /\ \A n \in sub[s].batch : n > sub[s].cursor /\ n <= MaxSeq + 1
      /\ \A n \in sub[s].batch : sub[s].cursor + 1 .. n \subseteq sub[s].batch
      /\ sub[s].cursor <= MaxSeq + 1
      /\ Sound(s) => \A n \in sub[s].batch : n <= row[sub[s].chat].latest
      /\ MaxSeq \in Nat
  BY <1>0, <1>1, LimitsAssumption DEF SubInv, Placed, InOrder, Appended
\* The steps that only move the task on.
<1>4. ASSUME NEW pc \in {"check", "fetch", "replay", "deliver", "ack", "park",
                         "waiting", "expired", "ended"},
             sub' = Goto(s, pc), pc # "ack",
             pc \in {"park", "waiting"} => sub[s].batch = {},
             pc \in HasReplayed => sub[s].pc \in HasReplayed,
             pc = "waiting" => ~sub[s].moved
      PROVE  SubInv(s)'
  <2> DEFINE r == [sub[s] EXCEPT !.pc = pc]
  <2>1. sub'[s] = r /\ r \in SubState
    BY <1>0, <1>4, MarkedType DEF Goto
  <2>2. /\ r.pc = pc /\ r.chat = sub[s].chat /\ r.client = sub[s].client
        /\ r.gen = sub[s].gen /\ r.astray = sub[s].astray
        /\ r.batch = sub[s].batch /\ r.cursor = sub[s].cursor
        /\ r.moved = sub[s].moved
    BY <1>0 DEF SubState
  <2> HIDE DEF r
  <2>3. pc \in HasReplayed /\ Registered(s) =>
               \/ r.moved
               \/ Bumping(sub[s].chat)
               \/ /\ r.cursor >= row[sub[s].chat].floor
                  /\ ReplayAfter(sub[s].chat, r.cursor) \subseteq r.batch
    BY <1>0, <1>4, <2>2 DEF SubInv, UpToDate
  <2> QED
    BY <1>0, <1>1, <1>2, <1>3, <1>4, <2>1, <2>2, <2>3, OwnSubStep
<1>5. CASE CheckCursor(s)
  BY <1>4, <1>5 DEF CheckCursor, HasReplayed
<1>6. CASE ReadVersion(s)
  <2> DEFINE r == [sub[s] EXCEPT !.pc = "replay", !.moved = FALSE]
  <2>1. r \in SubState
    BY <1>0 DEF SubState
  <2>2. sub'[s] = r
    BY <1>0, <1>6 DEF ReadVersion
  <2>3. /\ r.pc = "replay" /\ r.chat = sub[s].chat /\ r.client = sub[s].client
        /\ r.gen = sub[s].gen /\ r.astray = sub[s].astray
        /\ r.batch = sub[s].batch /\ r.cursor = sub[s].cursor
    BY <1>0 DEF SubState
  <2> HIDE DEF r
  <2> QED
    BY <1>0, <1>1, <1>2, <1>3, <2>1, <2>2, <2>3, OwnSubStep DEF HasReplayed
<1>7. CASE Replay(s) /\ sub[s].cursor < row[sub[s].chat].floor
  BY <1>4, <1>7 DEF Replay, HasReplayed
<1>8. CASE Replay(s) /\ ~(sub[s].cursor < row[sub[s].chat].floor)
  <2>0. PICK b : b = ReplayAfter(sub[s].chat, sub[s].cursor)
    OBVIOUS
  <2> DEFINE r == [sub[s] EXCEPT !.pc = "deliver", !.batch = b]
  <2>1. sub'[s] = r
    BY <1>0, <1>8, <2>0 DEF Replay
  <2>2. sub[s].cursor \in Nat /\ row[sub[s].chat].floor \in Nat
    BY <1>0, <1>3 DEF SubState, IInv, TypeOK, Row
  <2>3. sub[s].cursor >= row[sub[s].chat].floor
    BY <1>8, <2>2
  <2>4. \A n \in b :
           /\ n \in Nat /\ n > sub[s].cursor /\ n <= row[sub[s].chat].latest
           /\ n <= MaxSeq + 1 /\ sub[s].cursor + 1 .. n \subseteq b
    BY <1>0, <1>3, <2>0, <2>2, <2>3, ReplayIsRun
  <2>5. r \in SubState
    <3>1. b \in SUBSET (Nat \ {0})
      BY <2>2, <2>4
    <3> QED
      BY <1>0, <3>1 DEF SubState
  <2>6. /\ r.pc = "deliver" /\ r.chat = sub[s].chat /\ r.client = sub[s].client
        /\ r.gen = sub[s].gen /\ r.astray = sub[s].astray
        /\ r.batch = b /\ r.cursor = sub[s].cursor
    BY <1>0 DEF SubState
  <2> HIDE DEF r
  <2>7. ReplayAfter(sub[s].chat, r.cursor) \subseteq r.batch
    BY <2>0, <2>6
  <2> QED
    BY <1>0, <1>1, <1>2, <1>3, <2>1, <2>3, <2>4, <2>5, <2>6, <2>7, OwnSubStep
<1>9. CASE Deliver(s)
  <2>0. PICK n \in Nat : n = sub[s].cursor + 1 /\ n = NextOf(s) /\ n \in sub[s].batch
    BY <1>0, <1>9, NextIsNext DEF Deliver, SubInv, SubState
  <2> DEFINE r == [sub[s] EXCEPT !.pc = "ack", !.cursor = n, !.batch = @ \ {n}]
  <2>1. sub'[s] = r
    BY <1>0, <1>9, <2>0 DEF Deliver
  <2>2. r \in SubState /\ sub[s].cursor \in Nat /\ sub[s].batch \subseteq Nat
    BY <1>0 DEF SubState
  <2>3. /\ r.pc = "ack" /\ r.chat = sub[s].chat /\ r.client = sub[s].client
        /\ r.gen = sub[s].gen /\ r.astray = sub[s].astray
        /\ r.batch = sub[s].batch \ {n} /\ r.cursor = n
        /\ r.moved = sub[s].moved
    BY <1>0 DEF SubState
  <2> HIDE DEF r
  <2>4. /\ \A m \in r.batch : m > r.cursor /\ m <= MaxSeq + 1
        /\ \A m \in r.batch : r.cursor + 1 .. m \subseteq r.batch
        /\ r.cursor <= MaxSeq + 1 /\ r.cursor > 0
    <3>1. ASSUME NEW m \in r.batch
          PROVE  m > r.cursor /\ m <= MaxSeq + 1
      BY <1>3, <2>0, <2>2, <2>3
    <3>2. ASSUME NEW m \in r.batch, NEW k \in r.cursor + 1 .. m
          PROVE  k \in r.batch
      <4>1. m \in Nat /\ m \in sub[s].batch /\ k \in sub[s].cursor + 1 .. m /\ k # n
        BY <2>0, <2>2, <2>3
      <4> QED
        BY <1>3, <2>3, <4>1
    <3>3. r.cursor <= MaxSeq + 1 /\ r.cursor > 0
      BY <1>3, <2>0, <2>2, <2>3
    <3> QED
      BY <3>1, <3>2, <3>3
  <2>5. Registered(s) =>
               \/ r.moved
               \/ Bumping(sub[s].chat)
               \/ /\ r.cursor >= row[sub[s].chat].floor
                  /\ ReplayAfter(sub[s].chat, r.cursor) \subseteq r.batch
    <3> SUFFICES ASSUME Registered(s), ~r.moved, ~Bumping(sub[s].chat)
                 PROVE  /\ r.cursor >= row[sub[s].chat].floor
                        /\ ReplayAfter(sub[s].chat, r.cursor) \subseteq r.batch
      OBVIOUS
    <3>1. /\ sub[s].cursor >= row[sub[s].chat].floor
          /\ ReplayAfter(sub[s].chat, sub[s].cursor) \subseteq sub[s].batch
      BY <1>0, <1>9, <2>3 DEF SubInv, UpToDate, Deliver, HasReplayed
    <3>2. row[sub[s].chat].floor \in Nat
      BY <1>0, <1>3 DEF IInv, TypeOK, Row
    <3>3. ASSUME NEW m \in ReplayAfter(sub[s].chat, r.cursor) PROVE m \in r.batch
      <4>1. m \in Seqs(events[sub[s].chat]) /\ m > n
        BY <2>3 DEF ReplayAfter
      <4>2. m \in Nat
        BY <1>0, <1>3, <4>1 DEF IInv, TypeOK, Seqs, Event
      <4>3. m \in ReplayAfter(sub[s].chat, sub[s].cursor) /\ m # n
        BY <2>0, <2>2, <4>1, <4>2 DEF ReplayAfter
      <4> QED
        BY <2>3, <3>1, <4>3
    <3> QED
      BY <2>0, <2>2, <2>3, <3>1, <3>2, <3>3
  <2> QED
    BY <1>0, <1>1, <1>2, <1>3, <2>1, <2>2, <2>3, <2>4, <2>5, OwnSubStep
<1>10. CASE AckDelivered(s)
  BY <1>4, <1>10 DEF AckDelivered, HasReplayed
<1>11. CASE BatchDone(s)
  BY <1>4, <1>11 DEF BatchDone, HasReplayed
<1>12. CASE Park(s)
  <2>1. sub[s].batch = {}
    BY <1>0, <1>12 DEF SubInv, InOrder, Park
  <2> QED
    BY <1>4, <1>12, <2>1 DEF Park, HasReplayed
<1>13. CASE AckRefused(s) \/ SendExpired(s) \/ DeliverFails(s) \/ Cancel(s)
  BY <1>4, <1>13 DEF AckRefused, SendExpired, DeliverFails, Cancel, HasReplayed
<1> QED
  BY <1>5, <1>6, <1>7, <1>8, <1>9, <1>10, <1>11, <1>12, <1>13 DEF SubStep

LEMMA OffInv ==
    ASSUME NEW s \in Sub, sub'[s] = Off
    PROVE  SubInv(s)'
<1>1. sub'[s].pc = "off" /\ sub'[s].batch = {} /\ sub'[s].cursor = 0 /\ MaxSeq \in Nat
  BY LimitsAssumption DEF Off
<1> QED
  BY <1>1 DEF SubInv, Placed, Attached, InOrder, UpToDate, Woken, Appended,
     HasReplayed

LEMMA SubscribeInv ==
    ASSUME TailInv, NEW s \in Sub, NEW c \in Chat, NEW k \in Client,
           NEW n \in 0..(MaxSeq + 1), Subscribe(s, c, k, n)
    PROVE  /\ sub'[s].chat = c /\ sub'[s].gen = gen'[c] /\ Attached(s)'
           /\ SubInv(s)'
<1>1. /\ GetOrCreate(c) /\ sub \in [Sub -> SubState]
      /\ sub' = [sub EXCEPT ![s] = [Off EXCEPT !.pc = "check", !.chat = c,
                                      !.client = k, !.gen = GenOf(c), !.cursor = n]]
  BY DEF Subscribe, TailInv, TailTypeOK
<1>2. GenOf(c) \in 1..MaxLogs /\ gen'[c] = GenOf(c)
  BY <1>1, CreateKeepsBound DEF TailInv
<1> HIDE DEF GenOf
<1>3. /\ sub'[s].pc = "check" /\ sub'[s].chat = c /\ sub'[s].client = k
      /\ sub'[s].gen = GenOf(c) /\ sub'[s].cursor = n /\ sub'[s].batch = {}
  BY <1>1 DEF Off
<1>4. n <= MaxSeq + 1 /\ MaxLogs \in Nat
  BY LimitsAssumption, MaxLogsAssumption
<1>5. Attached(s)' /\ Placed(s)'
  <2>1. GenOf(c) \in 1..gen'[c]
    BY <1>2, <1>4
  <2> QED
    BY <1>2, <1>3, <2>1 DEF Placed, Attached
<1>6. InOrder(s)' /\ UpToDate(s)' /\ Woken(s)' /\ Appended(s)'
  BY <1>3, <1>4 DEF InOrder, UpToDate, HasReplayed, Woken, Appended
<1> QED
  BY <1>2, <1>3, <1>5, <1>6 DEF SubInv

LEMMA NextSubInv ==
    ASSUME TailInv, TailTypeOK', TailNext, NEW s \in Sub
    PROVE  SubInv(s)'
<1>0. TypeOK /\ sub \in [Sub -> SubState]
  BY DEF TailInv, TailTypeOK
<1>1. ASSUME NEW r \in Sub, SubStep(r) \/ DeliverFails(r) \/ Cancel(r)
      PROVE  SubInv(s)'
  <2>1. CASE r = s
    BY <1>1, <2>1, OwnStepsKeepSub
  <2>2. CASE r # s
    <3>1. /\ UNCHANGED <<row, events, thread, gen, logs, queued>>
          /\ sub'[s] = sub[s]
      BY <1>0, <1>1, <2>2 DEF SubStep, CheckCursor, ReadVersion, Replay, Deliver,
         AckDelivered, Acknowledge, AckRefused, BatchDone, Park, SendExpired,
         DeliverFails, Cancel, Goto, vars, durable
    <3> QED
      BY <3>1, OthersKeepSubs DEF Bumping
  <2> QED
    BY <2>1, <2>2
<1>2. ASSUME NEW r \in Sub, EndTail(r) PROVE SubInv(s)'
  <2>1. /\ sub' = [sub EXCEPT ![r] = Off]
        /\ UNCHANGED <<row, events, thread, gen, logs, queued>>
    BY <1>2 DEF EndTail, Detach, vars, durable
  <2>2. CASE r = s
    BY <1>0, <2>1, <2>2, OffInv
  <2>3. CASE r # s
    BY <1>0, <2>1, <2>3, OthersKeepSubs DEF Bumping
  <2> QED
    BY <2>2, <2>3
<1>3. ASSUME NEW r \in Sub, NEW c \in Chat, NEW k \in Client,
             NEW n \in 0..(MaxSeq + 1), Subscribe(r, c, k, n)
      PROVE  SubInv(s)'
  <2>1. CASE r = s
    BY <1>3, <2>1, SubscribeInv
  <2>2. CASE r # s
    <3>1. /\ sub'[s] = sub[s] /\ GetOrCreate(c)
          /\ UNCHANGED <<row, events, thread, queued>>
      BY <1>0, <1>3, <2>2 DEF Subscribe, Attach, durable
    <3> QED
      BY <3>1, OthersKeepSubs DEF Bumping
  <2> QED
    BY <2>1, <2>2
<1>4. ASSUME NEW t \in Thread, NEW c \in Chat, PushFails(t, c)
      PROVE  SubInv(s)'
  <2>1. /\ UNCHANGED <<row, events, queued, sub>> /\ GetOrCreate(c)
        /\ Call(t, c)
    BY <1>4 DEF PushFails, BeginDrop, Call, durable
  <2>2. \A d \in Chat : Bumping(d) => Bumping(d)'
    BY <1>0, <2>1, BumpersStay
  <2> QED
    BY <2>1, <2>2, OthersKeepSubs
<1>5. CASE RestartProcess
  BY <1>5, OffInv DEF RestartProcess
<1> QED
  BY <1>1, <1>2, <1>3, <1>4, <1>5, StoreStepsKeepSubs, BumpsKeepSubs,
     ProgressKeepsSubs DEF TailNext

-----------------------------------------------------------------------------
(* The count of tailers                                                     *)

Counted(c) == {s \in Sub : sub[s].chat = c /\ Registered(s)}

\* The steps that start or end no subscription.
LEMMA PlacesKept ==
    ASSUME TailInv, NEW s \in Sub,
           \/ QuietStep
           \/ \E t \in Thread : SweepEnds(t) \/ BumpOne(t) \/ BumpAll(t) \/ DropLog(t)
           \/ \E t \in Thread, c \in Chat : PushFails(t, c)
           \/ \E l \in Chat \X (1..MaxLogs) : SetProgressed(l)
           \/ \E r \in Sub : SubStep(r) \/ DeliverFails(r) \/ Cancel(r)
    PROVE  /\ sub'[s].chat = sub[s].chat /\ sub'[s].gen = sub[s].gen
           /\ Attached(s)' = Attached(s)
<1>0. TypeOK /\ TailTypeOK /\ GensBounded /\ SubInv(s)
      /\ sub \in [Sub -> SubState] /\ sub[s] \in SubState
  BY DEF TailInv, TailTypeOK
<1> DEFINE Goal == /\ sub'[s].chat = sub[s].chat /\ sub'[s].gen = sub[s].gen
                   /\ Attached(s)' = Attached(s)
<1>1. ASSUME Stray, queued' = queued PROVE Goal
  BY <1>0, <1>1, StrayKeeps, KeptFields
<1>2. ASSUME NEW L \in SUBSET (Chat \X (1..MaxLogs)), BumpLogs(L) PROVE Goal
  BY <1>0, <1>2, BumpLogsKeeps, KeptFields
<1>3. CASE QuietStep \/ \E t \in Thread : SweepEnds(t) \/ DropLog(t)
  BY <1>1, <1>3 DEF QuietStep, SweepEnds, DropLog
<1>4. ASSUME NEW t \in Thread, BumpOne(t) PROVE Goal
  <2>1. PICK c \in Chat, g \in 1..MaxLogs : c = thread[t].chat /\ g = GenOf(c)
    BY <1>0, <1>4 DEF BumpOne, TypeOK, GensBounded
  <2>2. {<<c, g>>} \in SUBSET (Chat \X (1..MaxLogs)) /\ BumpLogs({<<c, g>>})
    BY <1>4, <2>1 DEF BumpOne
  <2> QED
    BY <1>2, <2>2
<1>5. ASSUME NEW t \in Thread, BumpAll(t) PROVE Goal
  <2> DEFINE L == {<<c, gen[c]>> : c \in logs}
  <2>1. L \in SUBSET (Chat \X (1..MaxLogs)) /\ BumpLogs(L)
    BY <1>0, <1>5 DEF GensBounded, GenOf, TailTypeOK, BumpAll
  <2> HIDE DEF L
  <2> QED
    BY <1>2, <2>1
<1>6. ASSUME NEW t \in Thread, NEW c \in Chat, PushFails(t, c) PROVE Goal
  BY <1>6 DEF PushFails, Attached
<1>7. ASSUME NEW l, SetProgressed(l) PROVE Goal
  <2>1. \/ sub'[s] = sub[s]
        \/ sub[s].pc = "waiting" /\ sub'[s] = [sub[s] EXCEPT !.pc = "fetch"]
    BY <1>7 DEF SetProgressed
  <2> QED
    BY <1>0, <2>1 DEF SubState, Attached
<1>8. ASSUME NEW r \in Sub, SubStep(r) \/ DeliverFails(r) \/ Cancel(r) PROVE Goal
  <2>1. ASSUME NEW pc, pc # "off", sub' = Goto(r, pc), sub[r].pc # "off" PROVE Goal
    BY <1>0, <2>1 DEF Goto, SubState, Attached
  <2>2. CASE r # s
    <3>1. sub'[s] = sub[s]
      BY <1>0, <1>8, <2>2 DEF SubStep, CheckCursor, ReadVersion, Replay, Deliver,
         AckDelivered, AckRefused, BatchDone, Park, SendExpired, DeliverFails,
         Cancel, Goto
    <3> QED
      BY <3>1 DEF Attached
  <2>3. CASE r = s /\ ReadVersion(s)
    <3>1. sub'[s] = [sub[s] EXCEPT !.pc = "replay", !.moved = FALSE]
      BY <1>0, <2>3 DEF ReadVersion
    <3> QED
      BY <1>0, <2>3, <3>1 DEF ReadVersion, SubState, Attached
  <2>4. CASE r = s /\ Replay(s) /\ ~(sub[s].cursor < row[sub[s].chat].floor)
    <3>1. PICK b : sub'[s] = [sub[s] EXCEPT !.pc = "deliver", !.batch = b]
      BY <1>0, <2>4 DEF Replay
    <3> QED
      BY <1>0, <2>4, <3>1 DEF Replay, SubState, Attached
  <2>5. CASE r = s /\ Deliver(s)
    <3>1. PICK n : sub'[s] = [sub[s] EXCEPT !.pc = "ack", !.cursor = n,
                                            !.batch = @ \ {n}]
      BY <1>0, <2>5 DEF Deliver
    <3> QED
      BY <1>0, <2>5, <3>1 DEF Deliver, SubState, Attached
  <2> QED
    BY <1>8, <2>1, <2>2, <2>3, <2>4, <2>5 DEF SubStep, CheckCursor, Replay, AckDelivered,
       AckRefused, BatchDone, Park, SendExpired, DeliverFails, Cancel
<1> QED
  BY <1>3, <1>4, <1>5, <1>6, <1>7, <1>8

LEMMA CountedFinite ==
    ASSUME TailInv, NEW c \in Chat
    PROVE  IsFiniteSet(Counted(c))
<1>1. \A s \in Counted(c) : Attached(s)
  <2> SUFFICES ASSUME NEW s \in Sub, sub[s].chat = c, ~Attached(s) PROVE FALSE
    BY DEF Counted
  <2>1. sub[s].chat = NoChat
    BY DEF TailInv, SubInv, Placed, Off
  <2> QED
    BY <2>1, NoChatAssumption
<1>2. Counted(c) \in SUBSET {s \in Sub : Attached(s)}
  BY <1>1 DEF Counted
<1> QED
  BY <1>2, FS_Subset DEF TailInv, AttachedFinite

\* A step that registers and unregisters nobody at a chat keeps its count.
LEMMA CountKept ==
    ASSUME TailInv, NEW c \in Chat, tailers'[c] = tailers[c],
           \A s \in Sub : (sub'[s].chat = c /\ Registered(s)')
                             <=> (sub[s].chat = c /\ Registered(s))
    PROVE  tailers'[c] = Cardinality(Counted(c)')
<1>1. Counted(c)' = Counted(c)
  BY DEF Counted
<1>2. tailers[c] = Cardinality(Counted(c))
  BY DEF TailInv, TailersExact, Counted
<1> QED
  BY <1>1, <1>2

LEMMA NextTailersExact ==
    ASSUME TailInv, TailNext
    PROVE  TailersExact'
<1> SUFFICES ASSUME NEW c \in Chat PROVE tailers'[c] = Cardinality(Counted(c)')
  BY DEF TailersExact, Counted
<1>0. /\ TypeOK /\ TailTypeOK /\ GensBounded /\ \A s \in Sub : SubInv(s)
      /\ tailers \in [Chat -> Nat] /\ sub \in [Sub -> SubState]
  BY DEF TailInv, IInv, TypeOK, TailTypeOK
<1>1. IsFiniteSet(Counted(c)) /\ tailers[c] = Cardinality(Counted(c))
  BY CountedFinite DEF TailInv, TailersExact, Counted
\* A task that is off is at no chat.
<1>2. ASSUME NEW s \in Sub, sub[s].chat = c PROVE Attached(s) /\ Placed(s)
  <2>1. Placed(s)
    BY <1>0 DEF SubInv
  <2> QED
    BY <1>2, <2>1, NoChatAssumption DEF Placed, Off
<1>3. ASSUME UNCHANGED <<gen, logs, tailers>>,
             \A s \in Sub : sub'[s].chat = sub[s].chat /\ sub'[s].gen = sub[s].gen
      PROVE  tailers'[c] = Cardinality(Counted(c)')
  BY <1>3, CountKept DEF Registered
<1>4. ASSUME NEW d \in Chat, GetOrCreate(d), tailers' = tailers,
             \A s \in Sub : sub'[s].chat = sub[s].chat /\ sub'[s].gen = sub[s].gen
      PROVE  tailers'[c] = Cardinality(Counted(c)')
  <2>1. \A s \in Sub : sub[s].chat = c => (Registered(s)' <=> Registered(s))
    BY <1>0, <1>2, <1>4, CreateRegistersNobody
  <2> QED
    BY <1>4, <2>1, CountKept
<1>5. CASE QuietStep
  <2>1. UNCHANGED <<gen, logs, tailers>>
    BY <1>5 DEF QuietStep, Tick, ConsumeSweepRequested, MarkDeleted, Append,
       AppendFails, BeginSweep, ScanTailers, CheckEmpty, BeginAppend, BeginDelete,
       DedupRecord, DedupForget
  <2> QED
    BY <1>3, <1>5, <2>1, PlacesKept
<1>6. ASSUME NEW t \in Thread, SweepEnds(t) \/ BumpAll(t)
      PROVE  tailers'[c] = Cardinality(Counted(c)')
  <2>1. UNCHANGED <<gen, logs, tailers>>
    BY <1>6 DEF SweepEnds, Sweep, SweepFails, BumpAll, Bump
  <2> QED
    BY <1>3, <1>6, <2>1, PlacesKept
<1>7. ASSUME NEW t \in Thread, BumpOne(t)
      PROVE  tailers'[c] = Cardinality(Counted(c)')
  <2>1. GetOrCreate(thread[t].chat) /\ tailers' = tailers /\ thread[t].chat \in Chat
    BY <1>0, <1>7 DEF BumpOne, Bump, TypeOK
  <2> QED
    BY <1>4, <1>7, <2>1, PlacesKept
<1>8. ASSUME NEW t \in Thread, NEW d \in Chat, PushFails(t, d)
      PROVE  tailers'[c] = Cardinality(Counted(c)')
  <2>1. GetOrCreate(d) /\ tailers' = tailers
    BY <1>8 DEF PushFails, BeginDrop
  <2> QED
    BY <1>4, <1>8, <2>1, PlacesKept
<1>9. ASSUME NEW t \in Thread, DropLog(t)
      PROVE  tailers'[c] = Cardinality(Counted(c)')
  <2>1. /\ gen' = gen /\ logs' = logs \ {thread[t].chat}
        /\ tailers' = [tailers EXCEPT ![thread[t].chat] = 0]
        /\ \A s \in Sub : sub'[s].chat = sub[s].chat /\ sub'[s].gen = sub[s].gen
    BY <1>9, PlacesKept DEF DropLog, Drop
  <2>2. CASE thread[t].chat = c
    <3>1. Counted(c)' = {}
      BY <2>1, <2>2 DEF Counted, Registered
    <3> QED
      BY <1>0, <2>1, <2>2, <3>1, FS_EmptySet
  <2>3. CASE thread[t].chat # c
    BY <1>0, <2>1, <2>3, CountKept DEF Registered
  <2> QED
    BY <2>2, <2>3
<1>10. ASSUME NEW l \in Chat \X (1..MaxLogs), SetProgressed(l)
       PROVE  tailers'[c] = Cardinality(Counted(c)')
  <2>1. UNCHANGED <<gen, logs, tailers>>
    BY <1>10 DEF SetProgressed, vars
  <2> QED
    BY <1>3, <1>10, <2>1, PlacesKept
<1>11. ASSUME NEW s \in Sub, SubStep(s) \/ DeliverFails(s) \/ Cancel(s)
       PROVE  tailers'[c] = Cardinality(Counted(c)')
  <2>1. UNCHANGED <<gen, logs, tailers>>
    BY <1>11 DEF SubStep, CheckCursor, ReadVersion, Replay, Deliver, AckDelivered,
       Acknowledge, AckRefused, BatchDone, Park, SendExpired, DeliverFails, Cancel, vars
  <2> QED
    BY <1>3, <1>11, <2>1, PlacesKept
<1>12. ASSUME NEW s \in Sub, EndTail(s)
       PROVE  tailers'[c] = Cardinality(Counted(c)')
  <2>1. /\ UNCHANGED <<gen, logs>> /\ sub'[s] = Off
        /\ \A r \in Sub \ {s} : sub'[r] = sub[r]
        /\ IF Registered(s) THEN Detach(sub[s].chat) ELSE UNCHANGED vars
    BY <1>0, <1>12 DEF EndTail, Registered
  <2>2. sub'[s].chat # c
    BY <2>1, NoChatAssumption DEF Off
  <2>3. \A r \in Sub \ {s} : (r \in Counted(c)' <=> r \in Counted(c))
    BY <2>1 DEF Counted, Registered
  <2>4. CASE sub[s].chat = c /\ Registered(s)
    <3>1. Counted(c)' = Counted(c) \ {s} /\ s \in Counted(c)
      BY <2>2, <2>3, <2>4 DEF Counted
    <3>2. tailers'[c] = tailers[c] - 1
      BY <1>0, <2>1, <2>4 DEF Detach
    <3> QED
      BY <1>1, <3>1, <3>2, FS_RemoveElement
  <2>5. CASE ~(sub[s].chat = c /\ Registered(s))
    <3>1. Counted(c)' = Counted(c)
      BY <2>2, <2>3, <2>5 DEF Counted
    <3>2. tailers'[c] = tailers[c]
      BY <1>0, <2>1, <2>5 DEF Detach, vars
    <3> QED
      BY <1>1, <3>1, <3>2
  <2> QED
    BY <2>4, <2>5
<1>13. ASSUME NEW s \in Sub, NEW d \in Chat, NEW k \in Client,
              NEW n \in 0..(MaxSeq + 1), Subscribe(s, d, k, n)
       PROVE  tailers'[c] = Cardinality(Counted(c)')
  <2>1. /\ GetOrCreate(d) /\ sub[s].pc = "off"
        /\ \A r \in Sub \ {s} : sub'[r] = sub[r]
        /\ tailers' = [tailers EXCEPT ![d] = @ + 1]
    BY <1>0, <1>13 DEF Subscribe, Attach
  <2>2. sub'[s].chat = d /\ sub'[s].gen = gen'[d] /\ d \in logs'
    BY <1>13, <2>1, SubscribeInv DEF GetOrCreate
  <2>3. s \notin Counted(c)
    BY <1>2, <2>1 DEF Counted, Attached
  <2>4. ASSUME NEW r \in Sub \ {s}
        PROVE  r \in Counted(c)' <=> r \in Counted(c)
    <3>1. sub[r].chat = c => (Registered(r)' <=> Registered(r))
      BY <1>0, <1>2, <2>1, CreateRegistersNobody
    <3> QED
      BY <2>1, <3>1 DEF Counted
  <2>5. CASE d = c
    <3>1. Counted(c)' = Counted(c) \cup {s}
      BY <2>2, <2>3, <2>4, <2>5 DEF Counted, Registered
    <3>2. tailers'[c] = tailers[c] + 1
      BY <1>0, <2>1, <2>5
    <3> QED
      BY <1>1, <2>3, <3>1, <3>2, FS_AddElement
  <2>6. CASE d # c
    <3>1. Counted(c)' = Counted(c)
      BY <2>2, <2>3, <2>4, <2>6 DEF Counted
    <3>2. tailers'[c] = tailers[c]
      BY <1>0, <2>1, <2>6
    <3> QED
      BY <1>1, <3>1, <3>2
  <2> QED
    BY <2>5, <2>6
<1>14. CASE RestartProcess
  <2>1. logs' = {} /\ tailers' = [d \in Chat |-> 0]
    BY <1>14 DEF RestartProcess, Restart, RestartAfterCorruption, Volatile
  <2>2. Counted(c)' = {}
    BY <2>1 DEF Counted, Registered
  <2> QED
    BY <2>1, <2>2, FS_EmptySet
<1> QED
  BY <1>5, <1>6, <1>7, <1>8, <1>9, <1>10, <1>11, <1>12, <1>13, <1>14 DEF TailNext

LEMMA NextAttachedFinite ==
    ASSUME TailInv, TailNext
    PROVE  AttachedFinite'
<1> DEFINE A == {s \in Sub : Attached(s)}
<1>0. IsFiniteSet(A) /\ sub \in [Sub -> SubState]
  BY DEF TailInv, AttachedFinite, TailTypeOK
<1>1. ASSUME NEW r \in Sub, \A s \in Sub \ {r} : Attached(s)' => Attached(s)
      PROVE  AttachedFinite'
  <2>1. A' \in SUBSET (A \cup {r})
    BY <1>1
  <2>2. IsFiniteSet(A \cup {r})
    BY <1>0, FS_AddElement
  <2> QED
    BY <2>1, <2>2, FS_Subset DEF AttachedFinite
<1>2. ASSUME \A s \in Sub : Attached(s)' => Attached(s)
      PROVE  AttachedFinite'
  <2>1. A' \in SUBSET A
    BY <1>2
  <2> QED
    BY <1>0, <2>1, FS_Subset DEF AttachedFinite
<1>3. ASSUME NEW s \in Sub, NEW c \in Chat, NEW k \in Client,
             NEW n \in 0..(MaxSeq + 1), Subscribe(s, c, k, n)
      PROVE  AttachedFinite'
  BY <1>0, <1>1, <1>3 DEF Subscribe, Attached
<1>4. ASSUME NEW s \in Sub, EndTail(s) PROVE AttachedFinite'
  BY <1>0, <1>1, <1>4 DEF EndTail, Attached
<1>5. CASE RestartProcess
  BY <1>2, <1>5 DEF RestartProcess, Attached, Off
<1>6. ASSUME \/ QuietStep
             \/ \E t \in Thread : SweepEnds(t) \/ BumpOne(t) \/ BumpAll(t) \/ DropLog(t)
             \/ \E t \in Thread, c \in Chat : PushFails(t, c)
             \/ \E l \in Chat \X (1..MaxLogs) : SetProgressed(l)
             \/ \E r \in Sub : SubStep(r) \/ DeliverFails(r) \/ Cancel(r)
      PROVE  AttachedFinite'
  BY <1>2, <1>6, PlacesKept
<1> QED
  BY <1>3, <1>4, <1>5, <1>6 DEF TailNext

LEMMA TailInitInv ==
    ASSUME TailInit
    PROVE  TailInv
<1>0. Init /\ gen = [c \in Chat |-> 0] /\ logs = {} /\ queued = {}
      /\ sub = [s \in Sub |-> Off] /\ MaxLogs \in Nat \ {0} /\ MaxSeq \in Nat
  BY MaxLogsAssumption, LimitsAssumption DEF TailInit
<1>1. IInv
  BY <1>0, InitIInv
<1>2. TailTypeOK
  BY <1>0, <1>1, OffType DEF TailTypeOK, IInv
<1>3. GensBounded
  BY <1>0 DEF GensBounded, GenOf
<1>4. SeqsBounded
  BY <1>0 DEF Init, SeqsBounded, NoRow
<1>5. AttachedFinite
  <2>1. {s \in Sub : Attached(s)} = {}
    BY <1>0 DEF Attached, Off
  <2> QED
    BY <2>1, FS_EmptySet DEF AttachedFinite
<1>6. TailersExact
  <2> SUFFICES ASSUME NEW c \in Chat
               PROVE  tailers[c] = Cardinality({s \in Sub : sub[s].chat = c /\ Registered(s)})
    BY DEF TailersExact
  <2>1. {s \in Sub : sub[s].chat = c /\ Registered(s)} = {}
    BY <1>0 DEF Registered
  <2> QED
    BY <1>0, <2>1, FS_EmptySet DEF Init
<1>7. ASSUME NEW s \in Sub PROVE SubInv(s)
  <2>1. sub[s] = Off /\ sub[s].pc = "off" /\ sub[s].batch = {} /\ sub[s].cursor = 0
    BY <1>0 DEF Off
  <2> QED
    BY <1>0, <2>1 DEF SubInv, Placed, Attached, InOrder, UpToDate, Woken, Appended,
       HasReplayed
<1> QED
  BY <1>1, <1>2, <1>3, <1>4, <1>5, <1>6, <1>7 DEF TailInv

LEMMA NextTailInv == TailInv /\ [TailNext]_allVars => TailInv'
<1> SUFFICES ASSUME TailInv, [TailNext]_allVars PROVE TailInv'
  OBVIOUS
<1>1. CASE TailNext
  <2>1. IInv' /\ SeqsBounded'
    <3>1. Next \/ UNCHANGED vars
      BY <1>1, TailStepsStore
    <3>2. CASE UNCHANGED vars
      BY <3>2, NextIInv DEF TailInv, SeqsBounded, Deleted, vars, durable
    <3> QED
      BY <3>1, <3>2, NextIInv, NextSeqsBounded DEF TailInv
  <2>2. TailTypeOK' /\ GensBounded'
    BY <1>1, NextTailTypeOK
  <2>3. \A s \in Sub : SubInv(s)'
    BY <1>1, <2>2, NextSubInv
  <2> QED
    BY <1>1, <2>1, <2>2, <2>3, NextTailersExact, NextAttachedFinite DEF TailInv
<1>2. CASE UNCHANGED allVars
  <2>1. UNCHANGED vars /\ UNCHANGED <<gen, logs, queued, sub>>
    BY <1>2 DEF allVars, tailVars
  <2>2. IInv'
    BY <2>1, NextIInv DEF TailInv
  <2>3. UNCHANGED <<row, events, thread, tailers>>
    BY <2>1 DEF vars, durable
  <2>4. \A s \in Sub : SubInv(s)'
    BY <2>1, <2>3, OthersKeepSubs DEF Bumping
  <2>5. TailTypeOK' /\ GensBounded' /\ SeqsBounded'
    BY <2>1, <2>2, <2>3 DEF TailInv, IInv, TailTypeOK, GensBounded, GenOf, SeqsBounded, Deleted
  <2>6. TailersExact' /\ AttachedFinite'
    BY <2>1, <2>3 DEF TailInv, TailersExact, AttachedFinite, Registered, Attached
  <2> QED
    BY <2>2, <2>4, <2>5, <2>6 DEF TailInv
<1> QED
  BY <1>1, <1>2

-----------------------------------------------------------------------------
(* Theorems *)

LEMMA TailInvariant == TailSafety => []TailInv
<1>1. TailInit => TailInv
  BY TailInitInv
<1> QED
  BY <1>1, NextTailInv, PTL DEF TailSafety

\* The subscriptions, their log objects and the store keep their types.
THEOREM TailTypeCorrect == TailSafety => []TailTypeOK
<1>1. TailInv => TailTypeOK
  BY DEF TailInv
<1> QED
  BY <1>1, TailInvariant, PTL

\* No order of replay, append, sweep, clear and wait leaves an event behind a
\* sleeping reader.
THEOREM NobodySleepsOnNews == TailSafety => []NoLostWakeup
<1>1. TailInv => NoLostWakeup
  <2> SUFFICES ASSUME TailInv, NEW s \in Sub, sub[s].pc = "waiting",
                      Registered(s), OutOfDate(s)
               PROVE  <<sub[s].chat, sub[s].gen>> \in queued \/ Bumping(sub[s].chat)
    BY DEF NoLostWakeup, Bumping
  <2>1. SubInv(s) /\ sub[s] \in SubState /\ IInv
    BY DEF TailInv, TailTypeOK
  <2>2. sub[s].batch = {} /\ sub[s].chat \in Chat
    BY <2>1 DEF SubInv, InOrder, Placed, Attached
  <2>3. sub[s].cursor \in Nat /\ row[sub[s].chat].floor \in Nat
    BY <2>1, <2>2 DEF SubState, IInv, TypeOK, Row
  <2>4. \/ sub[s].moved
        \/ Bumping(sub[s].chat)
        \/ /\ sub[s].cursor >= row[sub[s].chat].floor
           /\ ReplayAfter(sub[s].chat, sub[s].cursor) \subseteq sub[s].batch
    BY <2>1 DEF SubInv, UpToDate, HasReplayed
  <2>5. sub[s].moved \/ Bumping(sub[s].chat)
    BY <2>2, <2>3, <2>4 DEF OutOfDate
  <2> QED
    BY <2>1, <2>5 DEF SubInv, Woken
<1> QED
  BY <1>1, TailInvariant, PTL

\* The count that makes a sweep spare a chat is the number of tasks attached
\* to the chat's registered log object.
THEOREM TailersAreCounted == TailSafety => []TailersExact
<1>1. TailInv => TailersExact
  BY DEF TailInv
<1> QED
  BY <1>1, TailInvariant, PTL

\* What holds of every behaviour of the store holds under subscriptions.
THEOREM TailImplementsStore == TailSafety => Spec
<1>1. TailInit => Init
  BY DEF TailInit
<1>2. TailInv /\ [TailNext]_allVars => [Next]_vars
  BY TailStepsStore DEF allVars
<1> QED
  BY <1>1, <1>2, TailInvariant, PTL DEF TailSafety, Spec

-----------------------------------------------------------------------------
(* A subscription implements the abstract reader                            *)

SeenState(s) == IF ~Following(s) THEN "off"
                ELSE IF Sound(s) THEN "reading" ELSE "astray"
SeenPos(s) == IF Following(s) /\ Sound(s) THEN sub[s].cursor ELSE 0

SameView(s) == SeenState(s)' = SeenState(s) /\ SeenPos(s)' = SeenPos(s)

\* The task leaves the abstract readers as st, if it was one of them.
Leaves(s, st) == SeenState(s)' = st /\ SeenPos(s)' = 0

SameLog == row'[Watched].latest = row[Watched].latest
           /\ row'[Watched].floor = row[Watched].floor

LEMMA ViewStutters ==
    ASSUME SameLog, \A s \in Sub : SameView(s)
    PROVE  UNCHANGED Stream!vars
  BY DEF SameLog, SameView, SeenState, SeenPos, Stream!vars

\* A task that keeps its place, its cursor and its log object looks the same.
LEMMA ViewKept ==
    ASSUME NEW s \in Sub, sub'[s].chat = sub[s].chat,
           Following(s)' = Following(s),
           Following(s) => /\ sub'[s].cursor = sub[s].cursor
                           /\ sub'[s].astray = sub[s].astray
                           /\ Registered(s)' = Registered(s)
    PROVE  SameView(s)
  BY DEF SameView, SeenState, SeenPos, Sound

LEMMA SoundKept ==
    ASSUME TailTypeOK, NEW s \in Sub, sub'[s] = sub[s],
           Following(s) => Registered(s)' = Registered(s)
    PROVE  SameView(s)
<1>1. Following(s)' = Following(s)
  BY DEF Following
<1> QED
  BY <1>1, ViewKept

\* The log of the watched chat grows, is trimmed, or is removed.
LEMMA LogSteps ==
    ASSUME IInv, Watched \in Chat
    PROVE  /\ Quiet(Watched) => SameLog
           /\ Quiet(Watched) \/ (\E t \in Thread : Grows(Watched, t)) \/ Trims(Watched)
                => Stream!LogChanges
           /\ Removed(Watched) => Stream!LogRemoved
<1>1. /\ row[Watched].latest \in Nat /\ row[Watched].floor \in Nat
      /\ row[Watched].floor <= row[Watched].latest
  BY DEF IInv, TypeOK, Row, WellFormedLog
<1>2. Quiet(Watched) => SameLog
  BY DEF Quiet, SameLog
<1>3. Quiet(Watched) => Stream!LogChanges
  BY <1>1 DEF Quiet, Stream!LogChanges
<1>4. ASSUME NEW t \in Thread, Grows(Watched, t) PROVE Stream!LogChanges
  BY <1>1, <1>4 DEF Grows, Stream!LogChanges
<1>5. Trims(Watched) => Stream!LogChanges
  BY <1>1 DEF Trims, Stream!LogChanges
<1>6. Removed(Watched) => Stream!LogRemoved
  BY DEF Removed, NoRow, Stream!LogRemoved
<1> QED
  BY <1>2, <1>3, <1>4, <1>5, <1>6

LEMMA ReadersLeave ==
    ASSUME NEW R \in SUBSET Sub, NEW st,
           \A s \in R : Leaves(s, st),
           \A s \in Sub \ R : SameView(s)
    PROVE  Stream!Leave(R, st)
  BY DEF Leaves, SameView, SeenState, SeenPos, Stream!Leave

\* When the watched log or its log object goes, its readers go astray.
LEMMA ReadersLost ==
    ASSUME \A s \in Sub : IF SeenState(s) = "reading" THEN Leaves(s, "astray")
                                                      ELSE SameView(s)
    PROVE  Stream!Leave(Stream!Reading, "astray")
<1>1. Stream!Reading = {s \in Sub : SeenState(s) = "reading"}
  BY DEF Stream!Reading, SeenState
<1> QED
  BY <1>1, ReadersLeave

\* As long as the watched chat keeps its row, nobody at it strays.
LEMMA StrayElsewhere ==
    ASSUME TailTypeOK, Stray, UNCHANGED gen, Watched \in logs' <=> Watched \in logs,
           Present(Watched) => Present(Watched)', NEW s \in Sub
    PROVE  SameView(s)
<1>0. sub[s] \in SubState
  BY DEF TailTypeOK
<1>1. CASE sub[s].chat = Watched
  <2>1. sub'[s] = sub[s]
    BY <1>1 DEF Stray, Present
  <2> QED
    BY <1>1, <2>1, SoundKept DEF Registered
<1>2. CASE sub[s].chat # Watched
  <2>1. sub'[s].chat = sub[s].chat
    BY <1>0 DEF Stray, SubState
  <2> QED
    BY <1>2, <2>1, ViewKept DEF Following
<1> QED
  BY <1>1, <1>2

LEMMA StrayFromRemoved ==
    ASSUME TailTypeOK, Stray, UNCHANGED gen, logs' \subseteq logs,
           Removed(Watched), Present(Watched) \/ Watched \notin logs',
           NEW s \in Sub
    PROVE  IF SeenState(s) = "reading" THEN Leaves(s, "astray") ELSE SameView(s)
<1>0. sub[s] \in SubState
  BY DEF TailTypeOK
<1>1. /\ sub'[s].pc = sub[s].pc /\ sub'[s].chat = sub[s].chat
      /\ sub'[s].gen = sub[s].gen
      /\ sub[s].astray => sub'[s].astray
  BY <1>0 DEF Stray, SubState
<1>2. Following(s)' = Following(s)
  BY <1>1 DEF Following
<1>3. CASE ~Following(s)
  BY <1>2, <1>3 DEF SeenState, SameView, SeenPos
<1>4. CASE Following(s)
  <2>1. ~Sound(s)'
    <3>1. row'[Watched].status = "absent"
      BY DEF Removed, NoRow
    <3>2. CASE Watched \notin logs'
      BY <1>1, <1>4, <3>2 DEF Following, Sound, Registered
    <3>3. CASE Present(Watched)
      <4>1. sub'[s] = [sub[s] EXCEPT !.astray = TRUE]
        BY <1>4, <3>1, <3>3 DEF Following, Attached, Stray
      <4>2. sub'[s].astray
        BY <1>0, <4>1 DEF SubState
      <4> QED
        BY <4>2 DEF Sound
    <3> QED
      BY <3>2, <3>3
  <2>2. SeenState(s)' = "astray" /\ SeenPos(s)' = 0
    BY <1>2, <1>4, <2>1 DEF SeenState, SeenPos
  <2>3. CASE SeenState(s) = "reading"
    BY <2>2, <2>3 DEF Leaves
  <2>4. CASE SeenState(s) # "reading"
    BY <1>4, <2>2, <2>4 DEF SeenState, SeenPos, SameView
  <2> QED
    BY <2>3, <2>4
<1> QED
  BY <1>3, <1>4

LEMMA StoreStepsRefine ==
    ASSUME TailInv, Watched \in Chat,
           QuietStep \/ \E t \in Thread : SweepEnds(t) \/ DropLog(t)
    PROVE  [Stream!Next]_(Stream!vars)
<1>0. IInv /\ TypeOK /\ TailTypeOK
  BY DEF TailInv, IInv
<1>1. ASSUME Stray, UNCHANGED <<gen, logs>>, Present(Watched) => Present(Watched)',
             \/ Quiet(Watched)
             \/ \E t \in Thread : Grows(Watched, t)
             \/ Trims(Watched)
      PROVE  Stream!Change
  <2>1. \A s \in Sub : SameView(s)
    BY <1>0, <1>1, StrayElsewhere
  <2>2. Stream!LogChanges
    BY <1>0, <1>1, LogSteps
  <2> QED
    BY <2>1, <2>2 DEF Stream!Change, SameView, SeenState, SeenPos
<1>2. ASSUME Stray, UNCHANGED gen, logs' \subseteq logs, Removed(Watched),
             Present(Watched) \/ Watched \notin logs'
      PROVE  Stream!Remove
  <2>1. Stream!Leave(Stream!Reading, "astray")
    BY <1>0, <1>2, StrayFromRemoved, ReadersLost
  <2> QED
    BY <1>0, <1>2, <2>1, LogSteps DEF Stream!Remove
<1>3. CASE QuietStep
  <2>1. Ordinary /\ Stray /\ UNCHANGED <<gen, logs>>
    BY <1>3 DEF QuietStep, Ordinary, Call
  <2>2. Quiet(Watched) \/ \E t \in Thread : Grows(Watched, t)
    BY <1>0, <2>1, OrdinaryRow
  <2> QED
    BY <1>1, <2>1, <2>2 DEF Quiet, Grows, Stream!Next
<1>4. ASSUME NEW t \in Thread, SweepEnds(t), SweepFails(t) PROVE Stream!Change
  <2>1. Ordinary /\ Stray /\ UNCHANGED <<gen, logs>>
    BY <1>4 DEF SweepEnds, Ordinary
  <2>2. Quiet(Watched) \/ \E r \in Thread : Grows(Watched, r)
    BY <1>0, <2>1, OrdinaryRow
  <2> QED
    BY <1>1, <2>1, <2>2 DEF Quiet, Grows
<1>5. ASSUME NEW t \in Thread, SweepEnds(t), Sweep(t) PROVE Stream!Change \/ Stream!Remove
  <2>1. thread[t].ts \in Nat /\ SweepTxn(thread[t].ts, thread[t].active, notice)
    BY <1>0, <1>5 DEF TypeOK, ThreadState, Sweep
  <2>2. Trims(Watched) \/ (Removed(Watched) /\ Deleted(Watched))
    BY <1>0, <2>1, SweepRow
  <2>3. Stray /\ UNCHANGED <<gen, logs>>
    BY <1>5 DEF SweepEnds
  <2>4. CASE Trims(Watched)
    BY <1>1, <2>3, <2>4 DEF Trims
  <2>5. CASE Removed(Watched) /\ Deleted(Watched)
    BY <1>2, <2>3, <2>5 DEF Deleted, Present
  <2> QED
    BY <2>2, <2>4, <2>5
<1>6. ASSUME NEW t \in Thread, DropLog(t)
      PROVE  Stream!Remove \/ UNCHANGED Stream!vars
  <2>1. Drop(t) /\ Stray /\ UNCHANGED gen /\ logs' = logs \ {thread[t].chat}
    BY <1>6 DEF DropLog
  <2>2. CASE Watched = thread[t].chat
    BY <1>0, <1>2, <2>1, <2>2, DropRow
  <2>3. CASE Watched # thread[t].chat
    <3>1. Quiet(Watched)
      BY <1>0, <2>1, <2>3, DropRow
    <3>2. \A s \in Sub : SameView(s)
      BY <1>0, <2>1, <2>3, <3>1, StrayElsewhere DEF Quiet
    <3> QED
      BY <1>0, <3>1, <3>2, LogSteps, ViewStutters
  <2> QED
    BY <2>2, <2>3
<1> QED
  BY <1>3, <1>4, <1>5, <1>6 DEF SweepEnds, Stream!Next

\* Wake-ups, new log objects and the end of a generator show no reader.
LEMMA WakeUpsStutter ==
    ASSUME TailInv, Watched \in Chat,
           \/ \E t \in Thread : BumpOne(t) \/ BumpAll(t)
           \/ \E t \in Thread, c \in Chat : PushFails(t, c)
           \/ \E l \in Chat \X (1..MaxLogs) : SetProgressed(l)
           \/ \E s \in Sub : EndTail(s)
    PROVE  UNCHANGED Stream!vars
<1>0. TypeOK /\ TailTypeOK /\ GensBounded /\ \A s \in Sub : SubInv(s) /\ sub[s] \in SubState
      /\ sub \in [Sub -> SubState]
  BY DEF TailInv, IInv, TailTypeOK
<1>1. SameLog
  BY DEF SameLog, BumpOne, BumpAll, Bump, PushFails, BeginDrop, SetProgressed,
     EndTail, Detach, vars, durable
<1> SUFFICES ASSUME NEW s \in Sub PROVE SameView(s)
  BY <1>1, ViewStutters
<1>2. ASSUME NEW c \in Chat, GetOrCreate(c), Following(s),
             sub'[s].chat = sub[s].chat, sub'[s].gen = sub[s].gen
      PROVE  Registered(s)' = Registered(s)
  <2>1. Attached(s) /\ Placed(s)
    BY <1>0, <1>2 DEF Following, Attached, SubInv
  <2> QED
    BY <1>0, <1>2, <2>1, CreateRegistersNobody DEF Registered
<1>3. ASSUME Kept(s), sub'[s].astray = sub[s].astray,
             Following(s) => Registered(s)' = Registered(s)
      PROVE  SameView(s)
  <2>1. /\ sub'[s].pc = sub[s].pc /\ sub'[s].chat = sub[s].chat
        /\ sub'[s].cursor = sub[s].cursor
    BY <1>0, <1>3, KeptFields
  <2>2. Following(s)' = Following(s)
    BY <2>1 DEF Following
  <2> QED
    BY <1>3, <2>1, <2>2, ViewKept
<1>4. ASSUME NEW t \in Thread, BumpOne(t) PROVE SameView(s)
  <2>1. PICK c \in Chat, g \in 1..MaxLogs : c = thread[t].chat /\ g = GenOf(c)
    BY <1>0, <1>4 DEF BumpOne, TypeOK, GensBounded
  <2>2. /\ {<<c, g>>} \in SUBSET (Chat \X (1..MaxLogs)) /\ BumpLogs({<<c, g>>})
        /\ GetOrCreate(c)
    BY <1>4, <2>1 DEF BumpOne
  <2>3. Kept(s) /\ sub'[s].astray = sub[s].astray
        /\ sub'[s].chat = sub[s].chat /\ sub'[s].gen = sub[s].gen
    BY <1>0, <2>2, BumpLogsKeeps
  <2> QED
    BY <1>2, <1>3, <2>2, <2>3
<1>5. ASSUME NEW t \in Thread, BumpAll(t) PROVE SameView(s)
  <2> DEFINE L == {<<c, gen[c]>> : c \in logs}
  <2>1. L \in SUBSET (Chat \X (1..MaxLogs)) /\ BumpLogs(L) /\ UNCHANGED <<gen, logs>>
    BY <1>0, <1>5 DEF GensBounded, GenOf, TailTypeOK, BumpAll
  <2> HIDE DEF L
  <2>2. Kept(s) /\ sub'[s].astray = sub[s].astray
        /\ sub'[s].chat = sub[s].chat /\ sub'[s].gen = sub[s].gen
    BY <1>0, <2>1, BumpLogsKeeps
  <2> QED
    BY <1>3, <2>1, <2>2 DEF Registered
<1>6. ASSUME NEW t \in Thread, NEW c \in Chat, PushFails(t, c) PROVE SameView(s)
  <2>1. GetOrCreate(c) /\ sub' = sub
    BY <1>6 DEF PushFails
  <2> QED
    BY <1>2, <1>3, <2>1 DEF Kept
<1>7. ASSUME NEW l, SetProgressed(l) PROVE SameView(s)
  <2>1. /\ UNCHANGED <<gen, logs>>
        /\ \/ sub'[s] = sub[s]
           \/ sub[s].pc = "waiting" /\ sub'[s] = [sub[s] EXCEPT !.pc = "fetch"]
    BY <1>7 DEF SetProgressed
  <2>2. CASE sub'[s] = sub[s]
    BY <1>0, <2>1, <2>2, SoundKept DEF Registered
  <2>3. CASE sub[s].pc = "waiting" /\ sub'[s] = [sub[s] EXCEPT !.pc = "fetch"]
    <3>1. /\ sub'[s].pc = "fetch" /\ sub'[s].chat = sub[s].chat
          /\ sub'[s].gen = sub[s].gen /\ sub'[s].cursor = sub[s].cursor
          /\ sub'[s].astray = sub[s].astray
      BY <1>0, <2>3 DEF SubState
    <3>2. Following(s)' = Following(s) /\ Registered(s)' = Registered(s)
      BY <2>1, <2>3, <3>1 DEF Following, Registered
    <3> QED
      BY <3>1, <3>2, ViewKept
  <2> QED
    BY <2>1, <2>2, <2>3
<1>8. ASSUME NEW r \in Sub, EndTail(r) PROVE SameView(s)
  <2>1. sub' = [sub EXCEPT ![r] = Off] /\ UNCHANGED <<gen, logs>>
        /\ sub[r].pc = "ended"
    BY <1>8 DEF EndTail
  <2>2. CASE r = s
    <3>1. ~Following(s) /\ ~Following(s)'
      BY <1>0, <2>1, <2>2 DEF Following, Off
    <3> QED
      BY <3>1 DEF SameView, SeenState, SeenPos
  <2>3. CASE r # s
    BY <1>0, <2>1, <2>3, SoundKept DEF Registered
  <2> QED
    BY <2>2, <2>3
<1> QED
  BY <1>4, <1>5, <1>6, <1>7, <1>8

LEMMA OwnStepsRefine ==
    ASSUME TailInv, Watched \in Chat, NEW s \in Sub,
           SubStep(s) \/ DeliverFails(s) \/ Cancel(s)
    PROVE  [Stream!Next]_(Stream!vars)
<1>0. /\ TailTypeOK /\ SubInv(s) /\ sub[s] \in SubState
      /\ sub \in [Sub -> SubState] /\ IInv
  BY DEF TailInv, TailTypeOK
<1>1. UNCHANGED <<row, gen, logs>>
  BY DEF SubStep, CheckCursor, ReadVersion, Replay, Deliver, AckDelivered,
     Acknowledge, AckRefused, BatchDone, Park, SendExpired, DeliverFails, Cancel,
     vars, durable
<1>2. SameLog
  BY <1>1 DEF SameLog
<1>3. sub'[s].chat = sub[s].chat /\ sub'[s].gen = sub[s].gen
  BY PlacesKept
<1>4. \A r \in Sub \ {s} : SameView(r)
  <2> SUFFICES ASSUME NEW r \in Sub \ {s} PROVE SameView(r)
    OBVIOUS
  <2>1. sub'[r] = sub[r]
    BY <1>0 DEF SubStep, CheckCursor, ReadVersion, Replay, Deliver, AckDelivered,
       AckRefused, BatchDone, Park, SendExpired, DeliverFails, Cancel, Goto
  <2> QED
    BY <1>0, <1>1, <2>1, SoundKept DEF Registered
\* The task goes on.
<1>5. ASSUME sub[s].pc \notin {"off", "ended"}, sub'[s].pc \notin {"off", "ended"},
             sub'[s].cursor = sub[s].cursor, sub'[s].astray = sub[s].astray
      PROVE  UNCHANGED Stream!vars
  <2>1. SameView(s)
    BY <1>1, <1>3, <1>5, ViewKept DEF Following, Registered
  <2> QED
    BY <1>2, <1>4, <2>1, ViewStutters
\* The task ends.
<1>6. ASSUME sub[s].pc # "off", sub' = Goto(s, "ended")
      PROVE  Stream!Stop(s) \/ UNCHANGED Stream!vars
  <2>1. sub'[s].pc = "ended"
    BY <1>0, <1>6 DEF Goto, SubState
  <2>2. ~Following(s)' /\ SeenState(s)' = "off" /\ SeenPos(s)' = 0
    BY <2>1 DEF Following, SeenState, SeenPos
  <2>3. CASE Following(s)
    <3>1. SeenState(s) # "off"
      BY <2>3 DEF SeenState
    <3>2. Stream!Leave({s}, "off")
      BY <1>4, <2>2, ReadersLeave DEF Leaves
    <3> QED
      BY <1>2, <3>1, <3>2 DEF Stream!Stop, SameLog, SeenState
  <2>4. CASE ~Following(s)
    <3>1. SameView(s)
      BY <2>2, <2>4 DEF SameView, SeenState, SeenPos
    <3> QED
      BY <1>2, <1>4, <3>1, ViewStutters
  <2> QED
    BY <2>3, <2>4
<1>7. ASSUME NEW pc \in {"check", "fetch", "replay", "deliver", "ack", "park",
                         "waiting", "expired"},
             sub' = Goto(s, pc), sub[s].pc \notin {"off", "ended"}
      PROVE  UNCHANGED Stream!vars
  <2>1. /\ sub'[s].pc = pc /\ sub'[s].cursor = sub[s].cursor
        /\ sub'[s].astray = sub[s].astray
    BY <1>0, <1>7 DEF Goto, SubState
  <2> QED
    BY <1>5, <1>7, <2>1
<1>8. CASE ReadVersion(s)
  <2>1. sub'[s] = [sub[s] EXCEPT !.pc = "replay", !.moved = FALSE]
    BY <1>0, <1>8 DEF ReadVersion
  <2>2. /\ sub'[s].pc = "replay" /\ sub'[s].cursor = sub[s].cursor
        /\ sub'[s].astray = sub[s].astray
    BY <1>0, <2>1 DEF SubState
  <2> QED
    BY <1>5, <1>8, <2>2 DEF ReadVersion
<1>9. CASE Replay(s) /\ ~(sub[s].cursor < row[sub[s].chat].floor)
  <2>1. PICK b : sub'[s] = [sub[s] EXCEPT !.pc = "deliver", !.batch = b]
    BY <1>0, <1>9 DEF Replay
  <2>2. /\ sub'[s].pc = "deliver" /\ sub'[s].cursor = sub[s].cursor
        /\ sub'[s].astray = sub[s].astray
    BY <1>0, <2>1 DEF SubState
  <2> QED
    BY <1>5, <1>9, <2>2 DEF Replay
<1>10. CASE Deliver(s)
  <2>1. PICK n \in Nat : n = sub[s].cursor + 1 /\ n = NextOf(s) /\ n \in sub[s].batch
    BY <1>0, <1>10, NextIsNext DEF Deliver, SubInv, SubState
  <2>2. sub'[s] = [sub[s] EXCEPT !.pc = "ack", !.cursor = n, !.batch = @ \ {n}]
    BY <1>0, <1>10, <2>1 DEF Deliver
  <2>3. /\ sub'[s].pc = "ack" /\ sub'[s].cursor = n
        /\ sub'[s].astray = sub[s].astray /\ sub[s].pc = "deliver"
    BY <1>0, <1>10, <2>2 DEF SubState, Deliver
  <2>4. Following(s)' = Following(s) /\ Sound(s)' = Sound(s)
    BY <1>1, <1>3, <2>3 DEF Following, Sound, Registered
  <2>5. CASE Following(s) /\ Sound(s)
    <3>1. SeenPos(s) = sub[s].cursor /\ SeenPos(s)' = sub[s].cursor + 1
          /\ SeenState(s) = "reading" /\ SeenState(s)' = "reading"
      BY <2>1, <2>3, <2>4, <2>5 DEF SeenPos, SeenState
    <3>2. n <= row[Watched].latest
      BY <1>0, <2>1, <2>5 DEF SubInv, Appended, Following
    <3>3. sub[s].cursor < row[Watched].latest
      BY <1>0, <2>1, <3>2 DEF SubState, IInv, TypeOK, Row
    <3>4. [r \in Sub |-> SeenPos(r)]' = [[r \in Sub |-> SeenPos(r)] EXCEPT ![s] = @ + 1]
      BY <1>4, <3>1 DEF SameView
    <3>5. [r \in Sub |-> SeenState(r)]' = [r \in Sub |-> SeenState(r)]
      BY <1>4, <3>1 DEF SameView
    <3> QED
      BY <1>2, <3>1, <3>3, <3>4, <3>5 DEF Stream!Next, Stream!Get, SameLog,
         SeenPos, SeenState
  <2>6. CASE ~(Following(s) /\ Sound(s))
    <3>1. SameView(s)
      BY <2>4, <2>6 DEF SameView, SeenState, SeenPos
    <3> QED
      BY <1>2, <1>4, <3>1, ViewStutters
  <2> QED
    BY <2>5, <2>6
<1>11. CASE CheckCursor(s)
  BY <1>7, <1>11 DEF CheckCursor
<1>12. CASE AckDelivered(s) \/ BatchDone(s)
  BY <1>7, <1>12 DEF AckDelivered, BatchDone
<1>13. CASE Park(s)
  BY <1>7, <1>13 DEF Park
<1>14. CASE Replay(s) /\ sub[s].cursor < row[sub[s].chat].floor
  BY <1>7, <1>14 DEF Replay
<1>15. CASE AckRefused(s) \/ SendExpired(s) \/ DeliverFails(s) \/ Cancel(s)
  <2>1. sub[s].pc # "off" /\ sub' = Goto(s, "ended")
    BY <1>15 DEF AckRefused, SendExpired, DeliverFails, Cancel
  <2> QED
    BY <1>6, <2>1 DEF Stream!Next
<1> QED
  BY <1>8, <1>9, <1>10, <1>11, <1>12, <1>13, <1>14, <1>15 DEF SubStep

LEMMA SubscribeRefines ==
    ASSUME TailInv, Watched \in Chat, NEW s \in Sub, NEW c \in Chat,
           NEW k \in Client, NEW n \in 0..(MaxSeq + 1), Subscribe(s, c, k, n)
    PROVE  [Stream!Next]_(Stream!vars)
<1>0. /\ TailTypeOK /\ GensBounded /\ \A r \in Sub : SubInv(r)
      /\ sub \in [Sub -> SubState]
  BY DEF TailInv, TailTypeOK
<1>1. /\ GetOrCreate(c) /\ row' = row /\ sub[s].pc = "off"
      /\ sub' = [sub EXCEPT ![s] = [Off EXCEPT !.pc = "check", !.chat = c,
                                      !.client = k, !.gen = GenOf(c), !.cursor = n]]
  BY DEF Subscribe, Attach, durable
<1>2. SameLog
  BY <1>1 DEF SameLog
<1>3. \A r \in Sub \ {s} : SameView(r)
  <2> SUFFICES ASSUME NEW r \in Sub \ {s} PROVE SameView(r)
    OBVIOUS
  <2>1. sub'[r] = sub[r]
    BY <1>0, <1>1
  <2>2. ASSUME Following(r) PROVE Registered(r)' = Registered(r)
    <3>1. Attached(r) /\ Placed(r)
      BY <1>0, <2>2 DEF Following, Attached, SubInv
    <3> QED
      BY <1>0, <1>1, <2>1, <3>1, CreateRegistersNobody DEF Registered
  <2> QED
    BY <1>0, <2>1, <2>2, SoundKept
<1>4. ~Following(s) /\ SeenState(s) = "off" /\ SeenPos(s) = 0
  BY <1>1 DEF Following, SeenState, SeenPos
<1>5. CASE c # Watched
  <2>1. ~Following(s)'
    BY <1>5, SubscribeInv DEF Following
  <2>2. SameView(s)
    BY <1>4, <2>1 DEF SameView, SeenState, SeenPos
  <2> QED
    BY <1>2, <1>3, <2>2, ViewStutters
<1>6. CASE c = Watched
  <2>1. /\ sub'[s].chat = c /\ sub'[s].gen = gen'[c] /\ c \in logs'
    BY <1>1, SubscribeInv DEF GetOrCreate
  <2>2. sub'[s].pc = "check" /\ sub'[s].cursor = n /\ sub'[s].astray = FALSE
    <3> HIDE DEF GenOf
    <3> QED
      BY <1>0, <1>1 DEF Off
  <2>3. Following(s)' /\ Sound(s)'
    BY <1>6, <2>1, <2>2 DEF Following, Sound, Registered
  <2>4. SeenState(s)' = "reading" /\ SeenPos(s)' = n /\ n \in Nat
    BY <2>2, <2>3, LimitsAssumption DEF SeenState, SeenPos
  <2>5. [r \in Sub |-> SeenState(r)]'
          = [[r \in Sub |-> SeenState(r)] EXCEPT ![s] = "reading"]
    BY <1>3, <2>4 DEF SameView
  <2>6. [r \in Sub |-> SeenPos(r)]' = [[r \in Sub |-> SeenPos(r)] EXCEPT ![s] = n]
    BY <1>3, <2>4 DEF SameView
  <2>7. [r \in Sub |-> SeenPos(r)]'[s] = n
    BY <2>4
  <2>8. Stream!Start(s)
    BY <1>2, <1>4, <2>4, <2>5, <2>6, <2>7 DEF Stream!Start, SameLog, SeenPos, SeenState
  <2> QED
    BY <2>8 DEF Stream!Next
<1> QED
  BY <1>5, <1>6

LEMMA RestartRefines ==
    ASSUME TailInv, Watched \in Chat, RestartProcess
    PROVE  Stream!Shutdown
<1>1. \A s \in Sub : Leaves(s, "off")
  BY DEF RestartProcess, Leaves, SeenState, SeenPos, Following, Off
<1>2. Stream!Leave(Sub, "off")
  BY <1>1, ReadersLeave
<1>3. Quiet(Watched) \/ Trims(Watched) \/ Removed(Watched)
  BY RestartRow DEF RestartProcess, TailInv
<1>4. Stream!LogChanges \/ Stream!LogRemoved
  BY <1>3, LogSteps DEF TailInv
<1> QED
  BY <1>2, <1>4 DEF Stream!Shutdown

LEMMA TailStepRefines ==
    ASSUME TailInv, Watched \in Chat, TailNext
    PROVE  [Stream!Next]_(Stream!vars)
<1>1. CASE RestartProcess
  BY <1>1, RestartRefines DEF Stream!Next
<1> QED
  BY <1>1, StoreStepsRefine, WakeUpsStutter, OwnStepsRefine, SubscribeRefines
     DEF TailNext

LEMMA TailInitRefines ==
    ASSUME TailInit, Watched \in Chat
    PROVE  Stream!Init
<1>1. row[Watched].latest = 0 /\ row[Watched].floor = 0
  BY DEF TailInit, Init, NoRow
<1>2. \A s \in Sub : ~Following(s)
  BY DEF TailInit, Following, Off
<1> QED
  BY <1>1, <1>2 DEF Stream!Init

LEMMA StutterRefines ==
    ASSUME UNCHANGED allVars
    PROVE  UNCHANGED Stream!vars
  BY DEF allVars, tailVars, vars, durable, Stream!vars, Following, Sound, Registered

\* Subscriptions implement the abstract reader: whatever appends, sweeps,
\* deletions, drops, restarts and cancellations run between its steps, a
\* reader that is neither off nor astray is sent the events after its cursor
\* one by one, none skipped and none twice.
THEOREM SubscriptionsReadInOrder ==
    ASSUME Chat # {}
    PROVE  TailSafety => Stream!Safety
<1>1. Watched \in Chat
  BY DEF Watched
<1>2. TailInit => Stream!Init
  BY <1>1, TailInitRefines
<1>3. TailInv /\ [TailNext]_allVars => [Stream!Next]_(Stream!vars)
  BY <1>1, TailStepRefines, StutterRefines
<1> QED
  BY <1>2, <1>3, TailInvariant, PTL DEF TailSafety, Stream!Safety

=============================================================================
