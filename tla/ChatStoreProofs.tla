-------------------------- MODULE ChatStoreProofs ---------------------------
(***************************************************************************)
(* Proofs about ChatStore for every set of chats, clients, messages and    *)
(* callers, every limit of the configuration and every bound.              *)
(*                                                                         *)
(* IInv is inductive: the type invariant needs WellFormedLog, because the  *)
(* new floor of a trimmed log is a maximum that exists only if the log is  *)
(* bounded by the row's latest sequence number; NoHoles needs both.        *)
(* GcInv is what the promises of a sweep need besides: a call's clock      *)
(* reading is of the past, and what a sweep counts is finite.              *)
(***************************************************************************)
EXTENDS ChatStore, TLAPS, FiniteSetTheorems

IInv == TypeOK /\ WellFormedLog /\ NoHoles

-----------------------------------------------------------------------------
(* Maxima of bounded sets                                                  *)

\* The newest of a bounded, non-empty set of sequence numbers exists (what
\* SELECT max(seq) returns in sweep).
LEMMA MaxExists ==
    ASSUME NEW S \in SUBSET Nat, S # {}, NEW b \in Nat, \A n \in S : n <= b
    PROVE  MaxOf(S) \in S /\ \A n \in S : n <= MaxOf(S)
<1> DEFINE U == {m \in Nat : \A n \in S : n <= m}
           R == OpToRel(<, Nat)
<1>1. IsWellFoundedOn(R, Nat)
  BY NatLessThanWellFounded
<1>2. U \subseteq Nat /\ b \in U
  OBVIOUS
<1>3. PICK m \in U : \A y \in U : <<y, m>> \notin R
  BY <1>1, <1>2, WFMin
<1>4. \A y \in U : ~ (y < m)
  BY <1>2, <1>3 DEF OpToRel
<1>5. m \in S
  <2> SUFFICES ASSUME m \notin S PROVE FALSE
    OBVIOUS
  <2>1. PICK n \in S : TRUE
    OBVIOUS
  <2>2. m > 0 /\ m - 1 \in Nat /\ \A k \in S : k <= m - 1
    BY <2>1
  <2>3. m - 1 \in U
    BY <2>2
  <2> QED
    BY <1>4, <2>2, <2>3
<1>6. \A n \in S : n <= m
  OBVIOUS
<1> QED
  BY <1>5, <1>6 DEF MaxOf

-----------------------------------------------------------------------------
(* Facts about a trim, used for the type invariant and for the absence of   *)
(* holes                                                                    *)

\* The floors computed by a sweep lie within the log, and everything the
\* sweep expires lies at or below them.
LEMMA FloorsInLog ==
    ASSUME TypeOK, WellFormedLog, NEW c \in Chat, NEW ts \in Nat
    PROVE  /\ TtlFloor(c, ts) \in Nat
           /\ CapFloor(c, ts) \in Nat
           /\ TtlFloor(c, ts) >= row[c].floor
           /\ TtlFloor(c, ts) <= row[c].latest
           /\ CapFloor(c, ts) <= row[c].latest
           /\ \A e \in Expired(c, ts) : e.seq <= TtlFloor(c, ts)
<1> DEFINE X == Seqs(Expired(c, ts))
<1>1. row[c] \in Row /\ row[c].floor <= row[c].latest
  BY DEF TypeOK, WellFormedLog
<1>2. row[c].floor \in Nat /\ row[c].latest \in Nat
  BY <1>1 DEF Row
<1>3. /\ events[c] \subseteq Event
      /\ \A e \in events[c] : e.seq \in Nat \ {0} /\ e.seq <= row[c].latest
  BY DEF TypeOK, WellFormedLog, Event
<1>4. X \subseteq Nat /\ \A n \in X : n <= row[c].latest
  BY <1>3 DEF Seqs, Expired
<1>5. /\ TtlFloor(c, ts) \in Nat
      /\ TtlFloor(c, ts) >= row[c].floor
      /\ TtlFloor(c, ts) <= row[c].latest
      /\ \A e \in Expired(c, ts) : e.seq <= TtlFloor(c, ts)
  <2>1. CASE Expired(c, ts) = {}
    BY <1>1, <1>2, <2>1 DEF TtlFloor
  <2>2. CASE Expired(c, ts) # {}
    <3>1. X # {} /\ \A e \in Expired(c, ts) : e.seq \in X
      BY <2>2 DEF Seqs
    <3> DEFINE m == MaxOf(X)
    <3>2. m \in X /\ \A n \in X : n <= m
      BY <1>2, <1>4, <3>1, MaxExists
    <3>3. TtlFloor(c, ts) = Larger(row[c].floor, m)
      BY <2>2 DEF TtlFloor
    <3>4. m \in Nat /\ m <= row[c].latest
      BY <1>4, <3>2
    <3> HIDE DEF X, m
    <3>5. /\ TtlFloor(c, ts) \in {row[c].floor, m}
          /\ TtlFloor(c, ts) >= row[c].floor
          /\ TtlFloor(c, ts) >= m
      BY <1>2, <3>3, <3>4 DEF Larger
    <3>6. \A e \in Expired(c, ts) : e.seq \in Nat /\ e.seq <= m
      BY <1>4, <3>1, <3>2
    <3> QED
      BY <1>1, <1>2, <3>4, <3>5, <3>6
  <2> QED
    BY <2>1, <2>2
<1>6. CapFloor(c, ts) \in Nat /\ CapFloor(c, ts) <= row[c].latest
  <2> DEFINE s == CHOOSE s \in Overflow(c, ts) : TRUE
  <2>1. CASE Overflow(c, ts) = {}
    BY <1>2, <2>1 DEF CapFloor
  <2>2. CASE Overflow(c, ts) # {}
    <3>1. s \in Overflow(c, ts)
      BY <2>2
    <3>2. s \in Nat \ {0} /\ s <= row[c].latest
      BY <1>3, <3>1 DEF Overflow, Seqs, Unexpired
    <3> HIDE DEF s
    <3>3. CapFloor(c, ts) = s - 1
      BY <2>2 DEF CapFloor, s
    <3> QED
      BY <1>2, <3>2, <3>3
  <2> QED
    BY <2>1, <2>2
<1> QED
  BY <1>5, <1>6

\* What a trim leaves is part of the log, and all of it above the new floor.
LEMMA TrimLeavesSuffix ==
    ASSUME TypeOK, WellFormedLog, NEW c \in Chat, NEW ts \in Nat
    PROVE  /\ TrimmedRow(c, ts) \in Row
           /\ TrimmedRow(c, ts).latest = row[c].latest
           /\ TrimmedRow(c, ts).floor >= row[c].floor
           /\ TrimmedRow(c, ts).floor <= row[c].latest
           /\ TrimmedRow(c, ts).status = row[c].status
           /\ Trimmed(c, ts) \subseteq events[c]
           /\ \A e \in events[c] \ Trimmed(c, ts) :
                 e.seq <= TrimmedRow(c, ts).floor
<1> DEFINE f == Larger(TtlFloor(c, ts), CapFloor(c, ts))
<1>1. /\ TtlFloor(c, ts) \in Nat
      /\ CapFloor(c, ts) \in Nat
      /\ TtlFloor(c, ts) >= row[c].floor
      /\ TtlFloor(c, ts) <= row[c].latest
      /\ CapFloor(c, ts) <= row[c].latest
      /\ \A e \in Expired(c, ts) : e.seq <= TtlFloor(c, ts)
  BY FloorsInLog
<1>2. row[c] \in Row /\ row[c].floor \in Nat /\ row[c].latest \in Nat
  BY DEF TypeOK, Row
<1>3. \A e \in events[c] : e.seq \in Nat
  BY DEF TypeOK, Event
<1>4. f \in Nat /\ f >= TtlFloor(c, ts) /\ f >= CapFloor(c, ts)
      /\ f <= row[c].latest
  BY <1>1, <1>2 DEF Larger
<1>5. TrimmedRow(c, ts) = [row[c] EXCEPT !.floor = f]
  BY DEF TrimmedRow
<1> HIDE DEF f
<1>6. TrimmedRow(c, ts) \in Row
  BY <1>2, <1>4, <1>5 DEF Row
<1>7. /\ TrimmedRow(c, ts).latest = row[c].latest
      /\ TrimmedRow(c, ts).floor = f
      /\ TrimmedRow(c, ts).status = row[c].status
  BY <1>2, <1>5 DEF Row
<1>8. Trimmed(c, ts) \subseteq events[c]
  BY DEF Trimmed, Unexpired
<1>9. ASSUME NEW e \in events[c] \ Trimmed(c, ts) PROVE e.seq <= f
  <2>1. e \in Expired(c, ts) \/ ~ (e.seq > CapFloor(c, ts))
    BY DEF Trimmed, Unexpired
  <2> QED
    BY <1>1, <1>3, <1>4, <2>1
<1> QED
  BY <1>1, <1>2, <1>4, <1>6, <1>7, <1>8, <1>9

-----------------------------------------------------------------------------
(* The inductive invariant                                                  *)

TablesOK ==
    /\ row \in [Chat -> Row]
    /\ events \in [Chat -> SUBSET Event]
    /\ acked \in [Chat -> [Client -> Nat]]
    /\ dedup \subseteq Dedup
    /\ notice \in [Chat -> {"none", "written", "lost"}]

\* The transaction of a sweep, whatever instant it works with and whichever
\* chats it spares, keeps the tables well formed and without holes.
LEMMA SweepKeepsTables ==
    ASSUME IInv, NEW ts \in Nat, NEW active,
           NEW told \in [Chat -> {"none", "written", "lost"}],
           SweepTxn(ts, active, told)
    PROVE  TablesOK' /\ WellFormedLog' /\ NoHoles'
<1>1. PICK victims \in SUBSET Countable : Collect(ts, victims, told)
  BY DEF SweepTxn
<1>2. TypeOK /\ WellFormedLog /\ NoHoles
  BY DEF IInv
<1>3. \A c \in Chat : row[c] \in Row /\ events[c] \in SUBSET Event
  BY <1>2 DEF TypeOK
<1> DEFINE R(c) == CASE c \in Buried(ts) -> NoRow
                     [] c \in victims    -> TombstoneRow(c, ts)
                     [] OTHER            -> TrimmedRow(c, ts)
           E(c) == CASE c \in Buried(ts) -> {}
                     [] c \in victims    -> {Tombstone(c, ts)}
                     [] OTHER            -> Trimmed(c, ts)
<1>4. /\ row' = [c \in Chat |-> R(c)]
      /\ events' = [c \in Chat |-> E(c)]
      /\ acked' = [c \in Chat |-> IF c \in Buried(ts) THEN NoCursors ELSE acked[c]]
      /\ dedup' = {d \in UnexpiredDedup(ts) : d.chat \notin Buried(ts)}
      /\ notice' = [c \in Chat |-> CASE c \in Buried(ts) -> "none"
                                     [] c \in victims    -> "written"
                                     [] OTHER            -> told[c]]
  BY <1>1 DEF Collect
<1>5. ASSUME NEW c \in Chat
      PROVE  /\ R(c) \in Row
             /\ E(c) \in SUBSET Event
             /\ R(c).floor <= R(c).latest
             /\ \A e \in E(c) : e.seq <= R(c).latest
             /\ \A e, f \in E(c) : e.seq = f.seq => e = f
             /\ R(c).floor + 1 .. R(c).latest \subseteq Seqs(E(c))
             /\ R(c).status = "absent" =>
                   R(c) = NoRow /\ E(c) = {} /\ (c \in Buried(ts) \/ ~Present(c))
  <2>0. row[c].latest \in Nat /\ row[c].floor \in Nat
    BY <1>3 DEF Row
  <2>1. CASE c \in Buried(ts)
    <3>0. c \notin victims
      BY <2>1 DEF Buried, Countable, Deleted, Live
    <3>1. R(c) = NoRow /\ E(c) = {}
      BY <2>1, <3>0
    <3>2. NoRow \in Row /\ NoRow.floor = 0 /\ NoRow.latest = 0
      BY DEF NoRow, Row
    <3> QED
      BY <2>1, <3>1, <3>2
  <2>2. CASE c \notin Buried(ts) /\ c \in victims
    <3>1. R(c) = TombstoneRow(c, ts) /\ E(c) = {Tombstone(c, ts)}
      BY <2>2
    <3>2. /\ TombstoneRow(c, ts) \in Row
          /\ TombstoneRow(c, ts).latest = row[c].latest + 1
          /\ TombstoneRow(c, ts).floor = row[c].latest
          /\ TombstoneRow(c, ts).status = "deleted"
      BY <2>0 DEF TombstoneRow, Row, NextSeq
    <3>3. /\ Tombstone(c, ts) \in Event
          /\ Tombstone(c, ts).seq = row[c].latest + 1
      BY <2>0 DEF Tombstone, Event, Kind, NextSeq
    <3>4. Seqs({Tombstone(c, ts)}) = {row[c].latest + 1}
      BY <3>3 DEF Seqs
    <3> QED
      BY <2>0, <3>1, <3>2, <3>3, <3>4
  <2>3. CASE c \notin Buried(ts) /\ c \notin victims
    <3>1. R(c) = TrimmedRow(c, ts) /\ E(c) = Trimmed(c, ts)
      BY <2>3
    <3>2. /\ TrimmedRow(c, ts) \in Row
          /\ TrimmedRow(c, ts).latest = row[c].latest
          /\ TrimmedRow(c, ts).floor >= row[c].floor
          /\ TrimmedRow(c, ts).floor <= row[c].latest
          /\ TrimmedRow(c, ts).status = row[c].status
          /\ Trimmed(c, ts) \subseteq events[c]
          /\ \A e \in events[c] \ Trimmed(c, ts) :
                e.seq <= TrimmedRow(c, ts).floor
      BY <1>2, TrimLeavesSuffix
    <3>3. TrimmedRow(c, ts).floor \in Nat
      BY <3>2 DEF Row
    <3>4. /\ \A e \in events[c] : e.seq \in Nat \ {0} /\ e.seq <= row[c].latest
          /\ \A e, f \in events[c] : e.seq = f.seq => e = f
      BY <1>2, <1>3 DEF WellFormedLog, Event
    <3>5. ASSUME NEW n \in TrimmedRow(c, ts).floor + 1 .. row[c].latest
          PROVE  n \in Seqs(Trimmed(c, ts))
      <4>1. n \in row[c].floor + 1 .. row[c].latest
        BY <2>0, <3>2, <3>3
      <4>2. PICK e \in events[c] : e.seq = n
        BY <1>2, <4>1 DEF NoHoles, Seqs
      <4>3. e \in Trimmed(c, ts)
        BY <3>2, <3>3, <4>1, <4>2
      <4> QED
        BY <4>2, <4>3 DEF Seqs
    <3>6. ASSUME row[c].status = "absent"
          PROVE  TrimmedRow(c, ts) = NoRow /\ Trimmed(c, ts) = {} /\ ~Present(c)
      <4>1. ~Present(c)
        BY <3>6 DEF Present
      <4>2. row[c] = NoRow /\ events[c] = {}
        BY <1>2, <4>1 DEF WellFormedLog
      <4>3. TrimmedRow(c, ts).floor = 0
        BY <3>2, <3>3, <4>2 DEF NoRow
      <4>4. TrimmedRow(c, ts) = NoRow
        BY <4>2, <4>3 DEF TrimmedRow, NoRow
      <4> QED
        BY <3>2, <4>1, <4>2, <4>4
    <3> HIDE DEF R, E
    <3> QED
      BY <1>3, <2>0, <3>1, <3>2, <3>3, <3>4, <3>5, <3>6
  <2> QED
    BY <2>1, <2>2, <2>3
<1> HIDE DEF R, E
<1>6. TablesOK'
  <2>1. row' \in [Chat -> Row] /\ events' \in [Chat -> SUBSET Event]
    BY <1>4, <1>5
  <2>2. acked' \in [Chat -> [Client -> Nat]]
    BY <1>2, <1>4 DEF TypeOK, NoCursors
  <2>3. dedup' \subseteq Dedup
    BY <1>2, <1>4 DEF TypeOK, UnexpiredDedup
  <2>4. notice' \in [Chat -> {"none", "written", "lost"}]
    BY <1>4
  <2> QED
    BY <2>1, <2>2, <2>3, <2>4 DEF TablesOK
<1>7. WellFormedLog'
  <2> SUFFICES ASSUME NEW c \in Chat
               PROVE /\ row'[c].floor <= row'[c].latest
                     /\ \A e \in events'[c] : e.seq <= row'[c].latest
                     /\ \A e, f \in events'[c] : e.seq = f.seq => e = f
                     /\ row'[c].status = "absent" =>
                           /\ row'[c] = NoRow
                           /\ events'[c] = {}
                           /\ acked'[c] = NoCursors
                           /\ \A d \in dedup' : d.chat # c
    BY DEF WellFormedLog, Present
  <2>1. row'[c] = R(c) /\ events'[c] = E(c)
    BY <1>4
  <2>2. ASSUME c \in Buried(ts) \/ ~Present(c)
        PROVE  acked'[c] = NoCursors /\ \A d \in dedup' : d.chat # c
    BY <1>2, <1>4, <2>2 DEF WellFormedLog, UnexpiredDedup
  <2> QED
    BY <1>5, <2>1, <2>2
<1>8. NoHoles'
  BY <1>4, <1>5 DEF NoHoles, Seqs
<1> QED
  BY <1>6, <1>7, <1>8

\* Steps that leave the tables alone cannot disturb the log.
LEMMA TablesUnchanged ==
    ASSUME IInv, UNCHANGED durable
    PROVE  WellFormedLog' /\ NoHoles'
<1>1. row' = row /\ events' = events /\ acked' = acked /\ dedup' = dedup
  BY DEF durable
<1>2. WellFormedLog /\ NoHoles
  BY DEF IInv
<1> QED
  BY <1>1, <1>2 DEF WellFormedLog, NoHoles, Present

\* append_event's transaction extends the log by one event.
LEMMA AppendKeepsLog ==
    ASSUME IInv, NEW t \in Thread, Append(t)
    PROVE  TypeOK' /\ WellFormedLog' /\ NoHoles'
<1> DEFINE c == thread[t].chat
           ts == thread[t].ts
           base == IF Present(c) THEN row[c] ELSE NewRow(ts)
           r == [base EXCEPT !.latest = NextSeq(c), !.updatedAt = ts]
           e == [seq |-> NextSeq(c), kind |-> thread[t].kind, at |-> ts]
<1>1. TypeOK /\ WellFormedLog /\ NoHoles
  BY DEF IInv
<1>2. /\ events' = [events EXCEPT ![c] = @ \cup {e}]
      /\ row' = [row EXCEPT ![c] = r]
      /\ since' = IF since < GcInterval THEN since + 1 ELSE since
      /\ requested' \in {TRUE, requested \/ (GcInterval > 0 /\ since + 1 >= GcInterval)}
      /\ thread' = [thread EXCEPT ![t] = [Idle EXCEPT !.pc = "bump", !.chat = c]]
      /\ notice' = IF thread[t].kind = "chat.deleted"
                   THEN [notice EXCEPT ![c] = "written"] ELSE notice
      /\ UNCHANGED <<clock, acked, dedup, tailers>>
      /\ thread[t].pc = "commit"
  BY DEF Append
<1>3. c \in Chat /\ ts \in Nat /\ thread[t].kind \in Kind
  BY <1>1, <1>2 DEF TypeOK, ThreadState
<1>4. row[c] \in Row /\ row[c].latest \in Nat
  BY <1>1, <1>3 DEF TypeOK, Row
<1>5. base \in Row /\ base.status # "absent" /\ base.floor = row[c].floor
  <2>1. CASE Present(c)
    BY <1>4, <2>1 DEF Present
  <2>2. CASE ~Present(c)
    <3>1. row[c] = NoRow
      BY <1>1, <1>3, <2>2 DEF WellFormedLog
    <3>2. base = NewRow(ts)
      BY <2>2
    <3> HIDE DEF base, c, ts
    <3> QED
      BY <1>3, <3>1, <3>2 DEF NewRow, NoRow, Row
  <2> QED
    BY <2>1, <2>2
<1> HIDE DEF c, ts, base
<1>6. /\ r \in Row
      /\ r.latest = row[c].latest + 1
      /\ r.floor = row[c].floor
      /\ r.status # "absent"
  <2>1. NextSeq(c) \in Nat /\ NextSeq(c) = row[c].latest + 1
    BY <1>4 DEF NextSeq
  <2>2. r \in Row /\ r.latest = NextSeq(c)
    BY <1>3, <1>5, <2>1 DEF Row
  <2>3. r.floor = base.floor /\ r.status = base.status
    BY <1>5 DEF Row
  <2> QED
    BY <1>5, <2>1, <2>2, <2>3
<1>7. e \in Event /\ e.seq = row[c].latest + 1
  BY <1>3, <1>4 DEF Event, NextSeq
<1> HIDE DEF r, e
<1>8. TypeOK'
  <2>1. row' \in [Chat -> Row] /\ events' \in [Chat -> SUBSET Event]
    BY <1>1, <1>2, <1>3, <1>6, <1>7 DEF TypeOK
  <2>2. since' \in 0..GcInterval /\ requested' \in BOOLEAN
    <3>1. since' \in 0..GcInterval
      BY <1>1, <1>2, LimitsAssumption DEF TypeOK
    <3>2. requested \in BOOLEAN
      BY <1>1 DEF TypeOK
    <3>3. requested' \in BOOLEAN
      BY <1>2, <3>2, Zenon
    <3> QED BY <3>1, <3>3
  <2>3. /\ thread' \in [Thread -> ThreadState]
        /\ \A u \in Thread :
             thread'[u].pc \in {"mark", "commit", "bump", "check", "drop"}
               => thread'[u].chat \in Chat
    <3>1. [Idle EXCEPT !.pc = "bump", !.chat = c] \in ThreadState
      BY <1>3 DEF Idle, ThreadState, Kind
    <3>2. [Idle EXCEPT !.pc = "bump", !.chat = c].chat = c
      BY DEF Idle
    <3> QED
      BY <1>1, <1>2, <1>3, <3>1, <3>2 DEF TypeOK
  <2>4. notice' \in [Chat -> {"none", "written", "lost"}]
    BY <1>1, <1>2, <1>3 DEF TypeOK
  <2> QED
    BY <1>1, <1>2, <2>1, <2>2, <2>3, <2>4 DEF TypeOK
<1>9. \A d \in Chat :
         /\ d = c  => row'[d] = r /\ events'[d] = events[d] \cup {e}
         /\ d # c  => row'[d] = row[d] /\ events'[d] = events[d]
  BY <1>1, <1>2 DEF TypeOK
<1>10. WellFormedLog'
  <2>1. \A f \in events[c] : f.seq \in Nat /\ f.seq <= row[c].latest
    BY <1>1, <1>3 DEF TypeOK, Event, WellFormedLog
  <2>2. row[c].floor \in Nat /\ row[c].floor <= row[c].latest
    BY <1>1, <1>3, <1>4 DEF Row, WellFormedLog
  <2> QED
    BY <1>1, <1>2, <1>4, <1>6, <1>7, <1>9, <2>1, <2>2 DEF WellFormedLog, Present
<1>11. NoHoles'
  <2> SUFFICES ASSUME NEW d \in Chat, NEW n \in row'[d].floor + 1 .. row'[d].latest
               PROVE  n \in Seqs(events'[d])
    BY DEF NoHoles, Seqs
  <2>1. CASE d # c
    BY <1>1, <1>9, <2>1 DEF NoHoles
  <2>2. CASE d = c
    <3>1. n \in row[c].floor + 1 .. row[c].latest \/ n = row[c].latest + 1
      BY <1>4, <1>6, <1>9, <2>2 DEF Row
    <3> QED
      BY <1>1, <1>3, <1>7, <1>9, <2>2, <3>1 DEF NoHoles, Seqs
  <2> QED
    BY <2>1, <2>2
<1> QED
  BY <1>8, <1>10, <1>11

\* Histories stay histories.
LEMMA LoseType ==
    ASSUME TypeOK, NEW T
    PROVE  Lose(T) \in [Chat -> {"none", "written", "lost"}]
BY DEF TypeOK, Lose

\* Entering a call, with a clock reading.
LEMMA EnterType ==
    ASSUME TypeOK, NEW t \in Thread, NEW c \in Chat \cup {NoChat},
           NEW pc \in {"mark", "commit", "sweep"}, NEW kind \in Kind,
           pc = "sweep" \/ c \in Chat, Enter(t, pc, kind, c),
           UNCHANGED <<clock, durable, since, requested, tailers, notice>>
    PROVE  TypeOK'
<1> DEFINE s == [Idle EXCEPT !.pc = pc, !.kind = kind, !.chat = c, !.ts = clock]
<1>1. s \in ThreadState /\ s.pc = pc /\ s.chat = c
  BY DEF TypeOK, Idle, ThreadState, Kind
<1>2. thread' = [thread EXCEPT ![t] = s]
  BY DEF Enter
<1> HIDE DEF s
<1>3. thread' \in [Thread -> ThreadState]
  BY <1>1, <1>2 DEF TypeOK
<1> QED
  BY <1>1, <1>2, <1>3 DEF TypeOK, durable

\* Steps that touch the state of one caller, the counters of the process or
\* the clock, and no table.
LEMMA LocalStepKeepsIInv ==
    ASSUME IInv,
           \/ Tick \/ ConsumeSweepRequested
           \/ \E c \in Chat : Attach(c) \/ Detach(c)
           \/ \E t \in Thread :
                \/ AppendFails(t) \/ Bump(t) \/ BeginSweep(t) \/ ScanTailers(t)
                \/ SweepFails(t) \/ CheckEmpty(t)
                \/ \E c \in Chat : Call(t, c)
    PROVE  IInv'
<1>1. TypeOK /\ WellFormedLog /\ NoHoles
  BY DEF IInv
<1>2. UNCHANGED durable
  BY DEF Tick, ConsumeSweepRequested, Attach, Detach, AppendFails, Bump,
         BeginSweep, ScanTailers, SweepFails, CheckEmpty, Call, BeginAppend,
         BeginDelete, BeginDrop, durable
<1>3. WellFormedLog' /\ NoHoles'
  BY <1>2, TablesUnchanged
<1>4. Idle \in ThreadState /\ Idle.pc = "idle"
  BY DEF Idle, ThreadState, Kind
<1>5. TypeOK'
  <2>1. CASE Tick
    BY <1>1, <2>1 DEF TypeOK, Tick
  <2>2. CASE ConsumeSweepRequested
    BY <1>1, <2>2 DEF TypeOK, ConsumeSweepRequested, durable
  <2>3. ASSUME NEW c \in Chat, Attach(c) \/ Detach(c) PROVE TypeOK'
    BY <1>1, <2>3 DEF TypeOK, Attach, Detach, durable
  <2>4. ASSUME NEW t \in Thread, AppendFails(t) PROVE TypeOK'
    BY <1>1, <1>4, <2>4, LoseType DEF TypeOK, AppendFails, durable
  <2>5. ASSUME NEW t \in Thread, Bump(t) \/ SweepFails(t) PROVE TypeOK'
    BY <1>1, <1>4, <2>5 DEF TypeOK, Bump, SweepFails, durable
  <2>6. ASSUME NEW t \in Thread, BeginSweep(t) PROVE TypeOK'
    BY <1>1, <2>6, EnterType DEF BeginSweep, Kind
  <2>7. ASSUME NEW t \in Thread, ScanTailers(t) PROVE TypeOK'
    <3> DEFINE s == [thread[t] EXCEPT !.pc = "gc",
                                      !.active = {c \in Chat : tailers[c] > 0}]
    <3>1. s \in ThreadState /\ s.pc = "gc"
      BY <1>1 DEF TypeOK, ThreadState
    <3>2. thread' = [thread EXCEPT ![t] = s]
      BY <1>1, <2>7 DEF ScanTailers, TypeOK
    <3> HIDE DEF s
    <3> QED
      BY <1>1, <2>7, <3>1, <3>2 DEF TypeOK, ScanTailers, durable
  <2>8. ASSUME NEW t \in Thread, CheckEmpty(t) PROVE TypeOK'
    <3>1. thread[t].chat \in Chat /\ thread[t] \in ThreadState
      BY <1>1, <2>8 DEF TypeOK, CheckEmpty
    <3>2. [thread[t] EXCEPT !.pc = "drop"] \in ThreadState
      BY <3>1 DEF ThreadState
    <3>3. [thread[t] EXCEPT !.pc = "drop"].chat = thread[t].chat
      BY <3>1 DEF ThreadState
    <3> QED
      BY <1>1, <1>4, <2>8, <3>1, <3>2, <3>3 DEF TypeOK, CheckEmpty, durable
  <2>9. ASSUME NEW t \in Thread, NEW c \in Chat, BeginAppend(t, c) \/ BeginDelete(t, c)
        PROVE  TypeOK'
    BY <1>1, <2>9, EnterType DEF BeginAppend, BeginDelete, Kind
  <2>10. ASSUME NEW t \in Thread, NEW c \in Chat, BeginDrop(t, c) PROVE TypeOK'
    <3> DEFINE s == [Idle EXCEPT !.pc = "check", !.chat = c]
    <3>1. s \in ThreadState /\ s.pc = "check" /\ s.chat = c
      BY DEF Idle, ThreadState, Kind
    <3>2. thread' = [thread EXCEPT ![t] = s]
      BY <2>10 DEF BeginDrop
    <3> HIDE DEF s
    <3> QED
      BY <1>1, <2>10, <3>1, <3>2 DEF TypeOK, BeginDrop, durable
  <2> QED
    BY <2>1, <2>2, <2>3, <2>4, <2>5, <2>6, <2>7, <2>8, <2>9, <2>10 DEF Call
<1> QED
  BY <1>3, <1>5 DEF IInv

\* The first transaction of mark_deleted.
LEMMA MarkDeletedKeepsIInv ==
    ASSUME IInv, NEW t \in Thread, MarkDeleted(t)
    PROVE  IInv'
<1> DEFINE c == thread[t].chat
           ts == thread[t].ts
           r == [row[c] EXCEPT !.status = "deleted", !.deletedAt = ts,
                               !.updatedAt = ts]
           s == [thread[t] EXCEPT !.pc = "commit"]
<1>1. TypeOK /\ WellFormedLog /\ NoHoles
  BY DEF IInv
<1>2. c \in Chat /\ ts \in Nat /\ thread[t] \in ThreadState /\ row[c] \in Row
  BY <1>1 DEF MarkDeleted, TypeOK, ThreadState
<1>3. row' = [row EXCEPT ![c] = r] /\ thread' = [thread EXCEPT ![t] = s]
  BY <1>1, <1>2 DEF MarkDeleted, TypeOK
<1>4. UNCHANGED <<clock, events, acked, dedup, since, requested, tailers, notice>>
  BY DEF MarkDeleted
<1>5. /\ r \in Row /\ r.status = "deleted"
      /\ r.latest = row[c].latest /\ r.floor = row[c].floor
  BY <1>2 DEF Row
<1>6. s \in ThreadState /\ s.pc = "commit" /\ s.chat = c
  BY <1>2 DEF ThreadState
<1> HIDE DEF c, ts, r, s
<1>7. TypeOK'
  BY <1>1, <1>2, <1>3, <1>4, <1>5, <1>6 DEF TypeOK
<1>8. WellFormedLog' /\ NoHoles'
  BY <1>1, <1>2, <1>3, <1>4, <1>5 DEF TypeOK, WellFormedLog, NoHoles, Present, Seqs
<1> QED
  BY <1>7, <1>8 DEF IInv

\* The transaction of a sweep run by a caller.
LEMMA SweepKeepsIInv ==
    ASSUME IInv, NEW t \in Thread, Sweep(t)
    PROVE  IInv'
<1>1. TypeOK
  BY DEF IInv
<1>2. thread[t].ts \in Nat /\ notice \in [Chat -> {"none", "written", "lost"}]
  BY <1>1 DEF TypeOK, ThreadState
<1>3. SweepTxn(thread[t].ts, thread[t].active, notice)
  BY DEF Sweep
<1>4. TablesOK' /\ WellFormedLog' /\ NoHoles'
  BY <1>2, <1>3, SweepKeepsTables
<1>5. [Idle EXCEPT !.pc = "bump_all"] \in ThreadState
      /\ [Idle EXCEPT !.pc = "bump_all"].pc = "bump_all"
  BY DEF Idle, ThreadState, Kind
<1>6. since' \in 0..GcInterval /\ requested' \in BOOLEAN
  <2>1. since' = 0 /\ requested' = FALSE
    BY DEF Sweep
  <2>2. 0 \in 0..GcInterval
    BY LimitsAssumption
  <2> QED
    BY <2>1, <2>2
<1>7. thread' = [thread EXCEPT ![t] = [Idle EXCEPT !.pc = "bump_all"]]
      /\ clock' = clock /\ tailers' = tailers
  BY DEF Sweep
<1>8. TypeOK'
  BY <1>1, <1>4, <1>5, <1>6, <1>7 DEF TypeOK, TablesOK
<1> QED
  BY <1>4, <1>8 DEF IInv

\* Cursors and deduplication.
LEMMA SideTablesKeepIInv ==
    ASSUME IInv,
           \/ \E c \in Chat, k \in Client, s \in Nat : Acknowledge(c, k, s)
           \/ \E c \in Chat, m \in Msg : DedupRecord(c, m) \/ DedupForget(c, m)
    PROVE  IInv'
<1>1. TypeOK /\ WellFormedLog /\ NoHoles
  BY DEF IInv
<1>2. ASSUME NEW c \in Chat, NEW k \in Client, NEW s \in Nat, Acknowledge(c, k, s)
      PROVE  IInv'
  <2>1. /\ Present(c)
        /\ acked' = [acked EXCEPT ![c][k] = Larger(acked[c][k], s)]
        /\ UNCHANGED <<clock, row, events, dedup, since, requested, tailers,
                       thread, notice>>
    BY <1>2 DEF Acknowledge
  <2>2. Larger(acked[c][k], s) \in Nat
    BY <1>1 DEF TypeOK, Larger
  <2>3. TypeOK'
    BY <1>1, <2>1, <2>2 DEF TypeOK
  <2>4. WellFormedLog' /\ NoHoles'
    BY <1>1, <2>1 DEF TypeOK, WellFormedLog, NoHoles, Present
  <2> QED
    BY <2>3, <2>4 DEF IInv
<1>3. ASSUME NEW c \in Chat, NEW m \in Msg, DedupRecord(c, m)
      PROVE  IInv'
  <2> DEFINE d == [chat |-> c, msg |-> m, expires |-> clock + DedupTtl]
  <2>1. /\ row' = IF Present(c) THEN row ELSE [row EXCEPT ![c] = NewRow(clock)]
        /\ dedup' = (dedup \ DedupOf(c, m)) \cup {d}
        /\ UNCHANGED <<clock, events, acked, since, requested, tailers, thread,
                       notice>>
    BY <1>3 DEF DedupRecord
  <2>2. d \in Dedup /\ d.chat = c
    BY <1>1, LimitsAssumption DEF TypeOK, Dedup
  <2>3. /\ NewRow(clock) \in Row /\ NewRow(clock).status = "live"
        /\ NewRow(clock).latest = 0 /\ NewRow(clock).floor = 0
    BY <1>1 DEF TypeOK, NewRow, NoRow, Row
  <2> HIDE DEF d
  <2>4. TypeOK'
    BY <1>1, <2>1, <2>2, <2>3 DEF TypeOK
  <2>5. row'[c].status # "absent" /\ \A b \in Chat \ {c} : row'[b] = row[b]
    BY <1>1, <2>1, <2>3 DEF TypeOK, Present
  <2>6. row'[c].latest = row[c].latest /\ row'[c].floor = row[c].floor
    <3>1. CASE Present(c)
      BY <2>1, <3>1
    <3>2. CASE ~Present(c)
      <4>1. row[c] = NoRow
        BY <1>1, <3>2 DEF WellFormedLog
      <4>2. row'[c] = NewRow(clock)
        BY <1>1, <2>1, <3>2 DEF TypeOK
      <4> QED
        BY <2>3, <4>1, <4>2 DEF NoRow
    <3> QED
      BY <3>1, <3>2
  <2>7. WellFormedLog'
    BY <1>1, <2>1, <2>2, <2>5, <2>6 DEF WellFormedLog, Present
  <2>8. NoHoles'
    BY <1>1, <2>1, <2>5, <2>6 DEF NoHoles
  <2> QED
    BY <2>4, <2>7, <2>8 DEF IInv
<1>4. ASSUME NEW c \in Chat, NEW m \in Msg, DedupForget(c, m)
      PROVE  IInv'
  BY <1>1, <1>4 DEF DedupForget, IInv, TypeOK, WellFormedLog, NoHoles, Present
<1> QED
  BY <1>2, <1>3, <1>4

\* The drop of a chat's row, and what a restart does to the tables.
LEMMA RemovalKeepsIInv ==
    ASSUME IInv,
           (\E t \in Thread : Drop(t)) \/ Restart \/ RestartAfterCorruption
    PROVE  IInv'
<1>1. TypeOK /\ WellFormedLog /\ NoHoles
  BY DEF IInv
<1>2. Idle \in ThreadState /\ Idle.pc = "idle"
  BY DEF Idle, ThreadState, Kind
<1>3. /\ NoRow \in Row /\ NoRow.status = "absent"
      /\ NoRow.floor = 0 /\ NoRow.latest = 0
  BY DEF NoRow, Row
<1>4. NoCursors \in [Client -> Nat]
  BY DEF NoCursors
<1> DEFINE ProcessOK ==
             /\ clock \in Nat /\ since \in 0..GcInterval
             /\ requested \in BOOLEAN /\ tailers \in [Chat -> Nat]
             /\ thread \in [Thread -> ThreadState]
             /\ \A t \in Thread : thread[t].pc = "idle"
<1>8. ASSUME Volatile PROVE ProcessOK'
  <2>1. 0 \in 0..GcInterval
    BY LimitsAssumption
  <2> QED
    BY <1>1, <1>2, <1>8, <2>1 DEF Volatile, TypeOK
<1>5. ASSUME NEW t \in Thread, Drop(t) PROVE IInv'
  <2> DEFINE c == thread[t].chat
  <2>1. c \in Chat
    BY <1>1, <1>5 DEF Drop, TypeOK
  <2>2. /\ row' = [row EXCEPT ![c] = NoRow]
        /\ events' = [events EXCEPT ![c] = {}]
        /\ acked' = [acked EXCEPT ![c] = NoCursors]
        /\ dedup' = {d \in dedup : d.chat # c}
        /\ tailers' = [tailers EXCEPT ![c] = 0]
        /\ notice' = [notice EXCEPT ![c] = "none"]
        /\ thread' = [thread EXCEPT ![t] = Idle]
        /\ UNCHANGED <<clock, since, requested>>
    BY <1>5 DEF Drop
  <2> HIDE DEF c
  <2>3. TypeOK'
    BY <1>1, <1>2, <1>3, <1>4, <2>1, <2>2 DEF TypeOK
  <2>4. /\ row'[c] = NoRow /\ events'[c] = {} /\ acked'[c] = NoCursors
        /\ \A d \in dedup' : d.chat # c
        /\ \A b \in Chat \ {c} :
              row'[b] = row[b] /\ events'[b] = events[b] /\ acked'[b] = acked[b]
    BY <1>1, <2>1, <2>2 DEF TypeOK
  <2>5. WellFormedLog'
    BY <1>1, <1>3, <2>2, <2>4 DEF WellFormedLog, Present
  <2>6. NoHoles'
    BY <1>1, <1>3, <2>4 DEF NoHoles, Seqs
  <2> QED
    BY <2>3, <2>5, <2>6 DEF IInv
<1>6. ASSUME Restart PROVE IInv'
  <2>1. TablesOK' /\ WellFormedLog' /\ NoHoles'
    <3>1. CASE UNCHANGED <<row, events, acked, dedup>> /\ notice' = Lose(Thread)
      <4>1. TablesOK'
        BY <1>1, <3>1, LoseType DEF TypeOK, TablesOK
      <4> QED
        BY <3>1, <4>1, TablesUnchanged DEF durable
    <3>2. CASE SweepTxn(clock, {}, Lose(Thread))
      BY <1>1, <3>2, LoseType, SweepKeepsTables DEF TypeOK
    <3> QED
      BY <1>6, <3>1, <3>2 DEF Restart
  <2>2. TypeOK'
    BY <1>6, <1>8, <2>1 DEF Restart, TypeOK, TablesOK
  <2> QED
    BY <2>1, <2>2 DEF IInv
<1>7. ASSUME RestartAfterCorruption PROVE IInv'
  <2>1. TypeOK'
    BY <1>3, <1>4, <1>7, <1>8 DEF RestartAfterCorruption, TypeOK
  <2>2. WellFormedLog'
    BY <1>3, <1>7 DEF RestartAfterCorruption, WellFormedLog, Present
  <2>3. NoHoles'
    BY <1>3, <1>7 DEF RestartAfterCorruption, NoHoles, Seqs
  <2> QED
    BY <2>1, <2>2, <2>3 DEF IInv
<1> QED
  BY <1>5, <1>6, <1>7

\* IInv holds at the start and is kept by every step.
LEMMA InitIInv == Init => IInv
<1> SUFFICES ASSUME Init PROVE IInv
  OBVIOUS
<1>1. Idle \in ThreadState /\ Idle.pc = "idle"
  BY DEF Idle, ThreadState, Kind
<1>2. /\ NoRow \in Row /\ NoRow.status = "absent"
      /\ NoRow.floor = 0 /\ NoRow.latest = 0
  BY DEF NoRow, Row
<1>3. TypeOK
  <2>1. 0 \in 0..GcInterval
    BY LimitsAssumption
  <2>2. NoCursors \in [Client -> Nat]
    BY DEF NoCursors
  <2> QED
    BY <1>1, <1>2, <2>1, <2>2 DEF Init, TypeOK
<1>4. WellFormedLog
  BY <1>2 DEF Init, WellFormedLog, Present
<1>5. NoHoles
  BY <1>2 DEF Init, NoHoles, Seqs
<1> QED
  BY <1>3, <1>4, <1>5 DEF IInv

\* Every call, sweep, restart and removal keeps the inductive invariant.
LEMMA NextIInv == IInv /\ [Next]_vars => IInv'
<1> SUFFICES ASSUME IInv, [Next]_vars PROVE IInv'
  OBVIOUS
<1>1. CASE UNCHANGED vars
  BY <1>1 DEF vars, IInv, TypeOK, WellFormedLog, NoHoles, Present, Seqs
<1>2. CASE Next
  <2>1. CASE \/ Tick \/ ConsumeSweepRequested
             \/ \E c \in Chat : Attach(c) \/ Detach(c)
             \/ \E t \in Thread :
                  \/ AppendFails(t) \/ Bump(t) \/ BeginSweep(t)
                  \/ ScanTailers(t) \/ SweepFails(t) \/ CheckEmpty(t)
                  \/ \E c \in Chat : Call(t, c)
    BY <2>1, LocalStepKeepsIInv
  <2>2. ASSUME NEW t \in Thread, MarkDeleted(t) PROVE IInv'
    BY <2>2, MarkDeletedKeepsIInv
  <2>3. ASSUME NEW t \in Thread, Append(t) PROVE IInv'
    BY <2>3, AppendKeepsLog DEF IInv
  <2>4. ASSUME NEW t \in Thread, Sweep(t) PROVE IInv'
    BY <2>4, SweepKeepsIInv
  <2>5. CASE \/ (\E t \in Thread : Drop(t)) \/ Restart \/ RestartAfterCorruption
    BY <2>5, RemovalKeepsIInv
  <2>6. CASE \/ \E c \in Chat, k \in Client, s \in 1..(MaxSeq + 1) :
                   Acknowledge(c, k, s)
             \/ \E c \in Chat, m \in Msg : DedupRecord(c, m) \/ DedupForget(c, m)
    <3>1. 1..(MaxSeq + 1) \subseteq Nat
      BY LimitsAssumption
    <3> QED
      BY <2>6, <3>1, SideTablesKeepIInv
  <2> QED
    BY <1>2, <2>1, <2>2, <2>3, <2>4, <2>5, <2>6 DEF Next, ThreadStep
<1> QED
  BY <1>1, <1>2

-----------------------------------------------------------------------------
(* Steps move logs forward                                                  *)

\* What a sweep leaves of a chat that survives it continues the chat's log.
LEMMA SweepMovesForward ==
    ASSUME IInv, NEW ts \in Nat, NEW active, NEW told,
           SweepTxn(ts, active, told), NEW c \in Chat
    PROVE  LogMovesForward(c)
<1>1. PICK victims \in SUBSET Countable : Collect(ts, victims, told)
  BY DEF SweepTxn
<1>2. TypeOK /\ WellFormedLog
  BY DEF IInv
<1> SUFFICES ASSUME SameLife(c) PROVE LogMovesForward(c)
  BY DEF LogMovesForward
<1>3. row[c] \in Row /\ row[c].latest \in Nat /\ row[c].floor \in Nat
      /\ row[c].floor <= row[c].latest
  BY <1>2 DEF TypeOK, Row, WellFormedLog
<1>4. \A e \in events[c] : e.seq \in Nat /\ e.seq <= row[c].latest
  BY <1>2 DEF TypeOK, Event, WellFormedLog
<1>5. c \notin Buried(ts)
  <2> SUFFICES ASSUME c \in Buried(ts) PROVE FALSE
    OBVIOUS
  <2>1. c \notin victims
    BY DEF Buried, Countable, Deleted, Live
  <2>2. row'[c] = NoRow
    BY <1>1, <2>1 DEF Collect
  <2> QED
    BY <2>2 DEF SameLife, Present, NoRow
<1>6. \A k \in Client : acked[c][k] \in Nat /\ acked'[c][k] = acked[c][k]
  BY <1>1, <1>2, <1>5 DEF Collect, TypeOK
<1>7. CASE c \in victims
  <2>1. row'[c] = TombstoneRow(c, ts) /\ events'[c] = {Tombstone(c, ts)}
    BY <1>1, <1>5, <1>7 DEF Collect
  <2>2. row'[c].latest = row[c].latest + 1 /\ row'[c].floor = row[c].latest
        /\ row'[c].status = "deleted"
    BY <2>1 DEF TombstoneRow, NextSeq
  <2>3. Tombstone(c, ts).seq = row[c].latest + 1
    BY DEF Tombstone, NextSeq
  <2> QED
    BY <1>3, <1>4, <1>6, <2>1, <2>2, <2>3 DEF LogMovesForward, Deleted
<1>8. CASE c \notin victims
  <2>1. row'[c] = TrimmedRow(c, ts) /\ events'[c] = Trimmed(c, ts)
    BY <1>1, <1>5, <1>8 DEF Collect
  <2>2. /\ TrimmedRow(c, ts).latest = row[c].latest
        /\ TrimmedRow(c, ts).floor >= row[c].floor
        /\ TrimmedRow(c, ts).status = row[c].status
        /\ Trimmed(c, ts) \subseteq events[c]
        /\ \A e \in events[c] \ Trimmed(c, ts) :
              e.seq <= TrimmedRow(c, ts).floor
    BY <1>2, TrimLeavesSuffix
  <2> QED
    BY <1>3, <1>6, <2>1, <2>2 DEF LogMovesForward, Deleted
<1> QED
  BY <1>7, <1>8

\* A step that leaves a chat's row, events and cursors alone.
LEMMA SameMovesForward ==
    ASSUME IInv, NEW c \in Chat, row'[c] = row[c], events'[c] = events[c],
           acked'[c] = acked[c]
    PROVE  LogMovesForward(c)
<1>1. row[c].latest \in Nat /\ row[c].floor \in Nat
      /\ \A k \in Client : acked[c][k] \in Nat
  BY DEF IInv, TypeOK, Row
<1> QED
  BY <1>1 DEF LogMovesForward, Deleted

\* No step takes a log backwards while its row lives.
LEMMA NextMovesForward ==
    ASSUME IInv, Next, NEW c \in Chat
    PROVE  LogMovesForward(c)
<1>0. TypeOK /\ WellFormedLog
  BY DEF IInv
<1>1. row[c] \in Row /\ row[c].latest \in Nat /\ row[c].floor \in Nat
      /\ \A k \in Client : acked[c][k] \in Nat
  BY <1>0 DEF TypeOK, Row
<1>2. CASE UNCHANGED <<row, events, acked>>
  BY <1>2, SameMovesForward
<1>3. ASSUME NEW t \in Thread, MarkDeleted(t) PROVE LogMovesForward(c)
  <2>1. events' = events /\ acked' = acked
        /\ row' = [row EXCEPT ![thread[t].chat].status = "deleted",
                              ![thread[t].chat].deletedAt = thread[t].ts,
                              ![thread[t].chat].updatedAt = thread[t].ts]
    BY <1>3 DEF MarkDeleted
  <2>2. row'[c].latest = row[c].latest /\ row'[c].floor = row[c].floor
        /\ (Deleted(c) => row'[c].status = "deleted")
    BY <1>0, <1>1, <2>1 DEF TypeOK, Row, Deleted
  <2> QED
    BY <1>1, <2>1, <2>2 DEF LogMovesForward, Deleted
<1>4. ASSUME NEW t \in Thread, Append(t) PROVE LogMovesForward(c)
  <2> DEFINE b == thread[t].chat
             base == IF Present(b) THEN row[b] ELSE NewRow(thread[t].ts)
             r == [base EXCEPT !.latest = NextSeq(b), !.updatedAt = thread[t].ts]
             e == [seq |-> NextSeq(b), kind |-> thread[t].kind, at |-> thread[t].ts]
  <2>1. /\ events' = [events EXCEPT ![b] = @ \cup {e}]
        /\ row' = [row EXCEPT ![b] = r]
        /\ acked' = acked
    BY <1>4 DEF Append
  <2>2. CASE c # b
    BY <1>0, <2>1, <2>2, SameMovesForward DEF TypeOK
  <2>3. CASE c = b
    <3> SUFFICES ASSUME Present(c) PROVE LogMovesForward(c)
      BY DEF LogMovesForward, SameLife
    <3>1. row'[c] = [row[c] EXCEPT !.latest = row[c].latest + 1,
                                   !.updatedAt = thread[t].ts]
      BY <1>0, <2>1, <2>3 DEF TypeOK, NextSeq
    <3>2. row'[c].latest = row[c].latest + 1 /\ row'[c].floor = row[c].floor
          /\ row'[c].status = row[c].status
      BY <1>1, <3>1 DEF Row
    <3>3. events'[c] = events[c] \cup {e} /\ e.seq = row[c].latest + 1
      BY <1>0, <2>1, <2>3 DEF TypeOK, NextSeq
    <3> HIDE DEF e
    <3> QED
      BY <1>1, <2>1, <3>2, <3>3 DEF LogMovesForward, Deleted
  <2> QED
    BY <2>2, <2>3
<1>5. ASSUME NEW t \in Thread, Sweep(t) PROVE LogMovesForward(c)
  <2>1. thread[t].ts \in Nat
    BY <1>0 DEF TypeOK, ThreadState
  <2>2. SweepTxn(thread[t].ts, thread[t].active, notice)
    BY <1>5 DEF Sweep
  <2> QED
    BY <2>1, <2>2, SweepMovesForward
<1>6. ASSUME NEW t \in Thread, Drop(t) PROVE LogMovesForward(c)
  <2> DEFINE b == thread[t].chat
  <2>1. /\ row' = [row EXCEPT ![b] = NoRow]
        /\ events' = [events EXCEPT ![b] = {}]
        /\ acked' = [acked EXCEPT ![b] = NoCursors]
    BY <1>6 DEF Drop
  <2>2. CASE c # b
    BY <1>0, <2>1, <2>2, SameMovesForward DEF TypeOK
  <2>3. CASE c = b
    BY <1>0, <2>1, <2>3 DEF TypeOK, LogMovesForward, SameLife, Present, NoRow
  <2> QED
    BY <2>2, <2>3
<1>7. ASSUME NEW b \in Chat, NEW k \in Client, NEW s \in 1..(MaxSeq + 1),
             Acknowledge(b, k, s)
      PROVE  LogMovesForward(c)
  <2>0. s \in Nat
    BY LimitsAssumption
  <2>1. acked' = [acked EXCEPT ![b][k] = Larger(acked[b][k], s)]
        /\ row' = row /\ events' = events
    BY <1>7 DEF Acknowledge
  <2>2. \A j \in Client : acked'[c][j] >= acked[c][j]
    BY <1>0, <1>1, <2>0, <2>1 DEF TypeOK, Larger
  <2> QED
    BY <1>1, <2>1, <2>2 DEF LogMovesForward, Deleted
<1>8. ASSUME NEW b \in Chat, NEW m \in Msg, DedupRecord(b, m)
      PROVE  LogMovesForward(c)
  <2>1. row' = IF Present(b) THEN row ELSE [row EXCEPT ![b] = NewRow(clock)]
    BY <1>8 DEF DedupRecord
  <2>2. events' = events /\ acked' = acked
    BY <1>8 DEF DedupRecord
  <2>3. CASE Present(c)
    <3>1. row'[c] = row[c]
      BY <1>0, <2>1, <2>3 DEF TypeOK
    <3> QED
      BY <2>2, <3>1, SameMovesForward
  <2> QED
    BY <2>3 DEF LogMovesForward, SameLife
<1>9. ASSUME Restart PROVE LogMovesForward(c)
  <2>1. CASE UNCHANGED <<row, events, acked, dedup>>
    BY <2>1, SameMovesForward
  <2>2. CASE SweepTxn(clock, {}, Lose(Thread))
    BY <1>0, <2>2, SweepMovesForward DEF TypeOK
  <2> QED
    BY <1>9, <2>1, <2>2 DEF Restart
<1>10. ASSUME RestartAfterCorruption PROVE LogMovesForward(c)
  BY <1>10 DEF RestartAfterCorruption, LogMovesForward, SameLife, Present, NoRow
<1> QED
  <2>1. CASE Tick \/ ConsumeSweepRequested
    BY <1>2, <2>1 DEF Tick, ConsumeSweepRequested, durable
  <2>2. CASE \E b \in Chat : Attach(b) \/ Detach(b)
    BY <1>2, <2>2 DEF Attach, Detach, durable
  <2>3. CASE \E b \in Chat, m \in Msg : DedupForget(b, m)
    BY <1>2, <2>3 DEF DedupForget
  <2>4. CASE \E t \in Thread :
                \/ AppendFails(t) \/ Bump(t) \/ BeginSweep(t) \/ ScanTailers(t)
                \/ SweepFails(t) \/ CheckEmpty(t)
                \/ \E b \in Chat : Call(t, b)
    BY <1>2, <2>4 DEF AppendFails, Bump, BeginSweep, ScanTailers, SweepFails,
         CheckEmpty, Call, BeginAppend, BeginDelete, BeginDrop, durable
  <2> QED
    BY <1>3, <1>4, <1>5, <1>6, <1>7, <1>8, <1>9, <1>10,
       <2>1, <2>2, <2>3, <2>4 DEF Next, ThreadStep

-----------------------------------------------------------------------------
(* Announced deletions                                                      *)

\* DeletionAnnounced is inductive once it is known that a call about to mark
\* a row is one that announces the deletion next.
DInv ==
    /\ TypeOK
    /\ DeletionAnnounced
    /\ \A t \in Thread : thread[t].pc = "mark" => thread[t].kind = "chat.deleted"

\* A caller that leaves the announcing state without having written the event
\* is recorded as having lost it.
LEMMA LoseCovers ==
    ASSUME DInv, NEW T, NEW c \in Chat, Deleted(c),
           \A t \in Thread \ T : Announcing(c, t) => Announcing(c, t)'
    PROVE  \/ Lose(T)[c] \in {"written", "lost"}
           \/ \E t \in Thread : Announcing(c, t)'
<1>1. Lose(T)[c] = IF /\ notice[c] = "none" /\ Deleted(c)
                      /\ \E t \in T : Announcing(c, t)
                   THEN "lost" ELSE notice[c]
  BY DEF Lose
<1>2. notice[c] \in {"written", "lost"} \/ \E t \in Thread : Announcing(c, t)
  BY DEF DInv, DeletionAnnounced
<1>3. notice[c] \in {"none", "written", "lost"}
  BY DEF DInv, TypeOK
<1> QED
  BY <1>1, <1>2, <1>3

\* Sweeps announce the deletions they make themselves.
LEMMA SweepAnnounces ==
    ASSUME TypeOK, NEW ts \in Nat, NEW active, NEW told,
           SweepTxn(ts, active, told), NEW c \in Chat, Deleted(c)'
    PROVE  notice'[c] = "written" \/ (Deleted(c) /\ notice'[c] = told[c])
<1>1. PICK victims \in SUBSET Countable : Collect(ts, victims, told)
  BY DEF SweepTxn
<1>2. c \notin Buried(ts)
  <2> SUFFICES ASSUME c \in Buried(ts) PROVE FALSE
    OBVIOUS
  <2>1. c \notin victims
    BY DEF Buried, Countable, Deleted, Live
  <2>2. row'[c] = NoRow
    BY <1>1, <2>1 DEF Collect
  <2> QED
    BY <2>2 DEF Deleted, NoRow
<1>3. CASE c \in victims
  BY <1>1, <1>2, <1>3 DEF Collect
<1>4. CASE c \notin victims
  <2>1. row'[c] = TrimmedRow(c, ts) /\ notice'[c] = told[c]
    BY <1>1, <1>2, <1>4 DEF Collect
  <2>2. TrimmedRow(c, ts).status = row[c].status
    BY DEF TypeOK, Row, TrimmedRow
  <2> QED
    BY <2>1, <2>2 DEF Deleted
<1> QED
  BY <1>3, <1>4

\* A step that changes no row, moves no caller out of the announcing state
\* and rewrites no history.
LEMMA QuietAnnounces ==
    ASSUME DInv, NEW c \in Chat, Deleted(c)', row'[c].status = row[c].status,
           notice'[c] = notice[c],
           \A t \in Thread : Announcing(c, t) => Announcing(c, t)'
    PROVE  \/ notice'[c] \in {"written", "lost"}
           \/ \E t \in Thread : Announcing(c, t)'
BY DEF DInv, DeletionAnnounced, Deleted

\* No step leaves a deleted chat without its event or someone to write it.
LEMMA NextAnnounces ==
    ASSUME IInv, DInv, Next, NEW c \in Chat, Deleted(c)'
    PROVE  \/ notice'[c] \in {"written", "lost"}
           \/ \E t \in Thread : Announcing(c, t)'
<1> DEFINE Goal == \/ notice'[c] \in {"written", "lost"}
                   \/ \E t \in Thread : Announcing(c, t)'
<1>0. TypeOK /\ WellFormedLog
  BY DEF IInv
<1>1. ASSUME NEW t \in Thread, MarkDeleted(t) PROVE Goal
  <2>1. thread[t].kind = "chat.deleted" /\ thread[t].chat \in Chat
    BY <1>0, <1>1 DEF DInv, MarkDeleted, TypeOK
  <2>2. notice' = notice /\ thread' = [thread EXCEPT ![t].pc = "commit"]
    BY <1>1 DEF MarkDeleted
  <2>3. thread'[t].pc = "commit" /\ thread'[t].kind = thread[t].kind
        /\ thread'[t].chat = thread[t].chat
        /\ \A u \in Thread \ {t} : thread'[u] = thread[u]
    BY <1>0, <2>2 DEF TypeOK, ThreadState
  <2>4. CASE c = thread[t].chat
    BY <2>1, <2>3, <2>4 DEF Announcing
  <2>5. CASE c # thread[t].chat
    <3>1. row'[c] = row[c]
      BY <1>0, <1>1, <2>1, <2>5 DEF MarkDeleted, TypeOK
    <3>2. \A u \in Thread : Announcing(c, u) => Announcing(c, u)'
      BY <2>3 DEF Announcing
    <3> QED
      BY <2>2, <3>1, <3>2, QuietAnnounces
  <2> QED
    BY <2>4, <2>5
<1>2. ASSUME NEW t \in Thread, Append(t) PROVE Goal
  <2> DEFINE b == thread[t].chat
             base == IF Present(b) THEN row[b] ELSE NewRow(thread[t].ts)
  <2>1. /\ b \in Chat
        /\ row' = [row EXCEPT ![b] = [base EXCEPT !.latest = NextSeq(b),
                                                  !.updatedAt = thread[t].ts]]
        /\ thread' = [thread EXCEPT ![t] = [Idle EXCEPT !.pc = "bump", !.chat = b]]
        /\ notice' = IF thread[t].kind = "chat.deleted"
                     THEN [notice EXCEPT ![b] = "written"] ELSE notice
    BY <1>0, <1>2 DEF Append, TypeOK
  <2>2. \A u \in Thread \ {t} : thread'[u] = thread[u]
    BY <1>0, <2>1 DEF TypeOK
  <2>3. CASE c = b /\ thread[t].kind = "chat.deleted"
    BY <1>0, <2>1, <2>3 DEF TypeOK
  <2>4. CASE ~ (c = b /\ thread[t].kind = "chat.deleted")
    <3>1. notice'[c] = notice[c]
      BY <1>0, <2>1, <2>4 DEF TypeOK
    <3>2. \A u \in Thread : Announcing(c, u) => Announcing(c, u)'
      BY <2>2, <2>4 DEF Announcing
    <3>3. row'[c].status = row[c].status
      <4>1. CASE c # b
        BY <1>0, <2>1, <4>1 DEF TypeOK
      <4>2. CASE c = b
        <5>1. row'[c].status = base.status
          <6>1. base \in Row
            BY <1>0, <2>1 DEF TypeOK, NewRow, NoRow, Row, ThreadState
          <6> HIDE DEF base
          <6> QED
            BY <1>0, <2>1, <4>2, <6>1 DEF TypeOK, Row
        <5>2. base.status = "deleted"
          BY <5>1 DEF Deleted
        <5> QED
          BY <4>2, <5>1, <5>2 DEF NewRow, NoRow
      <4> QED
        BY <4>1, <4>2
    <3> QED
      BY <3>1, <3>2, <3>3, QuietAnnounces
  <2> QED
    BY <2>3, <2>4
<1>3. ASSUME NEW t \in Thread, AppendFails(t) PROVE Goal
  <2>1. /\ row' = row /\ notice' = Lose({t})
        /\ thread' = [thread EXCEPT ![t] = Idle]
    BY <1>3 DEF AppendFails, durable
  <2>2. \A u \in Thread \ {t} : Announcing(c, u) => Announcing(c, u)'
    BY <1>0, <2>1 DEF TypeOK, Announcing
  <2>3. Deleted(c)
    BY <2>1 DEF Deleted
  <2> QED
    BY <2>1, <2>2, <2>3, LoseCovers
<1>4. ASSUME NEW t \in Thread, Sweep(t) PROVE Goal
  <2>1. thread[t].ts \in Nat
    BY <1>0 DEF TypeOK, ThreadState
  <2>2. SweepTxn(thread[t].ts, thread[t].active, notice)
    BY <1>4 DEF Sweep
  <2>3. notice'[c] = "written" \/ (Deleted(c) /\ notice'[c] = notice[c])
    BY <1>0, <2>1, <2>2, SweepAnnounces
  <2>4. \A u \in Thread : Announcing(c, u) => Announcing(c, u)'
    BY <1>0, <1>4 DEF Sweep, TypeOK, Announcing
  <2> QED
    BY <2>3, <2>4, QuietAnnounces DEF Deleted
<1>5. ASSUME NEW t \in Thread, Drop(t) PROVE Goal
  <2>1. /\ thread[t].chat \in Chat
        /\ row' = [row EXCEPT ![thread[t].chat] = NoRow]
        /\ notice' = [notice EXCEPT ![thread[t].chat] = "none"]
        /\ thread' = [thread EXCEPT ![t] = Idle]
        /\ thread[t].pc = "drop"
    BY <1>0, <1>5 DEF Drop, TypeOK
  <2>2. c # thread[t].chat
    BY <1>0, <2>1 DEF TypeOK, Deleted, NoRow
  <2>3. row'[c] = row[c] /\ notice'[c] = notice[c]
    BY <1>0, <2>1, <2>2 DEF TypeOK
  <2>4. \A u \in Thread : Announcing(c, u) => Announcing(c, u)'
    BY <1>0, <2>1 DEF TypeOK, Announcing
  <2> QED
    BY <2>3, <2>4, QuietAnnounces
<1>6. ASSUME Restart PROVE Goal
  <2>0. clock \in Nat
    BY <1>0 DEF TypeOK
  <2>1. CASE row' = row /\ notice' = Lose(Thread)
    BY <2>1, LoseCovers DEF Deleted
  <2>2. CASE SweepTxn(clock, {}, Lose(Thread))
    <3>1. notice'[c] = "written" \/ (Deleted(c) /\ notice'[c] = Lose(Thread)[c])
      BY <1>0, <2>0, <2>2, SweepAnnounces
    <3> QED
      BY <3>1, LoseCovers
  <2> QED
    BY <1>6, <2>1, <2>2 DEF Restart
<1>7. ASSUME RestartAfterCorruption PROVE Goal
  BY <1>7 DEF RestartAfterCorruption, Deleted, NoRow
<1>8. ASSUME NEW b \in Chat, NEW m \in Msg, DedupRecord(b, m) PROVE Goal
  <2>1. row' = IF Present(b) THEN row ELSE [row EXCEPT ![b] = NewRow(clock)]
    BY <1>8 DEF DedupRecord
  <2>2. notice' = notice /\ thread' = thread
    BY <1>8 DEF DedupRecord
  <2>3. row'[c] = row[c] \/ row'[c] = NewRow(clock)
    BY <1>0, <2>1 DEF TypeOK
  <2>4. row'[c] = row[c]
    BY <2>3 DEF Deleted, NewRow, NoRow
  <2> QED
    BY <2>2, <2>4, QuietAnnounces DEF Announcing
<1>9. CASE row' = row /\ notice' = notice
           /\ \A t \in Thread : thread'[t] = thread[t] \/ thread[t].pc # "commit"
  BY <1>9, QuietAnnounces DEF Announcing
<1> QED
  <2>1. CASE Tick \/ ConsumeSweepRequested
    BY <1>9, <2>1 DEF Tick, ConsumeSweepRequested, durable
  <2>2. CASE \E b \in Chat : Attach(b) \/ Detach(b)
    BY <1>9, <2>2 DEF Attach, Detach, durable
  <2>3. CASE \E b \in Chat, m \in Msg : DedupForget(b, m)
    BY <1>9, <2>3 DEF DedupForget
  <2>4. CASE \E b \in Chat, k \in Client, s \in 1..(MaxSeq + 1) : Acknowledge(b, k, s)
    BY <1>9, <2>4 DEF Acknowledge
  <2>5. ASSUME NEW t \in Thread,
               \/ Bump(t) \/ BeginSweep(t) \/ ScanTailers(t)
               \/ SweepFails(t) \/ CheckEmpty(t)
               \/ \E b \in Chat : Call(t, b)
        PROVE  Goal
    <3>1. row' = row /\ notice' = notice /\ thread[t].pc # "commit"
      BY <2>5 DEF Bump, BeginSweep, ScanTailers, SweepFails, CheckEmpty, Call,
           BeginAppend, BeginDelete, BeginDrop, Enter, durable
    <3>2. \A u \in Thread : u # t => thread'[u] = thread[u]
      BY <1>0, <2>5 DEF Bump, BeginSweep, ScanTailers, SweepFails, CheckEmpty,
           Call, BeginAppend, BeginDelete, BeginDrop, Enter, TypeOK
    <3> QED
      BY <1>9, <3>1, <3>2
  <2> QED
    BY <1>1, <1>2, <1>3, <1>4, <1>5, <1>6, <1>7, <1>8,
       <2>1, <2>2, <2>3, <2>4, <2>5 DEF Next, ThreadStep

\* Only chat.delete enters the state in which a row is marked.
LEMMA NextMarks ==
    ASSUME TypeOK, Next, NEW t \in Thread, thread'[t].pc = "mark",
           thread[t].pc = "mark" => thread[t].kind = "chat.deleted"
    PROVE  thread'[t].kind = "chat.deleted"
<1>1. CASE thread'[t] = thread[t]
  BY <1>1
<1>2. ASSUME NEW u \in Thread, NEW pc, NEW kind, NEW c, Enter(u, pc, kind, c),
             pc = "mark" => kind = "chat.deleted"
      PROVE  thread'[t].kind = "chat.deleted"
  <2> DEFINE s == [Idle EXCEPT !.pc = pc, !.kind = kind, !.chat = c, !.ts = clock]
  <2>1. thread' = [thread EXCEPT ![u] = s] /\ s.pc = pc /\ s.kind = kind
    BY <1>2 DEF Enter, Idle
  <2> HIDE DEF s
  <2> QED
    BY <1>1, <1>2, <2>1 DEF TypeOK
<1>3. ASSUME NEW u \in Thread, NEW s, thread' = [thread EXCEPT ![u] = s],
             s.pc # "mark"
      PROVE  thread'[t].kind = "chat.deleted"
  BY <1>1, <1>3 DEF TypeOK
<1>4. ASSUME NEW u \in Thread, NEW c \in Chat, Call(u, c)
      PROVE  thread'[t].kind = "chat.deleted"
  <2>1. CASE BeginAppend(u, c)
    BY <1>2, <2>1 DEF BeginAppend
  <2>2. CASE BeginDelete(u, c)
    BY <1>2, <2>2 DEF BeginDelete
  <2>3. CASE BeginDrop(u, c)
    BY <1>3, <2>3 DEF BeginDrop, Idle
  <2> QED
    BY <1>4, <2>1, <2>2, <2>3 DEF Call
<1>5. ASSUME NEW u \in Thread, ThreadStep(u) \/ Bump(u)
      PROVE  thread'[t].kind = "chat.deleted"
  <2>1. CASE BeginSweep(u)
    BY <1>2, <2>1 DEF BeginSweep
  <2>2. CASE MarkDeleted(u) \/ ScanTailers(u) \/ CheckEmpty(u)
    <3>1. thread[u] \in ThreadState
      BY DEF TypeOK
    <3>2. PICK s : thread' = [thread EXCEPT ![u] = s] /\ s.pc # "mark"
      <4>1. CASE MarkDeleted(u)
        <5>1. thread' = [thread EXCEPT ![u] = [thread[u] EXCEPT !.pc = "commit"]]
          BY <4>1 DEF MarkDeleted, TypeOK
        <5>2. [thread[u] EXCEPT !.pc = "commit"].pc = "commit"
          BY <3>1 DEF ThreadState
        <5> QED
          BY <5>1, <5>2
      <4>2. CASE ScanTailers(u)
        <5> DEFINE s == [thread[u] EXCEPT !.pc = "gc",
                                          !.active = {c \in Chat : tailers[c] > 0}]
        <5>1. thread' = [thread EXCEPT ![u] = s]
          BY <4>2 DEF ScanTailers, TypeOK
        <5>2. s.pc = "gc"
          BY <3>1 DEF ThreadState
        <5> QED
          BY <5>1, <5>2
      <4>3. CASE CheckEmpty(u)
        <5>1. thread' = [thread EXCEPT ![u] = [thread[u] EXCEPT !.pc = "drop"]]
              \/ thread' = [thread EXCEPT ![u] = Idle]
          BY <4>3 DEF CheckEmpty, TypeOK
        <5>2. [thread[u] EXCEPT !.pc = "drop"].pc = "drop" /\ Idle.pc = "idle"
          BY <3>1 DEF ThreadState, Idle
        <5> QED
          BY <5>1, <5>2
      <4> QED
        BY <2>2, <4>1, <4>2, <4>3
    <3> QED
      BY <1>3, <3>2
  <2>3. CASE \/ Append(u) \/ AppendFails(u) \/ Sweep(u) \/ SweepFails(u)
             \/ Drop(u) \/ Bump(u)
    <3> DEFINE up == [Idle EXCEPT !.pc = "bump", !.chat = thread[u].chat]
               all == [Idle EXCEPT !.pc = "bump_all"]
    <3>1. \/ thread' = [thread EXCEPT ![u] = up]
          \/ thread' = [thread EXCEPT ![u] = all]
          \/ thread' = [thread EXCEPT ![u] = Idle]
      BY <2>3 DEF Append, AppendFails, Sweep, SweepFails, Drop, Bump
    <3>2. up.pc = "bump" /\ all.pc = "bump_all" /\ Idle.pc = "idle"
      BY DEF Idle
    <3> HIDE DEF up, all
    <3> QED
      BY <1>3, <3>1, <3>2
  <2> QED
    BY <1>5, <2>1, <2>2, <2>3 DEF ThreadStep
<1>6. CASE Restart \/ RestartAfterCorruption
  BY <1>6 DEF Restart, RestartAfterCorruption, Volatile, Idle
<1>7. CASE thread' = thread
  BY <1>1, <1>7
<1> QED
  BY <1>4, <1>5, <1>6, <1>7 DEF Next, Tick, ConsumeSweepRequested, Acknowledge,
     DedupRecord, DedupForget, Attach, Detach

\* The strengthened deletion invariant is kept by every step.
LEMMA NextDInv == IInv /\ DInv /\ [Next]_vars => DInv'
<1> SUFFICES ASSUME IInv, DInv, [Next]_vars PROVE DInv'
  OBVIOUS
<1>1. TypeOK'
  BY NextIInv DEF IInv
<1>2. CASE UNCHANGED vars
  BY <1>1, <1>2 DEF vars, DInv, DeletionAnnounced, Deleted, Announcing
<1>3. CASE Next
  BY <1>1, <1>3, NextAnnounces, NextMarks DEF DInv, DeletionAnnounced
<1> QED
  BY <1>2, <1>3

-----------------------------------------------------------------------------
(* Counting what a sweep keeps                                              *)

\* A non-empty set of sequence numbers has an oldest one.
LEMMA MinExists ==
    ASSUME NEW S \in SUBSET Nat, S # {}
    PROVE  \E m \in S : \A n \in S : m <= n
<1> DEFINE R == OpToRel(<, Nat)
<1>1. PICK m \in S : \A y \in S : <<y, m>> \notin R
  BY NatLessThanWellFounded, WFMin
<1>2. \A y \in S : ~ (y < m)
  BY <1>1 DEF OpToRel
<1> QED
  BY <1>2

\* SELECT ... LIMIT 1 OFFSET k - 1, newest first, finds no row only in a table
\* of fewer than k rows.
LEMMA NoRowAtOffset ==
    ASSUME NEW S \in SUBSET Nat, NEW b \in Nat, \A n \in S : n <= b,
           NEW k \in Nat \ {0},
           \A s \in S : Cardinality({u \in S : u > s}) # k - 1
    PROVE  Cardinality(S) <= k
<1> DEFINE Above(s) == {u \in S : u > s}
           Few == {s \in S : Cardinality(Above(s)) <= k - 1}
<1>1. IsFiniteSet(S)
  BY FS_BoundedSetOfNaturals
<1>2. ASSUME NEW s \in S
      PROVE  /\ Above(s) \in SUBSET S
             /\ IsFiniteSet(Above(s)) /\ Cardinality(Above(s)) \in Nat
             /\ Cardinality(Above(s)) # k - 1
             /\ s \in Few <=> Cardinality(Above(s)) <= k - 1
  <2>1. Above(s) \in SUBSET S
    OBVIOUS
  <2>2. IsFiniteSet(Above(s))
    BY <1>1, <2>1, FS_Subset
  <2>3. Cardinality(Above(s)) \in Nat
    BY <2>2, FS_CardinalityType
  <2> QED
    BY <2>1, <2>2, <2>3
\* Just above s come the others, the first of them first.
<1>3. ASSUME NEW s \in S, NEW y \in Above(s), \A n \in Above(s) : y <= n
      PROVE  Above(y) = Above(s) \ {y}
  <2>1. s \in Nat /\ y \in Nat /\ y > s
    OBVIOUS
  <2>2. ASSUME NEW u \in S PROVE u > y <=> u > s /\ u # y
    <3>1. u \in Nat /\ (u > s => y <= u)
      BY <1>3
    <3> QED
      BY <2>1, <3>1
  <2> QED
    BY <2>2
<1>4. \A s \in S, u \in S : u \in Above(s) <=> u > s
  OBVIOUS
<1>5. Few \subseteq S
  OBVIOUS
<1>6. S \subseteq Nat
  OBVIOUS
<1> HIDE DEF Above, Few
<1>7. CASE S = {}
  BY <1>7, FS_EmptySet
<1>8. CASE S # {} /\ Few = S
  <2>1. PICK m \in S : \A n \in S : m <= n
    BY <1>6, <1>8, MinExists
  <2>2. Above(m) = S \ {m}
    <3>1. ASSUME NEW u \in S PROVE u > m <=> u # m
      BY <1>6, <2>1
    <3> QED
      BY <1>2, <1>4, <2>1, <3>1
  <2>3. Cardinality(Above(m)) = Cardinality(S) - 1
    BY <1>1, <2>2, FS_RemoveElement
  <2>4. Cardinality(Above(m)) <= k - 1
    BY <1>2, <1>8
  <2>5. Cardinality(S) \in Nat
    BY <1>1, FS_CardinalityType
  <2> QED
    BY <2>3, <2>4, <2>5
<1>9. CASE Few # S
  <2> DEFINE Many == S \ Few
  <2>0. Many \in SUBSET Nat /\ Many # {} /\ \A n \in Many : n <= b
    BY <1>5, <1>6, <1>9
  <2>1. PICK x \in Many : \A n \in Many : n <= x
    BY <2>0, MaxExists
  <2>2. x \in S /\ Cardinality(Above(x)) > k - 1 /\ Cardinality(Above(x)) \in Nat
    BY <1>2, <2>1
  <2>3. Above(x) # {}
    <3>1. Cardinality(Above(x)) # 0
      BY <2>2
    <3> QED
      BY <3>1, FS_EmptySet
  <2>4. Above(x) \in SUBSET Nat
    BY <1>2, <1>6, <2>2
  <2>5. PICK y \in Above(x) : \A n \in Above(x) : y <= n
    BY <2>3, <2>4, MinExists
  <2>6. y \in S /\ y > x
    BY <1>2, <1>4, <2>2, <2>5
  <2>7. Above(y) = Above(x) \ {y}
    BY <1>3, <2>2, <2>5
  <2>8. Cardinality(Above(y)) = Cardinality(Above(x)) - 1
    <3>1. IsFiniteSet(Above(x)) /\ y \in Above(x)
      BY <1>2, <2>2, <2>5
    <3> QED
      BY <2>7, <3>1, FS_RemoveElement
  <2>9. y \in Few
    <3>1. y \notin Many
      BY <1>6, <2>1, <2>6
    <3> QED
      BY <2>6, <3>1
  <2>10. Cardinality(Above(y)) <= k - 1 /\ Cardinality(Above(y)) # k - 1
    BY <1>2, <2>6, <2>9
  <2> QED
    BY <2>2, <2>8, <2>10
<1> QED
  BY <1>7, <1>8, <1>9

\* A log is finite, and counting events is counting sequence numbers.
LEMMA LogFinite ==
    ASSUME TypeOK, WellFormedLog, NEW c \in Chat, NEW E \in SUBSET events[c]
    PROVE  /\ Seqs(E) \in SUBSET (Nat \ {0})
           /\ \A s \in Seqs(E) : s <= row[c].latest
           /\ IsFiniteSet(Seqs(E)) /\ IsFiniteSet(E)
           /\ Cardinality(E) = Cardinality(Seqs(E))
           /\ Cardinality(E) \in Nat
<1>1. /\ \A e \in E : e.seq \in Nat \ {0} /\ e.seq <= row[c].latest
      /\ \A e, f \in E : e.seq = f.seq => e = f
  BY DEF TypeOK, WellFormedLog, Event
<1>2. row[c].latest \in Nat
  BY DEF TypeOK, Row
<1>3. /\ Seqs(E) \in SUBSET (Nat \ {0})
      /\ \A s \in Seqs(E) : s <= row[c].latest
  BY <1>1 DEF Seqs
<1>4. IsFiniteSet(Seqs(E))
  BY <1>2, <1>3, FS_BoundedSetOfNaturals
<1> DEFINE f == [e \in E |-> e.seq]
<1>5. f \in Injection(E, Seqs(E)) /\ f \in Surjection(E, Seqs(E))
  BY <1>1 DEF Seqs, Injection, Surjection, IsInjective
<1>6. /\ IsFiniteSet(E)
      /\ Cardinality(E) = Cardinality(Seqs(E))
  BY <1>4, <1>5, FS_Injection
<1> QED
  BY <1>3, <1>4, <1>6, FS_CardinalityType

\* What a trim leaves fits max_events_per_chat, and it removes nothing that is
\* both young and among the newest.
LEMMA TrimBounded ==
    ASSUME TypeOK, WellFormedLog, NEW c \in Chat, NEW ts \in Nat
    PROVE  /\ Cardinality(Trimmed(c, ts)) <= MaxEvents
           /\ \A e \in events[c] :
                /\ e.at >= ts - EventTtl
                /\ Cardinality({f \in events[c] : f.seq > e.seq}) < MaxEvents
                => e \in Trimmed(c, ts)
<1> DEFINE U == Seqs(Unexpired(c, ts))
           W == Seqs(Trimmed(c, ts))
           Above(s) == {u \in U : u > s}
<1>1. Unexpired(c, ts) \in SUBSET events[c] /\ Trimmed(c, ts) \in SUBSET events[c]
  BY DEF Unexpired, Trimmed
<1>2. /\ U \in SUBSET (Nat \ {0}) /\ IsFiniteSet(U)
      /\ \A s \in U : s <= row[c].latest
  BY <1>1, LogFinite
<1>3. Cardinality(Trimmed(c, ts)) = Cardinality(W)
  BY <1>1, LogFinite
<1>4. row[c].latest \in Nat /\ MaxEvents \in Nat \ {0} /\ EventTtl \in Nat
  BY LimitsAssumption DEF TypeOK, Row
<1>5. Overflow(c, ts) = {s \in U : Cardinality(Above(s)) = MaxEvents - 1}
  BY DEF Overflow
<1>6. W = {s \in U : s > CapFloor(c, ts)}
  BY DEF Trimmed, Seqs
<1>7. ASSUME NEW e \in events[c], e.at >= ts - EventTtl, e.seq > CapFloor(c, ts)
      PROVE  e \in Trimmed(c, ts)
  <2>1. e.at \in Nat
    BY DEF TypeOK, Event
  <2>2. ~ (e.at < ts - EventTtl)
    BY <1>4, <1>7, <2>1
  <2> QED
    BY <1>7, <2>2 DEF Trimmed, Unexpired, Expired
<1>8. \A e \in events[c] : e.seq \in Nat \ {0}
  BY DEF TypeOK, Event
<1> HIDE DEF U, W
<1>9. CASE Overflow(c, ts) = {}
  <2>1. CapFloor(c, ts) = 0
    BY <1>9 DEF CapFloor
  <2>2. W = U
    <3>1. \A u \in U : u > 0
      BY <1>2
    <3> QED
      BY <1>6, <2>1, <3>1
  <2>3. \A s \in U : Cardinality(Above(s)) # MaxEvents - 1
    BY <1>5, <1>9
  <2>4. U \in SUBSET Nat
    BY <1>2
  <2>5. Cardinality(U) <= MaxEvents
    BY <1>2, <1>4, <2>3, <2>4, NoRowAtOffset
  <2> QED
    BY <1>3, <1>7, <1>8, <2>1, <2>2, <2>5
<1>10. CASE Overflow(c, ts) # {}
  <2> DEFINE s == CHOOSE s \in Overflow(c, ts) : TRUE
  <2>1. s \in U /\ Cardinality(Above(s)) = MaxEvents - 1
    BY <1>5, <1>10
  <2>2. CapFloor(c, ts) = s - 1
    BY <1>10 DEF CapFloor
  <2> HIDE DEF s
  <2>3. s \in Nat \ {0}
    BY <1>2, <2>1
  <2>4. Above(s) \in SUBSET U /\ s \notin Above(s)
    BY <2>3
  <2>5. IsFiniteSet(Above(s))
    BY <1>2, <2>4, FS_Subset
  <2>6. W = Above(s) \cup {s}
    <3>1. ASSUME NEW u \in U PROVE u > s - 1 <=> u > s \/ u = s
      BY <1>2, <2>3
    <3> QED
      BY <1>6, <2>1, <2>2, <3>1
  <2>7. IsFiniteSet(W) /\ Cardinality(W) = MaxEvents
    BY <1>4, <2>1, <2>4, <2>5, <2>6, FS_AddElement
  <2>8. ASSUME NEW e \in events[c],
               Cardinality({f \in events[c] : f.seq > e.seq}) < MaxEvents
        PROVE  e.seq > CapFloor(c, ts)
    <3> SUFFICES ASSUME ~ (e.seq > s - 1) PROVE FALSE
      BY <2>2
    <3> DEFINE F == {f \in events[c] : f.seq > e.seq}
    <3>1. F \in SUBSET events[c]
      OBVIOUS
    <3>2. /\ IsFiniteSet(Seqs(F)) /\ Cardinality(F) = Cardinality(Seqs(F))
          /\ Cardinality(Seqs(F)) \in Nat
      BY <3>1, LogFinite
    <3>3. W \in SUBSET Seqs(F)
      <4>1. ASSUME NEW u \in W PROVE u \in Seqs(F)
        <5>1. u > e.seq
          BY <1>2, <1>6, <1>8, <2>2, <2>3
        <5>2. PICK f \in events[c] : f.seq = u
          BY <1>1, <1>6 DEF U, Seqs
        <5> QED
          BY <5>1, <5>2 DEF Seqs
      <4> QED
        BY <4>1
    <3>4. Cardinality(W) <= Cardinality(Seqs(F))
      BY <3>2, <3>3, FS_Subset
    <3>5. Cardinality(F) < MaxEvents
      BY <2>8
    <3> HIDE DEF F
    <3> QED
      BY <1>4, <2>7, <3>2, <3>4, <3>5
  <2> QED
    BY <1>3, <1>4, <1>7, <2>7, <2>8
<1> QED
  BY <1>9, <1>10

\* What a sweep does to one chat: its row is removed, replaced by a tombstone
\* or trimmed.
LEMMA CollectOutcome ==
    ASSUME TypeOK, NEW ts \in Nat, NEW victims \in SUBSET Countable, NEW told,
           Collect(ts, victims, told), NEW c \in Chat
    PROVE  \/ /\ c \in Buried(ts) /\ c \notin victims /\ Deleted(c)
              /\ row'[c].status = "absent" /\ events'[c] = {}
           \/ /\ c \notin Buried(ts) /\ c \in victims /\ Live(c)
              /\ row'[c].status = "deleted" /\ events'[c] = {Tombstone(c, ts)}
           \/ /\ c \notin Buried(ts) /\ c \notin victims
              /\ row'[c].status = row[c].status /\ events'[c] = Trimmed(c, ts)
<1>1. CASE c \in Buried(ts)
  <2>1. c \notin victims /\ Deleted(c)
    BY <1>1 DEF Buried, Countable, Deleted, Live
  <2> QED
    BY <1>1, <2>1 DEF Collect, NoRow
<1>2. CASE c \notin Buried(ts) /\ c \in victims
  <2>1. row'[c] = TombstoneRow(c, ts) /\ events'[c] = {Tombstone(c, ts)} /\ Live(c)
    BY <1>2 DEF Collect, Countable
  <2> QED
    BY <1>2, <2>1 DEF TombstoneRow
<1>3. CASE c \notin Buried(ts) /\ c \notin victims
  <2>1. row'[c] = TrimmedRow(c, ts) /\ events'[c] = Trimmed(c, ts)
    BY <1>3 DEF Collect
  <2>2. TrimmedRow(c, ts).status = row[c].status
    BY DEF TypeOK, Row, TrimmedRow
  <2> QED
    BY <1>3, <2>1, <2>2
<1> QED
  BY <1>1, <1>2, <1>3

-----------------------------------------------------------------------------
(* What a sweep works with                                                  *)

\* A call's clock reading is of the past, and at every moment only finitely
\* many chats have a row, a tailer or a place among the active ones.
ReadingsPast == \A t \in Thread : thread[t].ts <= clock
Rows == {c \in Chat : Present(c)}
Tailed == {c \in Chat : tailers[c] > 0}
AllFinite ==
    /\ IsFiniteSet(Rows)
    /\ IsFiniteSet(Tailed)
    /\ \A t \in Thread : IsFiniteSet(thread[t].active)
GcInv == ReadingsPast /\ AllFinite

\* What any step may do to a caller's reading and to its set of active chats;
\* and only the transaction of a sweep gets to wake every tailer.
ThreadMoves(s, r) ==
    /\ r.ts = s.ts \/ r.ts = 0 \/ r.ts = clock
    /\ r.active = s.active \/ r.active = {} \/ r.active = Tailed

LEMMA NextThread ==
    ASSUME TypeOK, Next, NEW t \in Thread
    PROVE  ThreadMoves(thread[t], thread'[t]) /\ (Swept(t) => Sweep(t))
<1> DEFINE Goal == ThreadMoves(thread[t], thread'[t]) /\ (Swept(t) => Sweep(t))
<1>0. thread[t] \in ThreadState /\ thread \in [Thread -> ThreadState]
  BY DEF TypeOK
<1>1. CASE thread'[t] = thread[t]
  BY <1>1 DEF ThreadMoves, Swept
<1>2. CASE thread'[t] = Idle
  BY <1>2 DEF ThreadMoves, Swept, Idle
<1>3. ASSUME NEW u \in Thread, NEW pc, NEW kind, NEW c, Enter(u, pc, kind, c)
      PROVE  Goal
  <2> DEFINE s == [Idle EXCEPT !.pc = pc, !.kind = kind, !.chat = c, !.ts = clock]
  <2>1. /\ thread[u].pc = "idle" /\ thread' = [thread EXCEPT ![u] = s]
        /\ s.ts = clock /\ s.active = {}
    BY <1>3 DEF Enter, Idle
  <2> HIDE DEF s
  <2> QED
    BY <1>0, <1>1, <2>1 DEF ThreadMoves, Swept
<1>4. ASSUME NEW u \in Thread, NEW s, thread' = [thread EXCEPT ![u] = s],
             ThreadMoves(thread[u], s), s.pc # "bump_all" \/ Sweep(u)
      PROVE  Goal
  BY <1>0, <1>1, <1>4 DEF Swept
<1>5. ASSUME NEW u \in Thread, NEW c \in Chat, Call(u, c) PROVE Goal
  <2>1. CASE BeginAppend(u, c)
    BY <1>3, <2>1 DEF BeginAppend
  <2>2. CASE BeginDelete(u, c)
    BY <1>3, <2>2 DEF BeginDelete
  <2>3. CASE BeginDrop(u, c)
    <3> DEFINE s == [Idle EXCEPT !.pc = "check", !.chat = c]
    <3>1. thread' = [thread EXCEPT ![u] = s]
      BY <2>3 DEF BeginDrop
    <3>2. ThreadMoves(thread[u], s) /\ s.pc = "check"
      BY DEF ThreadMoves, Idle
    <3> QED
      BY <1>4, <3>1, <3>2
  <2> QED
    BY <1>5, <2>1, <2>2, <2>3 DEF Call
<1>6. ASSUME NEW u \in Thread, ThreadStep(u) \/ Bump(u) PROVE Goal
  <2>0. thread[u] \in ThreadState
    BY DEF TypeOK
  <2>1. CASE BeginSweep(u)
    BY <1>3, <2>1 DEF BeginSweep
  <2>2. CASE MarkDeleted(u)
    <3> DEFINE s == [thread[u] EXCEPT !.pc = "commit"]
    <3>1. thread' = [thread EXCEPT ![u] = s]
      BY <2>2 DEF MarkDeleted, TypeOK
    <3>2. ThreadMoves(thread[u], s) /\ s.pc = "commit"
      BY <2>0 DEF ThreadMoves, ThreadState
    <3> QED
      BY <1>4, <3>1, <3>2
  <2>3. CASE ScanTailers(u)
    <3> DEFINE s == [thread[u] EXCEPT !.pc = "gc", !.active = Tailed]
    <3>1. thread' = [thread EXCEPT ![u] = s]
      BY <2>3 DEF ScanTailers, TypeOK, Tailed
    <3>2. ThreadMoves(thread[u], s) /\ s.pc = "gc"
      BY <2>0 DEF ThreadMoves, ThreadState
    <3> QED
      BY <1>4, <3>1, <3>2
  <2>4. CASE CheckEmpty(u)
    <3> DEFINE s == [thread[u] EXCEPT !.pc = "drop"]
    <3>1. thread' = [thread EXCEPT ![u] = s] \/ thread' = [thread EXCEPT ![u] = Idle]
      BY <2>4 DEF CheckEmpty, TypeOK
    <3>2. ThreadMoves(thread[u], s) /\ s.pc = "drop"
      BY <2>0 DEF ThreadMoves, ThreadState
    <3>3. ThreadMoves(thread[u], Idle) /\ Idle.pc = "idle"
      BY DEF ThreadMoves, Idle
    <3> QED
      BY <1>4, <3>1, <3>2, <3>3
  <2>5. CASE Append(u)
    <3> DEFINE s == [Idle EXCEPT !.pc = "bump", !.chat = thread[u].chat]
    <3>1. thread' = [thread EXCEPT ![u] = s]
      BY <2>5 DEF Append
    <3>2. ThreadMoves(thread[u], s) /\ s.pc = "bump"
      BY DEF ThreadMoves, Idle
    <3> QED
      BY <1>4, <3>1, <3>2
  <2>6. CASE Sweep(u)
    <3> DEFINE s == [Idle EXCEPT !.pc = "bump_all"]
    <3>1. thread' = [thread EXCEPT ![u] = s]
      BY <2>6 DEF Sweep
    <3>2. ThreadMoves(thread[u], s)
      BY DEF ThreadMoves, Idle
    <3> QED
      BY <1>4, <2>6, <3>1, <3>2
  <2>7. CASE AppendFails(u) \/ SweepFails(u) \/ Drop(u) \/ Bump(u)
    <3>1. thread' = [thread EXCEPT ![u] = Idle]
      BY <2>7 DEF AppendFails, SweepFails, Drop, Bump
    <3>2. ThreadMoves(thread[u], Idle) /\ Idle.pc = "idle"
      BY DEF ThreadMoves, Idle
    <3> QED
      BY <1>4, <3>1, <3>2
  <2> QED
    BY <1>6, <2>1, <2>2, <2>3, <2>4, <2>5, <2>6, <2>7 DEF ThreadStep
<1>7. CASE Restart \/ RestartAfterCorruption
  BY <1>2, <1>7 DEF Restart, RestartAfterCorruption, Volatile
<1>8. CASE thread' = thread
  BY <1>1, <1>8
<1> QED
  BY <1>5, <1>6, <1>7, <1>8 DEF Next, Tick, ConsumeSweepRequested, Acknowledge,
     DedupRecord, DedupForget, Attach, Detach

\* A sweep makes no row.
LEMMA SweepMakesNoRow ==
    ASSUME TypeOK, NEW ts \in Nat, NEW active, NEW told,
           SweepTxn(ts, active, told)
    PROVE  Rows' \subseteq Rows
<1>1. PICK victims \in SUBSET Countable : Collect(ts, victims, told)
  BY DEF SweepTxn
<1>2. ASSUME NEW c \in Chat, row'[c].status # "absent" PROVE Present(c)
  BY <1>1, <1>2, CollectOutcome DEF Live, Deleted, Present
<1> QED
  BY <1>2 DEF Rows, Present

\* A step makes a row for one chat, and a tailer on one chat, at most.
LEMMA NextRows ==
    ASSUME TypeOK, Next
    PROVE  \E x : Rows' \subseteq Rows \cup {x}
<1>1. CASE row' = row
  BY <1>1 DEF Rows, Present
<1>2. ASSUME NEW c \in Chat, NEW r, row' = [row EXCEPT ![c] = r]
      PROVE  Rows' \subseteq Rows \cup {c}
  BY <1>2 DEF TypeOK, Rows, Present
<1>3. CASE RestartAfterCorruption
  BY <1>3 DEF RestartAfterCorruption, Rows, Present, NoRow
<1>4. CASE Restart
  <2>1. CASE SweepTxn(clock, {}, Lose(Thread))
    BY <2>1, SweepMakesNoRow DEF TypeOK
  <2> QED
    BY <1>1, <1>4, <2>1 DEF Restart
<1>5. ASSUME NEW t \in Thread, Sweep(t) PROVE Rows' \subseteq Rows
  <2>1. thread[t].ts \in Nat
    BY DEF TypeOK, ThreadState
  <2> QED
    BY <1>5, <2>1, SweepMakesNoRow DEF Sweep
<1>6. ASSUME NEW t \in Thread, MarkDeleted(t) \/ Append(t) \/ Drop(t)
      PROVE  \E c \in Chat : \E r : row' = [row EXCEPT ![c] = r]
  <2>1. thread[t].chat \in Chat
    BY <1>6 DEF MarkDeleted, Append, Drop, TypeOK
  <2>2. CASE MarkDeleted(t)
    <3>1. row' = [row EXCEPT ![thread[t].chat] =
                    [@ EXCEPT !.status = "deleted", !.deletedAt = thread[t].ts,
                              !.updatedAt = thread[t].ts]]
      BY <2>2 DEF MarkDeleted, TypeOK
    <3> QED
      BY <2>1, <3>1
  <2>3. CASE Append(t)
    BY <2>1, <2>3 DEF Append
  <2>4. CASE Drop(t)
    BY <2>1, <2>4 DEF Drop
  <2> QED
    BY <1>6, <2>2, <2>3, <2>4
<1>7. ASSUME NEW c \in Chat, NEW m \in Msg, DedupRecord(c, m)
      PROVE  row' = row \/ \E r : row' = [row EXCEPT ![c] = r]
  BY <1>7 DEF DedupRecord
<1>8. ASSUME row' # row
      PROVE  \/ Restart \/ RestartAfterCorruption
             \/ \E t \in Thread : Sweep(t) \/ MarkDeleted(t) \/ Append(t) \/ Drop(t)
             \/ \E c \in Chat, m \in Msg : DedupRecord(c, m)
  BY <1>8 DEF Next, ThreadStep, Tick, ConsumeSweepRequested, Acknowledge,
     DedupForget, Attach, Detach, Call, BeginAppend, BeginDelete, BeginDrop,
     AppendFails, Bump, BeginSweep, ScanTailers, SweepFails, CheckEmpty, durable
<1> QED
  BY <1>1, <1>2, <1>3, <1>4, <1>5, <1>6, <1>7, <1>8

LEMMA NextTailed ==
    ASSUME TypeOK, Next
    PROVE  \E x : Tailed' \subseteq Tailed \cup {x}
<1>1. CASE tailers' = tailers
  BY <1>1 DEF Tailed
<1>2. ASSUME NEW c \in Chat, NEW n, tailers' = [tailers EXCEPT ![c] = n]
      PROVE  Tailed' \subseteq Tailed \cup {c}
  BY <1>2 DEF TypeOK, Tailed
<1>3. ASSUME NEW c \in Chat, Attach(c) \/ Detach(c)
      PROVE  \E n : tailers' = [tailers EXCEPT ![c] = n]
  BY <1>3 DEF Attach, Detach
<1>4. ASSUME NEW t \in Thread, Drop(t)
      PROVE  \E c \in Chat : tailers' = [tailers EXCEPT ![c] = 0]
  <2>1. thread[t].chat \in Chat
    BY <1>4 DEF Drop, TypeOK
  <2> QED
    BY <1>4, <2>1 DEF Drop
<1>5. CASE Restart \/ RestartAfterCorruption
  BY <1>5 DEF Restart, RestartAfterCorruption, Volatile, Tailed
<1>6. ASSUME tailers' # tailers
      PROVE  \/ Restart \/ RestartAfterCorruption
             \/ \E t \in Thread : Drop(t)
             \/ \E c \in Chat : Attach(c) \/ Detach(c)
  BY <1>6 DEF Next, ThreadStep, Tick, ConsumeSweepRequested, Acknowledge,
     DedupForget, DedupRecord, Call, BeginAppend, BeginDelete, BeginDrop,
     AppendFails, Bump, BeginSweep, ScanTailers, SweepFails, CheckEmpty,
     Append, MarkDeleted, Sweep
<1> QED
  BY <1>1, <1>2, <1>3, <1>4, <1>5, <1>6

\* Readings stay of the past and everything counted stays finite.
LEMMA NextGcInv == IInv /\ GcInv /\ [Next]_vars => GcInv'
<1> SUFFICES ASSUME IInv, GcInv, [Next]_vars PROVE GcInv'
  OBVIOUS
<1>0. TypeOK
  BY DEF IInv
<1>1. CASE UNCHANGED vars
  BY <1>1 DEF vars, GcInv, ReadingsPast, AllFinite, Rows, Tailed, Present
<1>2. CASE Next
  <2>1. clock \in Nat /\ clock' \in Nat /\ clock' >= clock
    <3>1. clock' = clock \/ clock' = clock + 1
      BY <1>2 DEF Next, ThreadStep, Tick, ConsumeSweepRequested, Acknowledge,
         DedupForget, DedupRecord, Call, BeginAppend, BeginDelete, BeginDrop,
         AppendFails, Bump, BeginSweep, ScanTailers, SweepFails, CheckEmpty,
         Append, MarkDeleted, Sweep, Drop, Attach, Detach, Restart,
         RestartAfterCorruption, Volatile
    <3> QED
      BY <1>0, <3>1 DEF TypeOK
  <2>2. ASSUME NEW t \in Thread
        PROVE  thread'[t].ts <= clock' /\ IsFiniteSet(thread'[t].active)
    <3>1. ThreadMoves(thread[t], thread'[t])
      BY <1>0, <1>2, NextThread
    <3>2. thread[t].ts \in Nat /\ thread[t].ts <= clock
      BY <1>0 DEF TypeOK, ThreadState, GcInv, ReadingsPast
    <3>3. IsFiniteSet(thread[t].active) /\ IsFiniteSet(Tailed) /\ IsFiniteSet({})
      BY FS_EmptySet DEF GcInv, AllFinite
    <3>4. thread'[t].ts <= clock'
      BY <2>1, <3>1, <3>2 DEF ThreadMoves
    <3> QED
      BY <3>1, <3>3, <3>4 DEF ThreadMoves
  <2>3. IsFiniteSet(Rows')
    <3>1. PICK x : Rows' \subseteq Rows \cup {x}
      BY <1>0, <1>2, NextRows
    <3>2. IsFiniteSet(Rows \cup {x})
      BY FS_AddElement DEF GcInv, AllFinite
    <3> QED
      BY <3>1, <3>2, FS_Subset
  <2>4. IsFiniteSet(Tailed')
    <3>1. PICK x : Tailed' \subseteq Tailed \cup {x}
      BY <1>0, <1>2, NextTailed
    <3>2. IsFiniteSet(Tailed \cup {x})
      BY FS_AddElement DEF GcInv, AllFinite
    <3> QED
      BY <3>1, <3>2, FS_Subset
  <2> QED
    BY <2>2, <2>3, <2>4 DEF GcInv, ReadingsPast, AllFinite
<1> QED
  BY <1>1, <1>2

LEMMA InitGcInv == Init => GcInv
<1> SUFFICES ASSUME Init PROVE GcInv
  OBVIOUS
<1>1. Rows = {} /\ Tailed = {}
  BY DEF Init, Rows, Tailed, Present, NoRow
<1>2. \A t \in Thread : thread[t].ts = 0 /\ thread[t].active = {}
  BY DEF Init, Idle
<1>3. clock = 0
  BY DEF Init
<1> QED
  BY <1>1, <1>2, <1>3, FS_EmptySet DEF GcInv, ReadingsPast, AllFinite

-----------------------------------------------------------------------------
(* What a sweep spares                                                      *)

\* One step of GcSparesActive: a tombstoned chat was listed and without
\* tailers when the sweep looked.
LEMMA SweepSparesActive ==
    ASSUME IInv, NEW t \in Thread, Sweep(t), NEW c \in Chat,
           Live(c), Deleted(c)'
    PROVE  c # Inbox /\ c \notin thread[t].active
<1> DEFINE ts == thread[t].ts
           active == thread[t].active
<1>0. TypeOK /\ ts \in Nat
  BY DEF IInv, TypeOK, ThreadState
<1>1. SweepTxn(ts, active, notice)
  BY DEF Sweep
<1> HIDE DEF ts, active
<1>2. PICK K \in SUBSET Countable, B \in SUBSET Countable :
         /\ B \subseteq Countable \ (active \cup (Countable \ (K \cup active)))
         /\ (Countable \ (K \cup active)) \cup B \in SUBSET Countable
         /\ Collect(ts, (Countable \ (K \cup active)) \cup B, notice)
  BY <1>1, Zenon DEF SweepTxn
<1>3. c \in (Countable \ (K \cup active)) \cup B
  BY <1>0, <1>2, CollectOutcome DEF Live, Deleted
<1>4. c \in Countable /\ c \notin active
  BY <1>2, <1>3
<1> QED
  BY <1>4 DEF Countable, active

\* One step of GcKeepsYoung, for one chat.
LEMMA SweepKeepsYoung ==
    ASSUME IInv, GcInv, NEW t \in Thread, Sweep(t), NEW c \in Chat
    PROVE  /\ Cardinality(events'[c]) <= MaxEvents
           /\ row'[c].status = row[c].status =>
                \A e \in events[c] :
                  /\ e.at >= thread[t].ts - EventTtl
                  /\ Cardinality({f \in events[c] : f.seq > e.seq}) < MaxEvents
                  => e \in events'[c]
           /\ \A m \in Msg : DedupHit(c, m) /\ Present(c)' => DedupHit(c, m)'
<1> DEFINE ts == thread[t].ts
<1>0. TypeOK /\ WellFormedLog /\ ts \in Nat
  BY DEF IInv, TypeOK, ThreadState
<1>1. SweepTxn(ts, thread[t].active, notice)
  BY DEF Sweep
<1> HIDE DEF ts
<1>2. PICK victims \in SUBSET Countable : Collect(ts, victims, notice)
  BY <1>1 DEF SweepTxn
<1>3. \/ events'[c] = {} /\ row'[c].status = "absent" /\ Deleted(c)
      \/ events'[c] = {Tombstone(c, ts)} /\ row'[c].status = "deleted" /\ Live(c)
      \/ events'[c] = Trimmed(c, ts) /\ c \notin Buried(ts)
  BY <1>0, <1>2, CollectOutcome
<1>4. MaxEvents \in Nat \ {0}
  BY LimitsAssumption
<1>5. Cardinality(events'[c]) <= MaxEvents
  <2>1. Cardinality({}) = 0 /\ Cardinality({Tombstone(c, ts)}) = 1
    BY FS_EmptySet, FS_Singleton
  <2>2. Cardinality(Trimmed(c, ts)) <= MaxEvents
    BY <1>0, TrimBounded
  <2> QED
    BY <1>3, <1>4, <2>1, <2>2
<1>6. row'[c].status = row[c].status => events'[c] = Trimmed(c, ts)
  BY <1>3 DEF Deleted, Live
<1>7. ASSUME NEW m \in Msg, DedupHit(c, m), Present(c)' PROVE DedupHit(c, m)'
  <2>1. PICK d \in dedup : d.chat = c /\ d.msg = m /\ d.expires >= clock
    BY <1>7 DEF DedupHit, DedupOf
  <2>2. c \notin Buried(ts)
    <3>1. c \in Buried(ts) => row'[c].status = "absent"
      BY <1>0, <1>2, CollectOutcome
    <3> QED
      BY <1>7, <3>1 DEF Present
  <2>3. ts <= clock /\ clock \in Nat /\ d.expires \in Nat
    BY <1>0 DEF GcInv, ReadingsPast, TypeOK, Dedup, ts
  <2>4. d \in UnexpiredDedup(ts)
    <3>1. d.expires >= ts
      BY <1>0, <2>1, <2>3
    <3> QED
      BY <3>1 DEF UnexpiredDedup
  <2>5. d \in dedup'
    BY <1>2, <2>1, <2>2, <2>4 DEF Collect
  <2>6. clock' = clock
    BY DEF Sweep
  <2> QED
    BY <2>1, <2>5, <2>6 DEF DedupHit, DedupOf
<1>8. ASSUME row'[c].status = row[c].status, NEW e \in events[c],
             e.at >= thread[t].ts - EventTtl,
             Cardinality({f \in events[c] : f.seq > e.seq}) < MaxEvents
      PROVE  e \in events'[c]
  <2>1. e \in Trimmed(c, ts)
    BY <1>0, <1>8, TrimBounded DEF ts
  <2> QED
    BY <1>6, <1>8, <2>1
<1> QED
  BY <1>5, <1>7, <1>8

\* One step of GcBoundsChats.
LEMMA SweepBoundsChats ==
    ASSUME IInv, GcInv, NEW t \in Thread, Sweep(t)
    PROVE  /\ Cardinality(Countable') <= MaxChats + Cardinality(thread[t].active)
           /\ \A c, d \in Countable \ thread[t].active :
                row[c].updatedAt < row[d].updatedAt /\ Live(c)' => Live(d)'
<1> DEFINE ts == thread[t].ts
           active == thread[t].active
<1>0. TypeOK /\ ts \in Nat
  BY DEF IInv, TypeOK, ThreadState
<1>1. SweepTxn(ts, active, notice)
  BY DEF Sweep
<1>2. IsFiniteSet(active) /\ IsFiniteSet(Rows)
  BY DEF GcInv, AllFinite
<1> HIDE DEF ts, active
<1>3. PICK K \in SUBSET Countable, B \in SUBSET Countable :
         LET over == Countable \ (K \cup active)
             rest == Countable \ (active \cup over)
         IN  /\ Keepers(K)
             /\ B \subseteq rest /\ OldestOf(B, rest)
             /\ over \cup B \in SUBSET Countable
             /\ Collect(ts, over \cup B, notice)
  BY <1>1, Zenon DEF SweepTxn
<1> DEFINE over == Countable \ (K \cup active)
           rest == Countable \ (active \cup over)
           victims == over \cup B
<1>4. /\ Keepers(K) /\ B \subseteq rest /\ OldestOf(B, rest)
      /\ victims \in SUBSET Countable /\ Collect(ts, victims, notice)
  BY <1>3
<1>5. \A c \in Chat : row[c].updatedAt \in Nat
  BY <1>0 DEF TypeOK, Row
<1>6. ASSUME NEW c \in Chat
      PROVE  /\ Live(c)' => c \notin victims /\ Live(c)
             /\ Live(c) /\ c \notin victims => Live(c)'
  BY <1>0, <1>4, CollectOutcome DEF Live, Deleted
<1>7. Countable' \subseteq K \cup active
  <2>1. ASSUME NEW c \in Chat, Live(c)', c # Inbox PROVE c \in K \cup active
    <3>1. c \in Countable /\ c \notin over
      BY <1>6, <2>1 DEF Countable
    <3> QED
      BY <3>1
  <2> QED
    BY <2>1 DEF Countable
<1>8. IsFiniteSet(K) /\ Cardinality(K) \in Nat /\ Cardinality(K) <= MaxChats
  <2>1. Countable \in SUBSET Rows
    BY DEF Countable, Rows, Live, Present
  <2>2. IsFiniteSet(Countable) /\ IsFiniteSet(K)
    BY <1>2, <2>1, FS_Subset
  <2>3. Cardinality(Countable) \in Nat /\ Cardinality(K) \in Nat
    BY <2>2, FS_CardinalityType
  <2>4. Cardinality(K) = (IF Cardinality(Countable) <= MaxChats
                          THEN Cardinality(Countable) ELSE MaxChats)
    BY <1>4 DEF Keepers
  <2> QED
    BY <2>2, <2>3, <2>4, LimitsAssumption
<1>9. Cardinality(Countable') <= MaxChats + Cardinality(active)
  <2>1. /\ IsFiniteSet(K \cup active)
        /\ Cardinality(K \cup active) =
             Cardinality(K) + Cardinality(active) - Cardinality(K \cap active)
    BY <1>2, <1>8, FS_Union
  <2>2. IsFiniteSet(K \cap active)
    BY <1>8, FS_Intersection
  <2>3. /\ Cardinality(active) \in Nat /\ Cardinality(K \cap active) \in Nat
        /\ Cardinality(K \cup active) \in Nat
    BY <1>2, <2>1, <2>2, FS_CardinalityType
  <2>4. IsFiniteSet(Countable')
        /\ Cardinality(Countable') <= Cardinality(K \cup active)
    BY <1>7, <2>1, FS_Subset
  <2>5. Cardinality(Countable') \in Nat
    BY <2>4, FS_CardinalityType
  <2> QED
    BY <1>8, <2>1, <2>3, <2>4, <2>5, LimitsAssumption
<1>10. ASSUME NEW c \in Countable \ active, NEW d \in Countable \ active,
              row[c].updatedAt < row[d].updatedAt, Live(c)', ~ Live(d)'
       PROVE  FALSE
  <2>1. c \in Chat /\ d \in Chat /\ Live(d)
    BY <1>10 DEF Countable
  <2>2. c \notin victims /\ d \in victims
    BY <1>6, <1>10, <2>1
  <2>3. c \in K /\ c \in rest /\ c \notin B
    BY <1>10, <2>2
  <2>4. CASE d \in over
    <3>1. row[d].updatedAt <= row[c].updatedAt
      BY <1>4, <2>3, <2>4 DEF Keepers
    <3> QED
      BY <1>5, <1>10, <2>1, <3>1
  <2>5. CASE d \in B
    <3>1. row[d].updatedAt <= row[c].updatedAt
      BY <1>4, <2>3, <2>5 DEF OldestOf
    <3> QED
      BY <1>5, <1>10, <2>1, <3>1
  <2> QED
    BY <2>2, <2>4, <2>5
<1> QED
  BY <1>9, <1>10 DEF active

-----------------------------------------------------------------------------
(* Theorems                                                                 *)

\* Every reachable state is typed, whatever the limits of the configuration.
THEOREM TypeCorrect == Spec => []TypeOK
<1>1. IInv => TypeOK
  BY DEF IInv
<1> QED
  BY <1>1, InitIInv, NextIInv, PTL DEF Spec

\* The tables of the store stay consistent with each other under every
\* interleaving of appends, renames, deletions, drops, sweeps and restarts.
THEOREM LogsWellFormed == Spec => []WellFormedLog
<1>1. IInv => WellFormedLog
  BY DEF IInv
<1> QED
  BY <1>1, InitIInv, NextIInv, PTL DEF Spec

\* A cursor that replay_after accepts never misses an event: nothing above the
\* floor of a log is ever missing, although sweeps remove events by their time
\* stamps and time stamps are not ordered like sequence numbers.
THEOREM LogsHaveNoHoles == Spec => []NoHoles
<1>1. IInv => NoHoles
  BY DEF IInv
<1> QED
  BY <1>1, InitIInv, NextIInv, PTL DEF Spec

\* While a chat lives, no step takes back a sequence number, lowers the floor
\* or a client's cursor, inserts below the end of the log, removes above its
\* floor or revives a deleted chat.
THEOREM LogsMoveForward == Spec => CursorsNeverRewind
<1>1. IInv /\ [Next]_vars => [\A c \in Chat : LogMovesForward(c)]_vars
  BY NextMovesForward
<1> QED
  BY <1>1, InitIInv, NextIInv, PTL DEF Spec, CursorsNeverRewind

\* A chat marked deleted is announced to its readers by a chat.deleted event,
\* by the caller about to write one, or the loss of the announcement (a
\* failure or a crash between the two transactions) is on record.
THEOREM DeletionsAnnounced == Spec => []DeletionAnnounced
<1>1. Init => DInv
  BY InitIInv DEF IInv, DInv, Init, DeletionAnnounced, Deleted, NoRow, Idle
<1>2. DInv => DeletionAnnounced
  BY DEF DInv
<1> QED
  BY <1>1, <1>2, InitIInv, NextIInv, NextDInv, PTL DEF Spec

\* However the cap and the byte budget choose, no sweep tombstones the inbox or
\* a chat that had a tailer at its scan.
THEOREM SweepsSpareActive == Spec => GcSparesActive
<1>1. IInv /\ [Next]_vars =>
        [\A t \in Thread, c \in Chat :
            Swept(t) /\ Live(c) /\ Deleted(c)' =>
              c # Inbox /\ c \notin thread[t].active]_vars
  BY NextThread, SweepSparesActive DEF IInv
<1> QED
  BY <1>1, InitIInv, NextIInv, PTL DEF Spec, GcSparesActive

\* A sweep leaves no log over max_events_per_chat, takes no event that is both
\* young and among the newest, and forgets no message still recognisable.
THEOREM SweepsKeepYoung == Spec => GcKeepsYoung
<1>1. IInv /\ GcInv /\ [Next]_vars =>
        [\A t \in Thread, c \in Chat :
           Swept(t) =>
             /\ Cardinality(events'[c]) <= MaxEvents
             /\ row'[c].status = row[c].status =>
                  \A e \in events[c] :
                    /\ e.at >= thread[t].ts - EventTtl
                    /\ Cardinality({f \in events[c] : f.seq > e.seq}) < MaxEvents
                    => e \in events'[c]
             /\ \A m \in Msg : DedupHit(c, m) /\ Present(c)' => DedupHit(c, m)']_vars
  BY NextThread, SweepKeepsYoung DEF IInv
<1> QED
  BY <1>1, InitIInv, NextIInv, InitGcInv, NextGcInv, PTL DEF Spec, GcKeepsYoung

\* After a sweep the listed chats are within max_chats but for those that had
\* tailers, and no idle chat outlives a younger one.
THEOREM SweepsBoundChats == Spec => GcBoundsChats
<1>1. IInv /\ GcInv /\ [Next]_vars =>
        [\A t \in Thread :
           Swept(t) =>
             /\ Cardinality(Countable') <= MaxChats + Cardinality(thread[t].active)
             /\ \A c, d \in Countable \ thread[t].active :
                  row[c].updatedAt < row[d].updatedAt /\ Live(c)' => Live(d)']_vars
  BY NextThread, SweepBoundsChats DEF IInv
<1> QED
  BY <1>1, InitIInv, NextIInv, InitGcInv, NextGcInv, PTL DEF Spec, GcBoundsChats

=============================================================================
