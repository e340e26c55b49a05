----------------------------- MODULE SessionProofs -----------------------------
(***************************************************************************)
(* Proofs that nothing of a session outlives it and that the supervisor's  *)
(* state keeps its type, for any set of relays.                            *)
(***************************************************************************)
EXTENDS Session, FiniteSetTheorems, TLAPS

\* Nothing but a sweep that an append asked for.
Bare == parts \subseteq {"once"} /\ client = None

\* What a teardown at stage i still finds.
Later(i) == {"once"} \cup {Order[j] : j \in i..9}
FromStage(i) == parts \subseteq Later(i)

Shape ==
    /\ sup = [pc |-> sup.pc, at |-> sup.at] /\ sup.at \in 1..9
    /\ disc = [pc |-> disc.pc, at |-> disc.at] /\ disc.at \in 1..9
    /\ parts \subseteq Parts
    /\ disc.pc \in {"idle", "awaiting", "teardown", "done"}

\* The supervisor has a session from Ready to the end of its teardown; a
\* cancelled one leaves what it was at.
SupInv ==
    /\ sup.pc \in {"off", "rank", "dial", "hello", "sleep", "dead"} => Bare
    /\ sup.pc = "teardown" => FromStage(sup.at)

\* disconnect takes apart what a task left that has ended.
DiscInv ==
    /\ disc.pc \in {"teardown", "done"} => TaskOver
    /\ disc.pc = "teardown" => FromStage(disc.at)
    /\ disc.pc = "done" => Bare

Sockets ==
    /\ up \subseteq Relay /\ None \notin open
    /\ open \ cut \subseteq {client} \cup (IF sup.pc = "hello" THEN {Head(rest)} ELSE {})

IInv == Shape /\ SupInv /\ DiscInv /\ Sockets

-----------------------------------------------------------------------------
(* The order of a teardown *)

LEMMA OrderFacts ==
    /\ Len(Order) = 9 /\ Order[9] = "client"
    /\ \A i \in 1..8 : Order[i] # "client"
    /\ Parts = {Order[i] : i \in 1..9}
    /\ Stages = 1..9
<1>1. Len(Order) = 9 /\ DOMAIN Order = 1..9
    BY DEF Order
<1>2. Order[9] = "client"
    BY DEF Order
<1>3. \A i \in 1..8 : Order[i] # "client"
    BY DEF Order
<1>4. Parts = {Order[i] : i \in 1..9}
    BY <1>1 DEF Parts, ToSet
<1>5. Stages = 1..9
    BY <1>1 DEF Stages
<1> QED
    BY <1>1, <1>2, <1>3, <1>4, <1>5

\* A stage takes its part, the last one the client.
LEMMA StageTaken ==
    ASSUME NEW i \in 1..9, FromStage(i), TakeApart(Order[i])
    PROVE  /\ i # 9 => i + 1 \in 1..9 /\ parts' \subseteq Later(i + 1)
           /\ i = 9 => Bare'
           /\ parts' \subseteq parts
<1>1. parts' = parts \ {Order[i]}
    BY DEF TakeApart
<1>2. CASE i # 9
    <2>1. parts' \subseteq Later(i + 1)
        <3> SUFFICES ASSUME NEW p \in parts', p # "once"
                     PROVE  \E j \in i + 1..9 : p = Order[j]
            BY DEF Later
        <3>1. PICK j \in i..9 : p = Order[j]
            BY <1>1 DEF FromStage, Later
        <3>2. j # i
            BY <1>1, <3>1
        <3>3. j \in i + 1..9
            BY <3>2
        <3> QED
            BY <3>1, <3>3
    <2> QED
        BY <1>1, <1>2, <2>1
<1>3. CASE i = 9
    <2>1. parts \subseteq {"once", "client"}
        BY <1>3, OrderFacts DEF FromStage, Later
    <2>2. parts' \subseteq {"once"} /\ client' = None
        BY <1>1, <1>3, <2>1, OrderFacts DEF TakeApart
    <2> QED
        BY <1>1, <1>3, <2>2 DEF Bare
<1> QED
    BY <1>2, <1>3

\* The end of the client closes its socket and no other part's end does.
LEMMA SocketTaken ==
    ASSUME NEW p, TakeApart(p), cut' = cut, Sockets,
           sup.pc # "hello"
    PROVE  None \notin open' /\ open' \ cut' \subseteq {client'}
BY DEF TakeApart, Sockets

-----------------------------------------------------------------------------
(* The invariant *)

LEMMA InitIInv == Init => IInv
BY DEF Init, IInv, Shape, SupInv, DiscInv, Sockets, Bare, At, TaskOver, FromStage, Later

\* Steps that leave what there is of a session.
LEMMA RestKeepsIInv ==
    ASSUME IInv,
           \/ Weather \/ Connect \/ Rank \/ DialOpens \/ DialFails \/ NobodyAnswers
           \/ Refused \/ Breaks \/ Sleep \/ Cancelled \/ Disconnect
    PROVE  IInv'
<1> USE DEF IInv, Runs, At, Shape, SupInv, DiscInv, Bare, TaskOver
<1>1. CASE Weather
    BY <1>1 DEF Weather, Sockets, FromStage, Later
<1>2. CASE Connect
    BY <1>2 DEF Connect, Sockets
<1>3. CASE Rank
    BY <1>3 DEF Rank, Sockets
<1>4. CASE DialOpens
    <2>1. sup.pc = "dial" /\ sup' = [pc |-> "hello", at |-> 1]
        BY <1>4 DEF DialOpens
    <2>2. Shape' /\ SupInv' /\ DiscInv'
        BY <1>4, <2>1 DEF DialOpens
    <2>3. Sockets'
        BY <1>4, <2>1, RelayAssumption DEF DialOpens, Sockets
    <2> QED
        BY <2>2, <2>3
<1>5. CASE DialFails
    BY <1>5 DEF DialFails, Sockets
<1>6. CASE NobodyAnswers
    BY <1>6 DEF NobodyAnswers, Sockets
<1>7. CASE Refused
    BY <1>7 DEF Refused, Sockets
<1>8. CASE Breaks
    BY <1>8 DEF Breaks, Sockets
<1>9. CASE Sleep
    BY <1>9 DEF Sleep, Again, Sockets
<1>10. CASE Cancelled
    <2>1. sup' = [pc |-> "ended", at |-> 1] /\ UNCHANGED <<up, client, open, parts, disc>>
        BY <1>10 DEF Cancelled
    <2>2. sup.pc \in {"rank", "dial", "hello", "pump", "sleep", "teardown"}
        BY <1>10 DEF Cancelled
    <2>3. Shape' /\ SupInv' /\ DiscInv'
        BY <2>1, <2>2
    <2>4. Sockets'
        BY <1>10, <2>1 DEF Cancelled, Sockets
    <2> QED
        BY <2>3, <2>4
<1>11. CASE Disconnect
    <2>1. disc' = [pc |-> "awaiting", at |-> 1]
          /\ UNCHANGED <<up, sup, rest, client, open, parts, cut>>
        BY <1>11 DEF Disconnect
    <2> QED
        BY <2>1 DEF Sockets, FromStage, Later
<1> QED
    BY <1>1, <1>2, <1>3, <1>4, <1>5, <1>6, <1>7, <1>8, <1>9, <1>10, <1>11

\* The sweep that an append asks for is nobody's business.
LEMMA SweepKeepsIInv ==
    ASSUME IInv, RequestSweep \/ SweepEnds
    PROVE  IInv'
<1>1. /\ parts' \subseteq parts \cup {"once"}
      /\ UNCHANGED <<sup, rest, client, open, disc, cut>>
    BY DEF RequestSweep, SweepEnds
<1>2. "once" \in Parts
    <2>1. Order[3] = "once"
        BY DEF Order
    <2> QED
        BY <2>1, OrderFacts
<1>3. \A i \in 1..9 : FromStage(i) => parts' \subseteq Later(i)
    BY <1>1 DEF FromStage, Later
<1>4. Shape' /\ Sockets'
    BY <1>1, <1>2 DEF IInv, Shape, Sockets, RequestSweep, SweepEnds
<1>5. SupInv'
    BY <1>1, <1>3 DEF IInv, Shape, SupInv, Bare, FromStage
<1>6. DiscInv'
    BY <1>1, <1>3 DEF IInv, Shape, DiscInv, Bare, TaskOver, FromStage
<1> QED
    BY <1>4, <1>5, <1>6 DEF IInv

LEMMA PumpKeepsIInv ==
    ASSUME IInv, Ready \/ PumpEnds
    PROVE  IInv'
<1>1. CASE Ready
    <2>1. sup.pc = "hello" /\ sup' = [pc |-> "pump", at |-> 1]
        BY <1>1 DEF Ready, Runs, At
    <2>2. Shape' /\ SupInv'
        BY <1>1, <2>1 DEF IInv, Ready, Shape, SupInv
    <2>3. DiscInv'
        BY <1>1, <2>1 DEF IInv, Ready, Shape, DiscInv, TaskOver
    <2>4. Sockets'
        BY <1>1, <2>1 DEF IInv, Ready, Sockets, SupInv, Bare
    <2> QED
        BY <2>2, <2>3, <2>4 DEF IInv
<1>2. CASE PumpEnds
    <2>1. parts \subseteq {Order[j] : j \in 1..9}
        BY OrderFacts DEF IInv, Shape
    <2>2. FromStage(1)'
        BY <1>2, <2>1 DEF PumpEnds, FromStage, Later
    <2>3. Shape' /\ SupInv'
        BY <1>2, <2>2 DEF IInv, PumpEnds, At, Shape, SupInv
    <2>4. DiscInv'
        BY <1>2 DEF IInv, PumpEnds, Runs, DiscInv, TaskOver
    <2>5. Sockets'
        BY <1>2 DEF IInv, PumpEnds, Runs, At, Sockets
    <2> QED
        BY <2>3, <2>4, <2>5 DEF IInv
<1> QED
    BY <1>1, <1>2

LEMMA TeardownKeepsIInv ==
    ASSUME IInv, Teardown
    PROVE  IInv'
<1>1. sup.pc = "teardown" /\ sup.at \in 1..9 /\ FromStage(sup.at)
    BY DEF IInv, Teardown, Shape, SupInv
<1>2. TakeApart(Order[sup.at]) /\ UNCHANGED <<up, disc, cut, rest>>
    BY DEF Teardown
<1>3. ~TaskOver /\ disc.pc \in {"idle", "awaiting"}
    BY <1>1 DEF IInv, Shape, DiscInv, TaskOver
<1>4. parts' \subseteq Parts
    BY <1>1, <1>2, StageTaken DEF IInv, Shape
<1>5. None \notin open' /\ open' \ cut' \subseteq {client'}
    BY <1>1, <1>2, SocketTaken DEF IInv
<1>6. CASE sup.at = 9
    <2>1. sup' = At(Again("sleep"))
        BY <1>6, OrderFacts DEF Teardown
    <2>2. sup' = [pc |-> sup'.pc, at |-> 1] /\ sup'.pc \in {"ended", "sleep"}
        BY <2>1 DEF At, Again
    <2>3. Bare'
        BY <1>1, <1>2, <1>6, StageTaken
    <2> QED
        BY <1>2, <1>3, <1>4, <1>5, <2>2, <2>3
        DEF IInv, Shape, SupInv, DiscInv, Sockets
<1>7. CASE sup.at # 9
    <2>1. sup' = [sup EXCEPT !.at = @ + 1]
        BY <1>1, <1>7, OrderFacts DEF Teardown
    <2>2. sup' = [pc |-> "teardown", at |-> sup.at + 1]
        BY <1>1, <2>1 DEF IInv, Shape
    <2>3. sup.at + 1 \in 1..9 /\ parts' \subseteq Later(sup.at + 1)
        BY <1>1, <1>2, <1>7, StageTaken
    <2>4. parts' \subseteq Later(sup'.at)
        BY <2>2, <2>3
    <2> QED
        BY <1>2, <1>3, <1>4, <1>5, <2>2, <2>3, <2>4
        DEF IInv, Shape, SupInv, DiscInv, Sockets, FromStage
<1> QED
    BY <1>6, <1>7

LEMMA DiscKeepsIInv ==
    ASSUME IInv, DiscTakesOver \/ DiscTeardown
    PROVE  IInv'
<1>1. CASE DiscTakesOver
    <2>1. TaskOver /\ disc' = [pc |-> "teardown", at |-> 1]
        BY <1>1 DEF DiscTakesOver, At
    <2>2. parts \subseteq Later(1)
        BY OrderFacts DEF IInv, Shape, Later
    <2> QED
        BY <1>1, <2>1, <2>2
        DEF IInv, DiscTakesOver, Shape, SupInv, DiscInv, Sockets, Bare, TaskOver, FromStage
<1>2. CASE DiscTeardown
    <2>1. disc.pc = "teardown" /\ disc.at \in 1..9 /\ FromStage(disc.at) /\ TaskOver
        BY <1>2 DEF IInv, DiscTeardown, Shape, DiscInv
    <2>2. TakeApart(Order[disc.at]) /\ UNCHANGED <<up, sup, cut, rest>>
        BY <1>2 DEF DiscTeardown
    <2>3. parts' \subseteq parts
        BY <2>1, <2>2, StageTaken
    <2>4. SupInv'
        <3>1. client' \in {None, client}
            BY <2>2 DEF TakeApart
        <3> QED
            BY <2>1, <2>2, <2>3, <3>1 DEF IInv, SupInv, Bare, TaskOver
    <2>5. Sockets'
        BY <2>1, <2>2, SocketTaken DEF IInv, Sockets, TaskOver
    <2>6. CASE disc.at = 9
        <3>1. disc' = [pc |-> "done", at |-> 1]
            BY <1>2, <2>6, OrderFacts DEF DiscTeardown, At
        <3>2. Bare'
            BY <2>1, <2>2, <2>6, StageTaken
        <3> QED
            BY <2>1, <2>2, <2>3, <2>4, <2>5, <3>1, <3>2 DEF IInv, Shape, DiscInv, TaskOver
    <2>7. CASE disc.at # 9
        <3>1. disc' = [disc EXCEPT !.at = @ + 1]
            BY <1>2, <2>1, <2>7, OrderFacts DEF DiscTeardown
        <3>2. disc' = [pc |-> "teardown", at |-> disc.at + 1]
            BY <2>1, <3>1 DEF IInv, Shape
        <3>3. disc.at + 1 \in 1..9 /\ parts' \subseteq Later(disc.at + 1)
            BY <2>1, <2>2, <2>7, StageTaken
        <3>4. parts' \subseteq Later(disc'.at)
            BY <3>2, <3>3
        <3> QED
            BY <2>1, <2>2, <2>3, <2>4, <2>5, <3>2, <3>3, <3>4
            DEF IInv, Shape, DiscInv, TaskOver, FromStage
    <2> QED
        BY <2>6, <2>7
<1> QED
    BY <1>1, <1>2

LEMMA NextKeepsIInv == IInv /\ [Next]_vars => IInv'
<1> SUFFICES ASSUME IInv, [Next]_vars PROVE IInv'
    OBVIOUS
<1>1. CASE UNCHANGED vars
    BY <1>1 DEF vars, IInv, Shape, SupInv, DiscInv, Sockets, Bare, TaskOver, FromStage
<1>2. CASE Next
    BY <1>2, RestKeepsIInv, SweepKeepsIInv, PumpKeepsIInv, TeardownKeepsIInv, DiscKeepsIInv
    DEF Next, Supervise
<1> QED
    BY <1>1, <1>2

THEOREM Invariance == Spec => []IInv
BY InitIInv, NextKeepsIInv, PTL DEF Spec

-----------------------------------------------------------------------------

\* Wherever a drop or disconnect meets the supervisor, no part and no socket of a
\* session outlives its teardown, for any set of relays.
THEOREM SessionsLeaveNothing == Spec => []NothingLeftBehind
<1>1. IInv => NothingLeftBehind
    BY DEF IInv, SupInv, DiscInv, Sockets, Bare, NothingLeftBehind
<1> QED
    BY <1>1, Invariance, PTL
-----------------------------------------------------------------------------
(* Types *)

\* During a handshake the candidate that is spoken to heads the list.
TInv == TypeOK /\ (sup.pc = "hello" => rest # <<>>)

\* A ranking lists relays.
LEMMA RankingTyped ==
    ASSUME NEW answered, NEW o \in Rankings(answered)
    PROVE  o \in Seq(Relay)
<1>1. Cardinality(Relay) \in Nat
    BY RelayAssumption, FS_CardinalityType
<1>2. o \in [1..Cardinality(Relay) -> Relay]
    BY DEF Rankings, SetToSeqs
<1> HIDE DEF Rankings
<1> QED
    BY <1>1, <1>2

\* The head of a list that is not empty, and what follows it.
LEMMA HeadTyped ==
    ASSUME rest \in Seq(Relay), rest # <<>>
    PROVE  Head(rest) \in Relay /\ Tail(rest) \in Seq(Relay)
OBVIOUS

LEMMA InitTInv == Init => TInv
<1> SUFFICES ASSUME Init PROVE TInv
    OBVIOUS
<1>1. 1 \in Stages /\ rest \in Seq(Relay)
    BY OrderFacts DEF Init
<1> QED
    BY <1>1 DEF Init, TInv, TypeOK, At, SupPcs

\* Steps of the supervisor that take no part away.
LEMMA SupKeepsTInv ==
    ASSUME TInv,
           \/ Rank \/ DialOpens \/ DialFails \/ NobodyAnswers
           \/ Ready \/ Refused \/ Breaks \/ PumpEnds \/ Sleep
    PROVE  TInv'
<1> USE DEF TInv, TypeOK, Runs, At, SupPcs
<1>0. 1 \in Stages /\ <<>> \in Seq(Relay)
    BY OrderFacts
<1>1. CASE Rank
    <2>1. rest' \in Seq(Relay)
        BY <1>1, RankingTyped DEF Rank
    <2> QED
        BY <1>0, <1>1, <2>1 DEF Rank
<1>2. CASE DialOpens
    BY <1>0, <1>2, HeadTyped DEF DialOpens
<1>3. CASE DialFails
    BY <1>0, <1>3, HeadTyped DEF DialFails
<1>4. CASE NobodyAnswers
    BY <1>0, <1>4 DEF NobodyAnswers
<1>5. CASE Ready
    <2>1. parts' \subseteq Parts
        BY <1>5 DEF Ready
    <2> QED
        BY <1>0, <1>5, <2>1, HeadTyped DEF Ready
<1>6. CASE Refused
    BY <1>0, <1>6, HeadTyped DEF Refused
<1>7. CASE Breaks
    BY <1>0, <1>7, HeadTyped DEF Breaks
<1>8. CASE PumpEnds
    BY <1>0, <1>8 DEF PumpEnds
<1>9. CASE Sleep
    BY <1>0, <1>9 DEF Sleep, Again
<1> QED
    BY <1>1, <1>2, <1>3, <1>4, <1>5, <1>6, <1>7, <1>8, <1>9

\* A teardown ends after its last stage.
LEMMA TeardownKeepsTInv ==
    ASSUME TInv, Teardown \/ DiscTeardown
    PROVE  TInv'
<1> USE DEF TInv, TypeOK, At, SupPcs
<1>0. 1 \in Stages
    BY OrderFacts
<1>1. ASSUME NEW p, TakeApart(p)
      PROVE  parts' \subseteq Parts /\ open' \subseteq Relay /\ client' \in Relay \cup {None}
    BY <1>1 DEF TakeApart
<1>2. ASSUME NEW i \in Stages, Order[i] # "client" \/ i # 9
      PROVE  i + 1 \in Stages
    BY <1>2, OrderFacts
<1>3. CASE Teardown
    <2>1. sup.at \in Stages /\ sup = [pc |-> sup.pc, at |-> sup.at] /\ sup.pc = "teardown"
        BY <1>3 DEF Teardown
    <2>2. /\ cancel' \in BOOLEAN
          /\ avoid' \in Relay \cup {None}
          /\ UNCHANGED <<up, rest, stopping, disc, cut>>
        BY <1>3 DEF Teardown
    <2>3. sup' \in [pc : SupPcs, at : Stages] /\ sup'.pc # "hello"
        BY <1>0, <1>2, <1>3, <2>1 DEF Teardown, Again
    <2>4. parts' \subseteq Parts /\ open' \subseteq Relay /\ client' \in Relay \cup {None}
        BY <1>1, <1>3 DEF Teardown
    <2> QED
        BY <2>2, <2>3, <2>4
<1>4. CASE DiscTeardown
    <2>1. /\ parts' \subseteq Parts /\ open' \subseteq Relay /\ client' \in Relay \cup {None}
          /\ UNCHANGED <<up, sup, rest, avoid, stopping, cancel, cut>>
        BY <1>1, <1>4 DEF DiscTeardown
    <2>2. disc' \in [pc : {"idle", "awaiting", "teardown", "done"}, at : Stages]
        BY <1>0, <1>2, <1>4, OrderFacts DEF DiscTeardown
    <2> QED
        BY <2>1, <2>2
<1> QED
    BY <1>3, <1>4

LEMMA NextKeepsTInv == TInv /\ [Next]_vars => TInv'
<1> SUFFICES ASSUME TInv, [Next]_vars PROVE TInv'
    OBVIOUS
<1> USE DEF TInv, TypeOK, At, SupPcs
<1>0. 1 \in Stages /\ <<>> \in Seq(Relay) /\ "once" \in Parts
    <2>1. Order[3] = "once"
        BY DEF Order
    <2> QED
        BY <2>1, OrderFacts
<1>1. CASE UNCHANGED vars
    BY <1>1 DEF vars
<1>2. CASE Weather \/ RequestSweep \/ SweepEnds
    BY <1>0, <1>2 DEF Weather, RequestSweep, SweepEnds
<1>3. CASE Connect
    BY <1>0, <1>3 DEF Connect
<1>4. CASE Cancelled
    <2>1. cut' \subseteq Relay
        BY <1>4, HeadTyped DEF Cancelled
    <2> QED
        BY <1>0, <1>4, <2>1 DEF Cancelled
<1>5. CASE Disconnect
    BY <1>0, <1>5 DEF Disconnect, TaskOver
<1>6. CASE DiscTakesOver
    BY <1>0, <1>6 DEF DiscTakesOver
<1> QED
    BY <1>1, <1>2, <1>3, <1>4, <1>5, <1>6, SupKeepsTInv, TeardownKeepsTInv DEF Next, Supervise

\* The task and disconnect stay within the stages, the candidates and sockets are
\* relays, and a handshake is always with one of them.
THEOREM SessionTypeCorrect == Spec => []TypeOK
<1>1. TInv => TypeOK
    BY DEF TInv
<1> QED
    BY <1>1, InitTInv, NextKeepsTInv, PTL DEF Spec
================================================================================
