------------------------------ MODULE CursorRelay ------------------------------
(***************************************************************************)
(* Pushes and snapshots of ChatCursorRelay (chat_cursor.py) over ChatStore.*)
(* Subscriptions, the rest of that class, are in ChatTail.                 *)
(*                                                                         *)
(* A push is sent to the cloud first and retained afterwards, in calls of  *)
(* worker threads; a lock of the relay keeps pushes of one session apart,  *)
(* but appends, sweeps and deletions by other threads, and the pushes of a *)
(* session that has been replaced, run between its calls.  A snapshot      *)
(* reads the chat's row and its events in two transactions.                *)
(***************************************************************************)
EXTENDS ChatStore

CONSTANTS
    Push,        \* the threads that work for send_push
    Pager,       \* chat_snapshot requests
    PageLimit,   \* the limit of a snapshot
    MaxSessions  \* bound: sessions of the gateway

ASSUME PushAssumption == Push \subseteq Thread
ASSUME PageLimitAssumption == PageLimit \in Nat \ {0}

VARIABLES
    session,  \* how many sessions there were before this one
    push,     \* the pushes
    page      \* the snapshots

relayVars == <<vars, session, push, page>>

(***************************************************************************)
(* pc of a push: get, number, send, append, commit, bump follow send_push; *)
(* floor, check, drop are its except clause.                               *)
(*                                                                         *)
(* disturbed: history, something other than a push of the same session     *)
(* has changed the end of the log since the number was read; unseen:       *)
(* history, what the except clause cannot know of when it looks at the     *)
(* log: events at or below the floor, and what was appended since.         *)
(***************************************************************************)
NoPush == [pc |-> "off", chat |-> NoChat, session |-> 0, existed |-> FALSE,
           number |-> 0, seq |-> 0, floor |-> 0, disturbed |-> FALSE, unseen |-> {}]

NoPage == [pc |-> "off", chat |-> NoChat, after |-> 0, latest |-> 0, seqs |-> {},
           next |-> 0, more |-> FALSE, same |-> TRUE]

RelayInit ==
    /\ Init
    /\ session = 0
    /\ push = [p \in Push |-> NoPush]
    /\ page = [q \in Pager |-> NoPage]

-----------------------------------------------------------------------------
(* What the other tasks see of a change to the log                          *)

EndMoves(c) == row'[c].latest # row[c].latest
RowGoes(c) == Present(c) /\ row'[c].status = "absent"

\* Pushes other than those in own, after a step that changes the log.
Seen(own) ==
    [p \in Push |->
        LET c == push[p].chat
        IN  IF p \in own \/ push[p].pc \in {"off", "done"} THEN push[p]
            ELSE [push[p] EXCEPT
                    !.disturbed = @ \/ EndMoves(c) \/ RowGoes(c),
                    !.unseen = @ \cup (Seqs(events'[c]) \ Seqs(events[c]))]]

PagesSee ==
    page' = [q \in Pager |->
        IF page[q].pc \in {"row", "events"} /\ RowGoes(page[q].chat)
        THEN [page[q] EXCEPT !.same = page[q].pc = "row"] ELSE page[q]]

OtherThread(t) ==
    /\ \/ MarkDeleted(t) \/ Append(t) \/ AppendFails(t) \/ Bump(t)
       \/ BeginSweep(t) \/ ScanTailers(t) \/ Sweep(t) \/ SweepFails(t)
       \/ \E c \in Chat : BeginAppend(t, c) \/ BeginDelete(t, c)
    /\ push' = Seen({})
    /\ PagesSee
    /\ UNCHANGED session

-----------------------------------------------------------------------------
(* A push                                                                   *)

\* Pushes of p's session: the lock belongs to the relay of a session.
Holding == {"get", "number", "send", "append", "commit", "bump", "floor", "check", "drop"}
Companions(p) == {q \in Push : push[q].session = push[p].session}

Set(p, s) == push' = [push EXCEPT ![p] = s]
At(p, pc) == [push[p] EXCEPT !.pc = pc]
PushOnly == UNCHANGED <<vars, session, page>>

BugAcquire(p, c) ==
    /\ push[p].pc = "off"
    /\ Set(p, [NoPush EXCEPT !.pc = "get", !.chat = c, !.session = session])
    /\ PushOnly

\* async with _push_lock
Acquire(p, c) ==
    /\ push[p].pc = "off"
    /\ ~\E q \in Push : push[q].pc \in Holding /\ push[q].session = session
    /\ Set(p, [NoPush EXCEPT !.pc = "get", !.chat = c, !.session = session])
    /\ PushOnly

GetLog(p) ==
    /\ push[p].pc = "get"
    /\ LockFree
    /\ Set(p, [At(p, "number") EXCEPT !.existed = Present(push[p].chat)])
    /\ PushOnly

\* A frame that ensure_fits refuses is not sent.
ReadNumber(p) ==
    /\ push[p].pc = "number"
    /\ LockFree
    /\ \/ Set(p, [At(p, "send") EXCEPT !.number = NextSeq(push[p].chat),
                                       !.disturbed = FALSE])
       \/ Set(p, At(p, "done"))
    /\ PushOnly

\* The socket is that of the push's session.
Sent(p) ==
    /\ push[p].pc = "send"
    /\ push[p].session = session
    /\ Set(p, At(p, "append"))
    /\ PushOnly

BugSendFails(p) ==
    /\ push[p].pc = "send"
    /\ Set(p, At(p, "floor"))
    /\ PushOnly

SendFails(p) ==
    /\ push[p].pc = "send"
    /\ Set(p, At(p, IF push[p].existed THEN "done" ELSE "floor"))
    /\ PushOnly

\* Events that no cursor above the floor is shown: an event that outlived older
\* ones with a later clock reading.
Hidden(c) == {n \in Seqs(events[c]) : n <= row[c].floor}

\* log.events reads the floor and then replays from it, in two transactions;
\* the replay raises when the floor has risen meanwhile.
ReadFloor(p) ==
    /\ push[p].pc = "floor"
    /\ LockFree
    /\ Set(p, [At(p, "check") EXCEPT !.floor = row[push[p].chat].floor,
                                   !.unseen = Hidden(push[p].chat)])
    /\ PushOnly

FoundEmpty(p) ==
    LET c == push[p].chat
    IN  /\ push[p].floor >= row[c].floor
        /\ \A e \in events[c] : e.seq <= push[p].floor

CheckEvents(p) ==
    /\ push[p].pc = "check"
    /\ LockFree
    /\ \/ /\ FoundEmpty(p)
          /\ Set(p, At(p, "drop"))
          /\ thread' = [thread EXCEPT ![p] =
                [Idle EXCEPT !.pc = "drop", !.chat = push[p].chat]]
          /\ UNCHANGED <<clock, durable, since, requested, tailers, notice>>
       \/ /\ ~FoundEmpty(p)
          /\ Set(p, At(p, "done"))
          /\ UNCHANGED vars
    /\ UNCHANGED <<session, page>>

DropChat(p) ==
    /\ push[p].pc = "drop"
    /\ Drop(p)
    /\ push' = [Seen({p}) EXCEPT ![p] = At(p, "done")]
    /\ PagesSee
    /\ UNCHANGED session

StartRetain(p) ==
    /\ push[p].pc = "append"
    /\ BeginAppend(p, push[p].chat)
    /\ Set(p, At(p, "commit"))
    /\ UNCHANGED <<session, page>>

Retain(p) ==
    /\ push[p].pc = "commit"
    /\ Append(p)
    /\ push' = [Seen(Companions(p)) EXCEPT
                  ![p] = [At(p, "bump") EXCEPT !.seq = NextSeq(push[p].chat)]]
    /\ PagesSee
    /\ UNCHANGED session

\* The frame is out and not in the log.
RetainFails(p) ==
    /\ push[p].pc = "commit"
    /\ AppendFails(p)
    /\ Set(p, At(p, "done"))
    /\ UNCHANGED <<session, page>>

Release(p) ==
    /\ push[p].pc = "bump"
    /\ Bump(p)
    /\ Set(p, At(p, "done"))
    /\ UNCHANGED <<session, page>>

PushStep(p) ==
    \/ GetLog(p) \/ ReadNumber(p) \/ Sent(p) \/ SendFails(p)
    \/ ReadFloor(p) \/ CheckEvents(p) \/ DropChat(p)
    \/ StartRetain(p) \/ Retain(p) \/ RetainFails(p) \/ Release(p)

\* The socket drops and the supervisor makes a new relay, with a lock of its
\* own; nobody cancels the pushes of the old one.
NewSession ==
    /\ session < MaxSessions
    /\ session' = session + 1
    /\ UNCHANGED <<vars, push, page>>

-----------------------------------------------------------------------------
(* A snapshot                                                               *)

SetPage(q, s) == page' = [page EXCEPT ![q] = s]
PageOnly == UNCHANGED <<vars, session, push>>

\* handle_snapshot; a client pages on from where it is, or starts anywhere.
Ask(q, c, after) ==
    /\ page[q].pc \in {"off", "answered"}
    /\ SetPage(q, [NoPage EXCEPT !.pc = "row", !.chat = c, !.after = after])
    /\ PageOnly

\* A chat without a row has an empty page.
ReadRow(q) ==
    LET c == page[q].chat
    IN  /\ page[q].pc = "row"
        /\ LockFree
        /\ \/ /\ Present(c)
              /\ SetPage(q, [page[q] EXCEPT !.pc = "events", !.same = TRUE,
                                            !.latest = row[c].latest])
           \/ /\ ~Present(c)
              /\ SetPage(q, [page[q] EXCEPT !.pc = "answered",
                                            !.next = page[q].after])
        /\ PageOnly

After(c, n) == {m \in Seqs(events[c]) : m > n}
First(S, k) == {m \in S : Cardinality({n \in S : n < m}) < k}

BugReplay(q) == First(After(page[q].chat, page[q].after), PageLimit)

\* replay_after with one event more than the page takes, to see if there is one.
Replayed(q) == First(After(page[q].chat, page[q].after), PageLimit + 1)

\* The frame is cut where it would become too large; it has an event at least,
\* or an error is sent instead.
Answer(q, S) ==
    \E k \in 1..PageLimit :
        LET fits == First(S, k)
        IN  SetPage(q, [page[q] EXCEPT
                !.pc = "answered", !.seqs = fits,
                !.next = IF fits = {} THEN page[q].after ELSE MaxOf(fits),
                !.more = fits # S])

ReadEvents(q) ==
    LET c == page[q].chat
    IN  /\ page[q].pc = "events"
        /\ LockFree
        /\ \/ page[q].after >= row[c].floor /\ Answer(q, Replayed(q))
           \/ page[q].after < row[c].floor /\ SetPage(q, NoPage)
           \/ Replayed(q) # {} /\ SetPage(q, NoPage)
        /\ PageOnly

-----------------------------------------------------------------------------

Elapse == Tick /\ UNCHANGED <<session, push, page>>

RelayNext ==
    \/ Elapse
    \/ NewSession
    \/ \E t \in Thread \ Push : OtherThread(t)
    \/ \E p \in Push : PushStep(p) \/ \E c \in Chat : Acquire(p, c)
    \/ \E q \in Pager : \/ ReadRow(q) \/ ReadEvents(q)
                        \/ \E c \in Chat, n \in 0..MaxSeq : Ask(q, c, n)

RelaySpec == RelayInit /\ [][RelayNext]_relayVars

-----------------------------------------------------------------------------
(* Properties                                                               *)

\* The number in a push frame is the one its event is retained under, unless
\* somebody else appended meanwhile: pushes of one session are kept apart by
\* the lock from the reading of the number to the append, whatever fails.
PushNumberTrue ==
    \A p \in Push :
        push[p].pc = "bump" => push[p].seq = push[p].number \/ push[p].disturbed

\* What a failed push takes away is the chat it would have made: never a chat
\* that was there when it began, nor an event that the log showed when it
\* looked.  (An event appended between the look and the drop goes with it.)
FailedPushSparesChat ==
    [][\A p \in Push :
         DropChat(p) => /\ ~push[p].existed
                        /\ Seqs(events[push[p].chat]) \subseteq push[p].unseen]_relayVars

\* A page skips nothing between the client's cursor and the one it returns,
\* and a page that says there is no more reaches the end that the row shown
\* with it counts, although row and events are read apart and the frame may
\* have been cut; a client can go on from there with a subscription.
PageIsWhole ==
    \A q \in Pager :
        page[q].pc = "answered" =>
            /\ page[q].seqs = page[q].after + 1 .. page[q].next
            /\ page[q].same /\ ~page[q].more => page[q].next >= page[q].latest

=============================================================================
