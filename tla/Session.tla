-------------------------------- MODULE Session --------------------------------
(***************************************************************************)
(* The supervisor of the gateway's sessions: connect, disconnect,          *)
(* _supervisor, _open_session and _teardown_session of adapter.py, over    *)
(* the client of client.py.                                                *)
(*                                                                         *)
(* One task dials the relays in turn, serves the socket until it drops,    *)
(* takes the session apart and starts again.  disconnect cancels that task *)
(* wherever it waits and then takes apart what it left.  A step is what a  *)
(* task does between two awaits.  Bug operators stand for mistakes in the  *)
(* definition that follows.                                                *)
(***************************************************************************)
EXTENDS Integers, Sequences, FiniteSets, SequencesExt

CONSTANTS
    Relay,  \* the configured relays
    None    \* no relay

ASSUME RelayAssumption == None \notin Relay /\ IsFiniteSet(Relay)

VARIABLES
    up,       \* the relays that serve at the moment
    sup,      \* the supervisor's task: where it waits, and its stage of teardown
    rest,     \* the candidates of this attempt that are still to be dialled
    avoid,    \* _deprioritize_cloud_url_once
    client,   \* the relay that _client is connected to
    open,     \* the relays that a socket of ours is open to
    parts,    \* what the session has running: its tasks and handlers
    stopping, \* _stopping
    disc,     \* the call of disconnect
    cancel,   \* the supervisor's task is cancelled and has not heard of it
    cut       \* history: the sockets whose handshake a cancellation met

vars == <<up, sup, rest, avoid, client, open, parts, stopping, disc, cancel, cut>>

(***************************************************************************)
(* The parts in the order in which _teardown_session ends them: watch is   *)
(* the generation watcher, once the sweep that an append asked for,        *)
(* messages the tasks that process chat messages, rpc stands for memory,   *)
(* commands and transcription.                                             *)
(***************************************************************************)
Order == <<"watch", "sweeps", "once", "messages", "rpc", "health", "relay",
           "cursors", "client">>
Parts == ToSet(Order)
Stages == 1..Len(Order)

\* A part that is awaited under an except clause that takes CancelledError: the
\* clause is meant for the part's own, and takes the supervisor's as well.
Swallowing == {"watch", "sweeps", "once", "rpc", "health", "relay"}

SupPcs == {"off", "rank", "dial", "hello", "pump", "teardown", "sleep", "ended", "dead"}

TypeOK ==
    /\ up \subseteq Relay
    /\ sup \in [pc : SupPcs, at : Stages]
    /\ rest \in Seq(Relay)
    /\ avoid \in Relay \cup {None} /\ client \in Relay \cup {None}
    /\ open \subseteq Relay /\ cut \subseteq Relay
    /\ parts \subseteq Parts
    /\ stopping \in BOOLEAN /\ cancel \in BOOLEAN
    /\ disc \in [pc : {"idle", "awaiting", "teardown", "done"}, at : Stages]

At(pc) == [pc |-> pc, at |-> 1]

Init ==
    /\ up \in SUBSET Relay
    /\ sup = At("off") /\ rest = <<>>
    /\ avoid = None /\ client = None
    /\ open = {} /\ parts = {} /\ cut = {}
    /\ stopping = FALSE /\ cancel = FALSE
    /\ disc = At("idle")

-----------------------------------------------------------------------------
(* What happens around the supervisor.                                      *)

\* Relays come and go.
Weather ==
    /\ up' \in (SUBSET Relay) \ {up}
    /\ UNCHANGED <<sup, rest, avoid, client, open, parts, stopping, disc, cancel, cut>>

\* An event that a turn or a cron job appends asks for a sweep, which takes no
\* notice of sessions.  A closed store takes no event.
RequestSweep ==
    /\ sup.pc # "off" /\ disc.pc # "done"
    /\ "once" \notin parts
    /\ parts' = parts \cup {"once"}
    /\ UNCHANGED <<up, sup, rest, avoid, client, open, stopping, disc, cancel, cut>>

SweepEnds ==
    /\ "once" \in parts
    /\ parts' = parts \ {"once"}
    /\ UNCHANGED <<up, sup, rest, avoid, client, open, stopping, disc, cancel, cut>>

-----------------------------------------------------------------------------
(* The supervisor's task.  A cancellation that waits for it comes first.    *)

Runs(pc) == sup.pc = pc /\ ~cancel

\* Hermes starts an adapter once.
Connect ==
    /\ sup.pc = "off" /\ disc.pc = "idle"
    /\ sup' = At("rank")
    /\ UNCHANGED <<up, rest, avoid, client, open, parts, stopping, disc, cancel, cut>>

\* The sort key of a relay: no answer to the probe, then the one that dropped us
\* last.  Latency decides the rest.
Worse(answered, a, b) ==
    \/ a \notin answered /\ b \in answered
    \/ (a \in answered <=> b \in answered) /\ a = avoid /\ b # avoid

Rankings(answered) ==
    {o \in SetToSeqs(Relay) :
        \A i, j \in DOMAIN o : i < j => ~Worse(answered, o[i], o[j])}

Rank ==
    /\ Runs("rank")
    /\ \E answered \in SUBSET Relay : rest' \in Rankings(answered)
    /\ avoid' = None
    /\ sup' = At("dial")
    /\ UNCHANGED <<up, client, open, parts, stopping, disc, cancel, cut>>

DialOpens ==
    /\ Runs("dial") /\ rest # <<>> /\ Head(rest) \in up
    /\ open' = open \cup {Head(rest)}
    /\ sup' = At("hello")
    /\ UNCHANGED <<up, rest, avoid, client, parts, stopping, disc, cancel, cut>>

DialFails ==
    /\ Runs("dial") /\ rest # <<>> /\ Head(rest) \notin up
    /\ rest' = Tail(rest)
    /\ UNCHANGED <<up, sup, avoid, client, open, parts, stopping, disc, cancel, cut>>

NobodyAnswers ==
    /\ Runs("dial") /\ rest = <<>>
    /\ sup' = At("sleep")
    /\ UNCHANGED <<up, rest, avoid, client, open, parts, stopping, disc, cancel, cut>>

\* The ready frame: the session and all its parts are made in one step.
Ready ==
    /\ Runs("hello") /\ Head(rest) \in up
    /\ client' = Head(rest)
    /\ rest' = <<>>
    /\ parts' = parts \cup (Parts \ {"once"})
    /\ sup' = At("pump")
    /\ UNCHANGED <<up, avoid, open, stopping, disc, cancel, cut>>

\* An error frame, another frame or none in time: HandshakeError.
Refused ==
    /\ Runs("hello") /\ Head(rest) \notin up
    /\ open' = open \ {Head(rest)}
    /\ rest' = Tail(rest)
    /\ sup' = At("dial")
    /\ UNCHANGED <<up, avoid, client, parts, stopping, disc, cancel, cut>>

\* The connection is lost between hello and ready.  The exception of the socket
\* is neither a HandshakeError nor caught on the way out of the task.
Breaks ==
    /\ Runs("hello") /\ Head(rest) \notin up
    /\ open' = open \ {Head(rest)}
    /\ rest' = <<>>
    /\ sup' = At("dead")
    /\ UNCHANGED <<up, avoid, client, parts, stopping, disc, cancel, cut>>

\* The socket drops (the watcher may have closed it), or the handling of a frame
\* raises and leaves it open.
PumpEnds ==
    /\ Runs("pump")
    /\ open' \in {open, open \ {client}}
    /\ sup' = At("teardown")
    /\ UNCHANGED <<up, rest, avoid, client, parts, stopping, disc, cancel, cut>>

\* Where the supervisor goes on when it looks at _stopping.
BugAgain(pc) == pc

Again(pc) == IF stopping THEN "ended" ELSE pc

\* A part is ended; the client's end closes the socket.
TakeApart(p) ==
    /\ parts' = parts \ {p}
    /\ client' = IF p = "client" THEN None ELSE client
    /\ open' = IF p = "client" THEN open \ {client} ELSE open

\* A part that is there may have ended by itself, and is then not waited for.
Waits(p) == IF p \in parts THEN BOOLEAN ELSE {FALSE}

Teardown ==
    /\ sup.pc = "teardown"
    /\ LET p == Order[sup.at] IN
        /\ \E waits \in Waits(p) :
            /\ waits /\ cancel => p \in Swallowing
            /\ cancel' = (cancel /\ ~waits)
        /\ TakeApart(p)
        /\ sup' = IF p = "client" THEN At(Again("sleep")) ELSE [sup EXCEPT !.at = @ + 1]
        /\ avoid' = IF p = "client" /\ ~stopping THEN client ELSE avoid
    /\ UNCHANGED <<up, rest, stopping, disc, cut>>

Sleep ==
    /\ Runs("sleep")
    /\ sup' = At(Again("rank"))
    /\ UNCHANGED <<up, rest, avoid, client, open, parts, stopping, disc, cancel, cut>>

\* The cancellation reaches the task where it waits and ends it there.
Cancelled ==
    /\ cancel
    /\ \/ sup.pc \in {"rank", "dial", "hello", "pump", "sleep"}
       \/ sup.pc = "teardown" /\ Order[sup.at] \in parts \ Swallowing
    /\ sup' = At("ended")
    /\ cut' = IF sup.pc = "hello" THEN cut \cup {Head(rest)} ELSE cut
    /\ rest' = <<>>
    /\ cancel' = FALSE
    /\ UNCHANGED <<up, avoid, client, open, parts, stopping, disc>>

-----------------------------------------------------------------------------
(* disconnect, which Hermes calls once.                                     *)

TaskOver == sup.pc \in {"off", "ended", "dead"}

Disconnect ==
    /\ disc.pc = "idle"
    /\ stopping' = TRUE
    /\ cancel' = ~TaskOver
    /\ disc' = At("awaiting")
    /\ UNCHANGED <<up, sup, rest, avoid, client, open, parts, cut>>

\* disconnect leaves the teardown to the task that it cancelled.
BugTakesOver ==
    /\ disc.pc = "awaiting" /\ TaskOver
    /\ disc' = At("done")
    /\ UNCHANGED <<up, sup, rest, avoid, client, open, parts, stopping, cancel, cut>>

DiscTakesOver ==
    /\ disc.pc = "awaiting" /\ TaskOver
    /\ disc' = At("teardown")
    /\ UNCHANGED <<up, sup, rest, avoid, client, open, parts, stopping, cancel, cut>>

DiscTeardown ==
    /\ disc.pc = "teardown"
    /\ TakeApart(Order[disc.at])
    /\ disc' = IF disc.at = Len(Order) THEN At("done") ELSE [disc EXCEPT !.at = @ + 1]
    /\ UNCHANGED <<up, sup, rest, avoid, stopping, cancel, cut>>

-----------------------------------------------------------------------------
Supervise ==
    \/ Rank \/ DialOpens \/ DialFails \/ NobodyAnswers
    \/ Ready \/ Refused \/ Breaks
    \/ Teardown \/ Sleep \/ Cancelled

Next ==
    \/ Weather \/ RequestSweep \/ SweepEnds
    \/ Connect \/ PumpEnds \/ Supervise
    \/ Disconnect \/ DiscTakesOver \/ DiscTeardown

\* The event loop runs a task that can run.  Nobody has to disconnect, and a
\* socket need not drop.
Spec ==
    /\ Init /\ [][Next]_vars
    /\ WF_vars(Supervise) /\ WF_vars(DiscTakesOver \/ DiscTeardown)

-----------------------------------------------------------------------------
(* Properties                                                               *)

\* Wherever a disconnect or a drop meets the task, and whatever part of the
\* teardown a cancellation cuts short or is swallowed by, nothing of a session
\* outlives it: no part when the supervisor dials or sleeps and none when
\* disconnect returns, and no socket but the session's and the one in the
\* handshake.  Two things do stay behind: the sweep that an append asks for when
\* the teardown is past it, and a socket whose handshake disconnect cancelled.
NothingLeftBehind ==
    /\ sup.pc \in {"rank", "dial", "hello", "sleep"} \/ disc.pc = "done" =>
        parts \subseteq {"once"} /\ client = None
    /\ open \ cut \subseteq
        {client} \cup (IF sup.pc = "hello" THEN {Head(rest)} ELSE {})

Trying == {"rank", "dial", "hello", "teardown", "sleep"}

\* "The supervisor owns the WS lifecycle and reconnects the socket on every drop":
\* as long as it lives and a relay serves, it gets to serve a session, whichever
\* other relays come and go and whichever one it must not prefer.  And disconnect
\* returns, wherever it cancels, also when a part of the teardown swallows the
\* cancellation.
SupervisorPromise ==
    /\ \A r \in Relay :
        <>[](r \in up) => (sup.pc \in Trying ~> stopping \/ sup.pc \in {"pump", "dead"})
    /\ disc.pc = "awaiting" ~> disc.pc = "done"

\* connect: the supervisor "owns the WS lifecycle and reconnects the socket on
\* every drop".  Its task ends only when the gateway stops.
SupervisorLives == sup.pc = "dead" => stopping

=============================================================================
