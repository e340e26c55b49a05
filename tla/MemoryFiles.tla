----------------------------- MODULE MemoryFiles -----------------------------
(***************************************************************************)
(* One memory file of Hermes (MEMORY.md or USER.md) with its snapshots and *)
(* the proposals for it: the RPCs of memory.py.  A handler runs without    *)
(* yielding the event loop, but other processes share the directory: the   *)
(* agent, which writes the file under the same lock, and possibly other    *)
(* gateways.  So a handler is a sequence of actions, cut where it touches  *)
(* the disk; it can die between any two of them.                           *)
(*                                                                         *)
(* A text is the sequence of entries it is read back as, and stands for    *)
(* its own revision hash.  What a client sends as one entry may contain    *)
(* the delimiter, so a content is a sequence of entries too.  Sizes are    *)
(* counted in entries.                                                     *)
(***************************************************************************)
EXTENDS Integers, Sequences, SequencesExt, Functions

CONSTANTS
    Gateway,    \* processes that answer memory RPCs on this directory
    Nobody,     \* no holder of the file lock
    Entry,      \* entries
    Risky,      \* entries that match a pattern of _THREAT_PATTERNS
    Request,    \* the lists of operations that clients send
    Limit,      \* the configured size limit, 0 for none
    SnapshotId, \* bound: snapshots that can be taken
    ProposalId, \* bound: proposals that can be made
    MaxText,    \* bound: the agent adds nothing to a text this long
    Unchecked,  \* no expected_revision_hash
    Missing,    \* a file that does not exist
    Refused     \* operations that raise

Text == Seq(Entry)
Op == [type : {"add"}, content : Text]
        \cup [type : {"replace"}, index : Int, content : Text]
        \cup [type : {"remove"}, index : Int]
        \cup [type : {"reorder"}, from : Int, to : Int]

ASSUME RequestsAssumption == Request \subseteq Seq(Op) \ {<<>>}
ASSUME SizesAssumption ==
    Limit \in Nat /\ MaxText \in Nat /\ Risky \subseteq Entry
ASSUME HoldersAssumption == Nobody \notin Gateway
\* Missing is told apart from texts, Unchecked from revisions.
ASSUME SpecialAssumption == Missing \notin Text /\ Unchecked \notin Text

VARIABLES
    file,     \* the text of the memory file
    snap,     \* the body and the metadata file of each snapshot
    prop,     \* the metadata file of each proposal
    lock,     \* who holds the lock on the memory file
    pc,       \* where each gateway's handler is
    task,     \* the request it handles
    mine,     \* the snapshot it has taken
    written   \* history: contents written to the file for each proposal

vars == <<file, snap, prop, lock, pc, task, mine, written>>

-----------------------------------------------------------------------------
(* Entries *)

\* _parse_entries of a text.
Entries(text) == [i \in DOMAIN text |-> <<text[i]>>]

\* _op_index, for an index counted from 0.
InRange(index, length) == index >= 0 /\ index < length

\* list.insert takes an index past the end for the end.
\* The operation reorder: pop, correct the target, insert.
Move(es, from, to) ==
    InsertAt(RemoveAt(es, from + 1),
             IF to > from THEN to ELSE to + 1,
             es[from + 1])

\* An operation that is out of range or has nothing to write raises.
ApplyOp(es, op) ==
    CASE op.type = "add" /\ op.content # <<>> -> Append(es, op.content)
      [] op.type = "replace" /\ op.content # <<>>
                             /\ InRange(op.index, Len(es)) ->
           ReplaceAt(es, op.index + 1, op.content)
      [] op.type = "remove" /\ InRange(op.index, Len(es)) ->
           RemoveAt(es, op.index + 1)
      [] op.type = "reorder" /\ InRange(op.from, Len(es))
                             /\ InRange(op.to, Len(es) + 1) ->
           Move(es, op.from, op.to)
      [] OTHER -> Refused

ApplyOps(es, ops) ==
    FoldLeft(LAMBDA sofar, op :
               IF sofar = Refused THEN Refused ELSE ApplyOp(sofar, op),
             es, ops)

BugValidNoDuplicates(es) ==
    /\ \A i \in DOMAIN es : Range(es[i]) \cap Risky = {}
    /\ Limit > 0 => Len(FlattenSeq(es)) <= Limit

BugValidByCount(es) ==
    /\ IsInjective(es)
    /\ \A i \in DOMAIN es : Range(es[i]) \cap Risky = {}
    /\ Limit > 0 => Len(es) <= Limit

\* _validate_entries: contents are compared and scanned before they are
\* joined, and measured afterwards.
Valid(es) ==
    /\ IsInjective(es)
    /\ \A i \in DOMAIN es : Range(es[i]) \cap Risky = {}
    /\ Limit > 0 => Len(FlattenSeq(es)) <= Limit

-----------------------------------------------------------------------------
(* State *)

NoSnapshot == [body |-> Missing, revision |-> Missing]
NoProposal == [status |-> "absent", content |-> <<>>]
Snapshot == [body : Text \cup {Missing}, revision : Text \cup {Missing}]
Proposal == [status : {"absent", "pending", "applied", "rejected"},
             content : Text]

\* A request: the revision it expects, the operations or else the body it
\* writes, and the proposal it settles with what this becomes.
NoTask == [kind |-> "none", expected |-> Unchecked, ops |-> <<>>, body |-> <<>>,
           prop |-> Missing, becomes |-> NoProposal]
Task == [kind : {"none", "write", "restore", "snapshot", "proposal"},
         expected : Text \cup {Unchecked}, ops : Seq(Op), body : Text,
         prop : ProposalId \cup {Missing}, becomes : Proposal]

TypeOK ==
    /\ file \in Text
    /\ snap \in [SnapshotId -> Snapshot]
    /\ prop \in [ProposalId -> Proposal]
    /\ lock \in Gateway \cup {Nobody}
    /\ pc \in [Gateway -> {"idle", "lock", "meta", "replace", "settle"}]
    /\ task \in [Gateway -> Task]
    /\ mine \in [Gateway -> SnapshotId \cup {Missing}]
    /\ written \in [ProposalId -> SUBSET Text]

Init ==
    /\ file = <<>>
    /\ snap = [s \in SnapshotId |-> NoSnapshot]
    /\ prop = [p \in ProposalId |-> NoProposal]
    /\ lock = Nobody
    /\ pc = [g \in Gateway |-> "idle"]
    /\ task = [g \in Gateway |-> NoTask]
    /\ mine = [g \in Gateway |-> Missing]
    /\ written = [p \in ProposalId |-> {}]

\* A snapshot that list, read and restore can see: both files are there.
Complete(s) == snap[s].body # Missing /\ snap[s].revision # Missing

Begin(g, phase, t) ==
    /\ pc[g] = "idle"
    /\ pc' = [pc EXCEPT ![g] = phase]
    /\ task' = [task EXCEPT ![g] = t]
    /\ UNCHANGED <<file, snap, prop, lock, mine, written>>

Finish(g) ==
    /\ pc' = [pc EXCEPT ![g] = "idle"]
    /\ task' = [task EXCEPT ![g] = NoTask]
    /\ mine' = [mine EXCEPT ![g] = Missing]

-----------------------------------------------------------------------------
(* Requests that write the memory file.  The client has loaded the file    *)
(* when its request begins; the file may change before the lock is taken.  *)

BeginWrite(g) ==
    \E ops \in Request :
      Begin(g, "lock", [NoTask EXCEPT !.kind = "write", !.expected = file,
                                      !.ops = ops])

BeginSnapshot(g) ==
    \E rev \in {file, Unchecked} :
      Begin(g, "lock", [NoTask EXCEPT !.kind = "snapshot", !.expected = rev])

\* restore_memory_snapshot reads and validates the snapshot without the lock.
BeginRestore(g) ==
    \E s \in SnapshotId, rev \in {file, Unchecked} :
      /\ Complete(s)
      /\ Valid(Entries(snap[s].body))
      /\ Begin(g, "lock", [NoTask EXCEPT !.kind = "restore", !.expected = rev,
                                         !.body = snap[s].body])

Pending(p) == prop[p].status = "pending"

\* What apply_memory_proposal asks of write_memory: it adds the content,
\* and expects the revision that it has just read itself.
ApplyTask(p) ==
    [NoTask EXCEPT !.kind = "write", !.expected = file, !.prop = p,
                   !.ops = <<[type |-> "add", content |-> prop[p].content]>>,
                   !.becomes = [prop[p] EXCEPT !.status = "applied"]]

BugBeginApply(g) ==
    \E p \in ProposalId :
      /\ prop[p].status # "absent"
      /\ Begin(g, "lock", ApplyTask(p))

BugMarkFirst(g) ==
    \E p \in ProposalId :
      /\ Pending(p) /\ pc[g] = "idle"
      /\ prop' = [prop EXCEPT ![p].status = "applied"]
      /\ pc' = [pc EXCEPT ![g] = "lock"]
      /\ task' = [task EXCEPT ![g] =
                    [NoTask EXCEPT !.kind = "write", !.expected = file,
                                   !.ops = <<[type |-> "add", content |-> prop[p].content]>>]]
      /\ UNCHANGED <<file, snap, lock, mine, written>>

\* apply_memory_proposal up to the lock.
BeginApply(g) ==
    \E p \in ProposalId :
      /\ Pending(p)
      /\ Begin(g, "lock", ApplyTask(p))

\* The entries the file would have.
After(g) == IF task[g].kind = "write" THEN ApplyOps(Entries(file), task[g].ops)
                                      ELSE Entries(task[g].body)

Expects(g) == task[g].expected \in {file, Unchecked}

\* What the holder of the lock requires before it changes anything.
Admissible(g) ==
    /\ Expects(g)
    /\ task[g].kind = "write" => After(g) # Refused /\ Valid(After(g))

Reject(g) ==
    /\ pc[g] = "lock" /\ lock = Nobody
    /\ ~Admissible(g)
    /\ Finish(g)
    /\ UNCHANGED <<file, snap, prop, lock, written>>

BugSaveBody(g) ==
    /\ pc[g] = "lock" /\ lock = Nobody
    /\ task[g].kind = "write" => After(g) # Refused /\ Valid(After(g))
    /\ lock' = g
    /\ \E s \in SnapshotId :
         /\ snap[s] = NoSnapshot
         /\ snap' = [snap EXCEPT ![s].body = file]
         /\ mine' = [mine EXCEPT ![g] = s]
    /\ pc' = [pc EXCEPT ![g] = "meta"]
    /\ UNCHANGED <<file, prop, task, written>>

\* Under the lock: read, compare, apply, validate, and the first file of the
\* snapshot, whose id is fresh.
SaveBody(g) ==
    /\ pc[g] = "lock" /\ lock = Nobody
    /\ Admissible(g)
    /\ lock' = g
    /\ \E s \in SnapshotId :
         /\ snap[s] = NoSnapshot
         /\ snap' = [snap EXCEPT ![s].body = file]
         /\ mine' = [mine EXCEPT ![g] = s]
    /\ pc' = [pc EXCEPT ![g] = "meta"]
    /\ UNCHANGED <<file, prop, task, written>>

BugSaveMeta(g) ==
    /\ pc[g] = "meta"
    /\ snap' = [snap EXCEPT ![mine[g]].revision =
                  IF task[g].kind = "snapshot" THEN file ELSE FlattenSeq(After(g))]
    /\ IF task[g].kind = "snapshot"
       THEN lock' = Nobody /\ Finish(g)
       ELSE /\ pc' = [pc EXCEPT ![g] = "replace"]
            /\ UNCHANGED <<lock, task, mine>>
    /\ UNCHANGED <<file, prop, written>>

\* The second file of the snapshot; create_memory_snapshot ends with it.
SaveMeta(g) ==
    /\ pc[g] = "meta"
    /\ snap' = [snap EXCEPT ![mine[g]].revision = file]
    /\ IF task[g].kind = "snapshot"
       THEN lock' = Nobody /\ Finish(g)
       ELSE /\ pc' = [pc EXCEPT ![g] = "replace"]
            /\ UNCHANGED <<lock, task, mine>>
    /\ UNCHANGED <<file, prop, written>>

\* _atomic_write_text of the memory file.  Nobody else changes it before it
\* is read back and the lock released, so this is one step.  A request that
\* applies a proposal goes on.
Replace(g) ==
    /\ pc[g] = "replace"
    /\ file' = FlattenSeq(After(g))
    /\ lock' = Nobody
    /\ IF task[g].prop = Missing
       THEN Finish(g) /\ UNCHANGED written
       ELSE /\ pc' = [pc EXCEPT ![g] = "settle"]
            /\ written' = [written EXCEPT ![task[g].prop] =
                             @ \cup {task[g].becomes.content}]
            /\ UNCHANGED <<task, mine>>
    /\ UNCHANGED <<snap, prop>>

-----------------------------------------------------------------------------
(* Proposals.  Their files have no lock.  The content of a proposal is     *)
(* drafted with all white space collapsed, so it is a single entry.        *)

Create(g) ==
    \E p \in ProposalId, e \in Entry :
      /\ pc[g] = "idle"
      /\ prop[p] = NoProposal
      /\ Valid(Append(Entries(file), <<e>>))
      /\ prop' = [prop EXCEPT ![p] = [status |-> "pending", content |-> <<e>>]]
      /\ UNCHANGED <<file, snap, lock, pc, task, mine, written>>

BeginUpdate(g) ==
    \E p \in ProposalId, e \in Entry :
      /\ Pending(p)
      /\ Valid(Append(Entries(file), <<e>>))
      /\ Begin(g, "settle",
               [NoTask EXCEPT !.kind = "proposal", !.prop = p,
                              !.becomes = [status |-> "pending",
                                           content |-> <<e>>]])

BeginReject(g) ==
    \E p \in ProposalId :
      /\ Pending(p)
      /\ Begin(g, "settle",
               [NoTask EXCEPT !.kind = "proposal", !.prop = p,
                              !.becomes = [prop[p] EXCEPT !.status = "rejected"]])

\* _write_proposal with what was read, changed.
Settle(g) ==
    /\ pc[g] = "settle"
    /\ prop' = [prop EXCEPT ![task[g].prop] = task[g].becomes]
    /\ Finish(g)
    /\ UNCHANGED <<file, snap, lock, written>>

-----------------------------------------------------------------------------
(* Failure and the other writer *)

\* A write to the disk raises, or the process dies: the lock is released,
\* files that were replaced stay.
Abandon(g) ==
    /\ pc[g] # "idle"
    /\ lock' = IF lock = g THEN Nobody ELSE lock
    /\ Finish(g)
    /\ UNCHANGED <<file, snap, prop, written>>

\* The agent adds or removes an entry, under the lock.
AgentWrite ==
    /\ lock = Nobody
    /\ \/ \E e \in Entry \ Range(file) :
            /\ Len(file) < MaxText
            /\ file' = Append(file, e)
       \/ \E i \in DOMAIN file : file' = RemoveAt(file, i)
    /\ UNCHANGED <<snap, prop, lock, pc, task, mine, written>>

Handler(g) ==
    \/ BeginWrite(g) \/ BeginSnapshot(g) \/ BeginRestore(g) \/ BeginApply(g)
    \/ Reject(g) \/ SaveBody(g) \/ SaveMeta(g) \/ Replace(g)
    \/ Create(g) \/ BeginUpdate(g) \/ BeginReject(g) \/ Settle(g)
    \/ Abandon(g)

Next == AgentWrite \/ \E g \in Gateway : Handler(g)

Spec == Init /\ [][Next]_vars

-----------------------------------------------------------------------------
(* Properties *)

\* A gateway changes the memory file: only the holder of the lock does.
Changes(g) == lock = g /\ file' # file

\* A write goes to the revision its client expected: nothing that the agent
\* or another gateway wrote since the client loaded the file is overwritten
\* (the comparison of hashes under _file_lock).
NoLostUpdate == [][\A g \in Gateway : Changes(g) => Expects(g)]_vars

\* When a gateway replaces the text, a snapshot that can be listed and
\* restored already holds the replaced one, with its hash, whatever failed
\* before.
UndoSaved ==
    [][\A g \in Gateway : Changes(g) =>
         \E s \in SnapshotId : snap[s] = [body |-> file, revision |-> file]]_vars

\* What a gateway writes is within the limit and free of blocked patterns,
\* also when it restores a text that the agent wrote.
WritesAreLegal ==
    [][\A g \in Gateway : Changes(g) =>
         /\ Range(file') \cap Risky = {}
         /\ Limit > 0 => Len(file') <= Limit]_vars

\* A proposal that is marked applied has been written to the memory file
\* with the content it shows (apply_memory_proposal writes the status last).
AppliedMeansWritten ==
    \A p \in ProposalId :
      prop[p].status = "applied" => prop[p].content \in written[p]

\* A proposal that is applied again, because the gateway died before it
\* marked it, does not get a second copy into the memory file.
RetryAddsNoCopy ==
    [][\A g \in Gateway : Changes(g) /\ task[g].prop # Missing =>
         Range(task[g].becomes.content) \cap Range(file) = {}]_vars

\* With one gateway a proposal that has been applied or rejected keeps its
\* status and content and is not written to the memory file again
\* (_require_pending_proposal; the other handlers do not look).
SettledIsFinal ==
    [][\A p \in ProposalId :
         prop[p].status \in {"applied", "rejected"} =>
           prop'[p] = prop[p] /\ written'[p] = written[p]]_vars

\* "Exact duplicate memory entries are not allowed": what a gateway writes
\* has no entry twice.  A content with the delimiter in it breaks this.
NoDuplicateWritten ==
    [][\A g \in Gateway : Changes(g) => IsInjective(file')]_vars

=============================================================================
