-------------------------- MODULE MemoryFilesProofs --------------------------
(***************************************************************************)
(* Proofs about MemoryFiles, for any set of gateways that share a memory   *)
(* directory: first who may write, for which the shapes of the state are   *)
(* enough; then, with the steps of the fold over a list of operations and  *)
(* of FlattenSeq, the types and what is written; last what needs that the  *)
(* directory has a single gateway.                                         *)
(***************************************************************************)
EXTENDS MemoryFiles, SequenceTheorems, WellFoundedInduction, TLAPS

IsSnapshot(r) == r = [body |-> r.body, revision |-> r.revision]
IsProposal(r) == r = [status |-> r.status, content |-> r.content]

Shapes ==
    /\ DOMAIN pc = Gateway /\ DOMAIN task = Gateway /\ DOMAIN mine = Gateway
    /\ DOMAIN snap = SnapshotId /\ \A s \in SnapshotId : IsSnapshot(snap[s])
    /\ DOMAIN prop = ProposalId /\ \A p \in ProposalId : IsProposal(prop[p])
    /\ DOMAIN written = ProposalId

\* The handler that has got past the comparison holds the lock, the file is
\* still what it compared, and its snapshot is of that file.
Holding ==
    \A g \in Gateway :
      /\ pc[g] \in {"meta", "replace"} =>
           /\ lock = g
           /\ Expects(g)
           /\ mine[g] \in SnapshotId
           /\ snap[mine[g]].body = file
      /\ pc[g] = "replace" => snap[mine[g]].revision = file

\* What a handler is going to write to a proposal's file.
Settling ==
    \A g \in Gateway :
      /\ pc[g] # "idle" => task[g].prop \in ProposalId \cup {Missing}
      /\ pc[g] # "idle" => IsProposal(task[g].becomes)
      /\ pc[g] = "settle" =>
           /\ task[g].prop \in ProposalId
           /\ task[g].becomes.status = "applied" =>
                task[g].becomes.content \in written[task[g].prop]

IInv == Shapes /\ Holding /\ Settling /\ AppliedMeansWritten

-----------------------------------------------------------------------------
(* The invariant *)

\* The initial state satisfies it.
LEMMA InitIInv == Init => IInv
  BY HoldersAssumption
     DEF Init, IInv, Shapes, Holding, Settling, AppliedMeansWritten,
         IsSnapshot, IsProposal, NoSnapshot, NoProposal, NoTask

\* A request that begins holds nothing; it must only know what it may write
\* to a proposal's file.
LEMMA BeginKeepsIInv ==
  ASSUME IInv, NEW g \in Gateway, NEW phase \in {"lock", "settle"}, NEW t,
         Begin(g, phase, t),
         t.prop \in ProposalId \cup {Missing}, IsProposal(t.becomes),
         phase = "settle" => t.prop \in ProposalId
                             /\ t.becomes.status # "applied"
  PROVE  IInv'
<1>1. /\ DOMAIN pc' = Gateway /\ DOMAIN task' = Gateway
      /\ pc'[g] = phase /\ task'[g] = t
      /\ \A h \in Gateway \ {g} : pc'[h] = pc[h] /\ task'[h] = task[h]
  BY DEF Begin, IInv, Shapes
<1>2. UNCHANGED <<file, snap, prop, lock, mine, written>>
  BY DEF Begin
<1>3. Shapes'
  BY <1>1, <1>2 DEF IInv, Shapes, IsSnapshot, IsProposal
<1>4. Holding'
  BY <1>1, <1>2 DEF IInv, Holding, Expects
<1>5. Settling'
  BY <1>1, <1>2 DEF IInv, Settling, IsProposal
<1>6. AppliedMeansWritten'
  BY <1>2 DEF IInv, AppliedMeansWritten
<1> QED  BY <1>3, <1>4, <1>5, <1>6 DEF IInv

\* The handler becomes idle and changes no file (the end of a refused, a
\* failed and an interrupted request).
LEMMA StopKeepsIInv ==
  ASSUME IInv, NEW g \in Gateway, Finish(g),
         UNCHANGED <<file, snap, prop, written>>,
         lock' = lock \/ (lock = g /\ lock' = Nobody)
  PROVE  IInv'
<1>1. /\ DOMAIN pc' = Gateway /\ DOMAIN task' = Gateway /\ DOMAIN mine' = Gateway
      /\ pc'[g] = "idle"
      /\ \A h \in Gateway \ {g} :
           pc'[h] = pc[h] /\ task'[h] = task[h] /\ mine'[h] = mine[h]
  BY DEF Finish, IInv, Shapes
<1>2. Shapes'
  BY <1>1 DEF IInv, Shapes, IsSnapshot, IsProposal
<1>3. Holding'
  BY <1>1 DEF IInv, Holding, Expects
<1>4. Settling'
  BY <1>1 DEF IInv, Settling, IsProposal
<1>5. AppliedMeansWritten'
  BY DEF IInv, AppliedMeansWritten
<1> QED  BY <1>2, <1>3, <1>4, <1>5 DEF IInv

\* Of two handlers only one can hold the lock.
LEMMA OneHolder ==
  ASSUME IInv, NEW g \in Gateway, pc[g] \in {"meta", "replace"} \/ lock = Nobody,
         NEW h \in Gateway, h # g
  PROVE  pc[h] \notin {"meta", "replace"}
  BY HoldersAssumption DEF IInv, Holding

\* Under the lock the comparison has just been made and the body is of the
\* text that was compared.
LEMMA SaveBodyKeepsIInv ==
  ASSUME IInv, NEW g \in Gateway, SaveBody(g)
  PROVE  IInv'
<1>1. PICK s \in SnapshotId :
        /\ snap' = [snap EXCEPT ![s].body = file]
        /\ mine' = [mine EXCEPT ![g] = s]
  BY DEF SaveBody
<1>2. /\ DOMAIN pc' = Gateway /\ DOMAIN mine' = Gateway
      /\ pc'[g] = "meta" /\ mine'[g] = s
      /\ \A h \in Gateway \ {g} : pc'[h] = pc[h] /\ mine'[h] = mine[h]
  BY <1>1 DEF SaveBody, IInv, Shapes
<1>3. /\ DOMAIN snap' = SnapshotId
      /\ snap'[s] = [body |-> file, revision |-> snap[s].revision]
      /\ \A r \in SnapshotId \ {s} : snap'[r] = snap[r]
  <2>1. snap[s] = [body |-> snap[s].body, revision |-> snap[s].revision]
    BY DEF IInv, Shapes, IsSnapshot
  <2>2. [snap[s] EXCEPT !.body = file]
          = [body |-> file, revision |-> snap[s].revision]
    BY <2>1
  <2> QED  BY <1>1, <2>2 DEF IInv, Shapes
<1>4. /\ lock' = g /\ Expects(g) /\ lock = Nobody
      /\ UNCHANGED <<file, prop, task, written>>
  BY DEF SaveBody, Admissible
<1>5. Shapes'
  BY <1>2, <1>3, <1>4 DEF IInv, Shapes, IsSnapshot, IsProposal
<1>6. Holding'
  BY <1>2, <1>3, <1>4, OneHolder DEF Holding, Expects
<1>7. Settling'
  BY <1>2, <1>4 DEF IInv, Settling, IsProposal, SaveBody
<1>8. AppliedMeansWritten'
  BY <1>4 DEF IInv, AppliedMeansWritten
<1> QED  BY <1>5, <1>6, <1>7, <1>8 DEF IInv

\* The metadata completes the snapshot.
LEMMA SaveMetaKeepsIInv ==
  ASSUME IInv, NEW g \in Gateway, SaveMeta(g)
  PROVE  IInv'
<1> DEFINE s == mine[g]
<1>1. /\ s \in SnapshotId /\ snap[s].body = file /\ lock = g /\ Expects(g)
      /\ pc[g] = "meta"
  BY DEF SaveMeta, IInv, Holding
<1>2. /\ DOMAIN snap' = SnapshotId
      /\ snap'[s] = [body |-> file, revision |-> file]
      /\ \A r \in SnapshotId \ {s} : snap'[r] = snap[r]
  <2>1. snap[s] = [body |-> file, revision |-> snap[s].revision]
    BY <1>1 DEF IInv, Shapes, IsSnapshot
  <2>2. [snap[s] EXCEPT !.revision = file] = [body |-> file, revision |-> file]
    BY <2>1
  <2> QED  BY <1>1, <2>2 DEF IInv, Shapes, SaveMeta
<1>3. UNCHANGED <<file, prop, written>>
  BY DEF SaveMeta
<1>4. /\ DOMAIN pc' = Gateway /\ DOMAIN task' = Gateway /\ DOMAIN mine' = Gateway
      /\ \A h \in Gateway \ {g} :
           pc'[h] = pc[h] /\ task'[h] = task[h] /\ mine'[h] = mine[h]
      /\ \/ pc'[g] = "idle" /\ lock' = Nobody
         \/ /\ pc'[g] = "replace"
            /\ lock' = lock /\ task'[g] = task[g] /\ mine'[g] = mine[g]
  BY DEF SaveMeta, Finish, IInv, Shapes
<1>5. \A h \in Gateway \ {g} : pc[h] \notin {"meta", "replace"}
  BY <1>1, OneHolder
<1>6. Shapes'
  BY <1>2, <1>3, <1>4 DEF IInv, Shapes, IsSnapshot, IsProposal
<1>7. Holding'
  BY <1>1, <1>2, <1>3, <1>4, <1>5 DEF Holding, Expects
<1>8. Settling'
  BY <1>1, <1>3, <1>4 DEF IInv, Settling, IsProposal
<1>9. AppliedMeansWritten'
  BY <1>3 DEF IInv, AppliedMeansWritten
<1> QED  BY <1>6, <1>7, <1>8, <1>9 DEF IInv

\* The file changes under the lock, so no other handler has compared it; a
\* proposal's content is recorded as written before its status is.
LEMMA ReplaceKeepsIInv ==
  ASSUME IInv, NEW g \in Gateway, Replace(g)
  PROVE  IInv'
<1>1. pc[g] = "replace" /\ lock = g /\ lock' = Nobody
  BY DEF Replace, IInv, Holding
<1>2. \A h \in Gateway \ {g} : pc[h] \notin {"meta", "replace"}
  BY <1>1, OneHolder
<1>3. UNCHANGED <<snap, prop>>
  BY DEF Replace
<1>4. /\ DOMAIN pc' = Gateway /\ DOMAIN task' = Gateway /\ DOMAIN mine' = Gateway
      /\ \A h \in Gateway \ {g} :
           pc'[h] = pc[h] /\ task'[h] = task[h] /\ mine'[h] = mine[h]
      /\ \/ pc'[g] = "idle" /\ written' = written
         \/ /\ task[g].prop # Missing
            /\ pc'[g] = "settle" /\ task'[g] = task[g]
            /\ written' = [written EXCEPT ![task[g].prop] =
                             @ \cup {task[g].becomes.content}]
  BY DEF Replace, Finish, IInv, Shapes
<1>5. /\ DOMAIN written' = ProposalId
      /\ \A p \in ProposalId : written[p] \subseteq written'[p]
  BY <1>4 DEF IInv, Shapes
<1>6. Shapes'
  BY <1>3, <1>4, <1>5 DEF IInv, Shapes, IsSnapshot, IsProposal
<1>7. Holding'
  BY <1>2, <1>4 DEF Holding
<1>8. Settling'
  <2>1. /\ task[g].prop \in ProposalId \cup {Missing}
        /\ IsProposal(task[g].becomes)
    BY <1>1 DEF IInv, Settling
  <2>2. pc'[g] = "settle" =>
          task[g].becomes.content \in written'[task[g].prop]
    BY <1>4, <2>1 DEF IInv, Shapes
  <2> QED  BY <1>4, <1>5, <2>1, <2>2 DEF IInv, Settling, IsProposal
<1>9. AppliedMeansWritten'
  BY <1>3, <1>5 DEF IInv, AppliedMeansWritten
<1> QED  BY <1>6, <1>7, <1>8, <1>9 DEF IInv

\* A handler writes a status to a proposal's file.
LEMMA SettleKeepsIInv ==
  ASSUME IInv, NEW g \in Gateway, Settle(g)
  PROVE  IInv'
<1> DEFINE p == task[g].prop
           r == task[g].becomes
<1>1. /\ p \in ProposalId /\ IsProposal(r)
      /\ r.status = "applied" => r.content \in written[p]
  BY DEF Settle, IInv, Settling
<1>2. /\ DOMAIN prop' = ProposalId /\ prop'[p] = r
      /\ \A q \in ProposalId \ {p} : prop'[q] = prop[q]
  BY <1>1 DEF Settle, IInv, Shapes
<1>3. UNCHANGED <<file, snap, lock, written>>
  BY DEF Settle
<1>4. /\ DOMAIN pc' = Gateway /\ DOMAIN task' = Gateway /\ DOMAIN mine' = Gateway
      /\ pc'[g] = "idle"
      /\ \A h \in Gateway \ {g} :
           pc'[h] = pc[h] /\ task'[h] = task[h] /\ mine'[h] = mine[h]
  BY DEF Settle, Finish, IInv, Shapes
<1>5. Shapes'
  BY <1>1, <1>2, <1>3, <1>4 DEF IInv, Shapes, IsSnapshot, IsProposal
<1>6. Holding'
  BY <1>3, <1>4 DEF IInv, Holding, Expects
<1>7. Settling'
  BY <1>3, <1>4 DEF IInv, Settling, IsProposal
<1>8. AppliedMeansWritten'
  BY <1>1, <1>2, <1>3 DEF IInv, AppliedMeansWritten
<1> QED  BY <1>5, <1>6, <1>7, <1>8 DEF IInv

\* A new proposal is pending.
LEMMA CreateKeepsIInv ==
  ASSUME IInv, NEW g \in Gateway, Create(g)
  PROVE  IInv'
<1>1. PICK p \in ProposalId, e \in Entry :
        prop' = [prop EXCEPT ![p] = [status |-> "pending", content |-> <<e>>]]
  BY DEF Create
<1>2. UNCHANGED <<file, snap, lock, pc, task, mine, written>>
  BY DEF Create
<1>3. /\ DOMAIN prop' = ProposalId
      /\ prop'[p] = [status |-> "pending", content |-> <<e>>]
      /\ \A q \in ProposalId \ {p} : prop'[q] = prop[q]
  BY <1>1 DEF IInv, Shapes
<1>4. Shapes'
  BY <1>2, <1>3 DEF IInv, Shapes, IsSnapshot, IsProposal
<1>5. Holding' /\ Settling'
  BY <1>2 DEF IInv, Holding, Expects, Settling, IsProposal
<1>6. AppliedMeansWritten'
  BY <1>2, <1>3 DEF IInv, AppliedMeansWritten
<1> QED  BY <1>4, <1>5, <1>6 DEF IInv

\* The agent finds the lock free, so no handler has compared the file.
LEMMA AgentKeepsIInv == IInv /\ AgentWrite => IInv'
<1> SUFFICES ASSUME IInv, AgentWrite PROVE IInv'
  OBVIOUS
<1>1. lock = Nobody /\ UNCHANGED <<snap, prop, lock, pc, task, mine, written>>
  BY DEF AgentWrite
<1>2. \A g \in Gateway : pc[g] \notin {"meta", "replace"}
  BY <1>1, HoldersAssumption DEF IInv, Holding
<1>3. Shapes' /\ Settling' /\ AppliedMeansWritten'
  BY <1>1 DEF IInv, Shapes, Settling, AppliedMeansWritten, IsSnapshot, IsProposal
<1>4. Holding'
  BY <1>1, <1>2 DEF Holding
<1> QED  BY <1>3, <1>4 DEF IInv

\* The requests, which differ in the task they set.
LEMMA RequestsKeepIInv ==
  ASSUME IInv, NEW g \in Gateway,
         \/ BeginWrite(g) \/ BeginSnapshot(g) \/ BeginRestore(g)
         \/ BeginApply(g) \/ BeginUpdate(g) \/ BeginReject(g)
  PROVE  IInv'
<1>1. CASE BeginWrite(g)
  <2>1. PICK ops \in Request :
          Begin(g, "lock", [NoTask EXCEPT !.kind = "write", !.expected = file,
                                          !.ops = ops])
    BY <1>1 DEF BeginWrite
  <2> QED  BY <2>1, BeginKeepsIInv DEF NoTask, NoProposal, IsProposal
<1>2. CASE BeginSnapshot(g)
  <2>1. PICK rev \in {file, Unchecked} :
          Begin(g, "lock", [NoTask EXCEPT !.kind = "snapshot", !.expected = rev])
    BY <1>2 DEF BeginSnapshot
  <2> QED  BY <2>1, BeginKeepsIInv DEF NoTask, NoProposal, IsProposal
<1>3. CASE BeginRestore(g)
  <2>1. PICK s \in SnapshotId, rev \in {file, Unchecked} :
          Begin(g, "lock", [NoTask EXCEPT !.kind = "restore", !.expected = rev,
                                          !.body = snap[s].body])
    BY <1>3 DEF BeginRestore
  <2> QED  BY <2>1, BeginKeepsIInv DEF NoTask, NoProposal, IsProposal
<1>4. CASE BeginApply(g)
  <2>1. PICK p \in ProposalId : Begin(g, "lock", ApplyTask(p))
    BY <1>4 DEF BeginApply
  <2>2. prop[p] = [status |-> prop[p].status, content |-> prop[p].content]
    BY DEF IInv, Shapes, IsProposal
  <2>3. [prop[p] EXCEPT !.status = "applied"]
          = [status |-> "applied", content |-> prop[p].content]
    BY <2>2
  <2>4. /\ ApplyTask(p).prop = p
        /\ ApplyTask(p).becomes = [prop[p] EXCEPT !.status = "applied"]
    BY DEF ApplyTask, NoTask
  <2>5. IsProposal(ApplyTask(p).becomes)
    BY <2>3, <2>4 DEF IsProposal
  <2> QED  BY <2>1, <2>4, <2>5, BeginKeepsIInv
<1>5. CASE BeginUpdate(g)
  <2>1. PICK p \in ProposalId, e \in Entry :
          Begin(g, "settle",
                [NoTask EXCEPT !.kind = "proposal", !.prop = p,
                               !.becomes = [status |-> "pending",
                                            content |-> <<e>>]])
    BY <1>5 DEF BeginUpdate
  <2> QED  BY <2>1, BeginKeepsIInv DEF NoTask, IsProposal
<1>6. CASE BeginReject(g)
  <2>1. PICK p \in ProposalId :
          Begin(g, "settle",
                [NoTask EXCEPT !.kind = "proposal", !.prop = p,
                               !.becomes = [prop[p] EXCEPT !.status = "rejected"]])
    BY <1>6 DEF BeginReject
  <2>2. prop[p] = [status |-> prop[p].status, content |-> prop[p].content]
    BY DEF IInv, Shapes, IsProposal
  <2>3. [prop[p] EXCEPT !.status = "rejected"]
          = [status |-> "rejected", content |-> prop[p].content]
    BY <2>2
  <2> DEFINE t == [NoTask EXCEPT !.kind = "proposal", !.prop = p,
                                 !.becomes = [prop[p] EXCEPT !.status = "rejected"]]
  <2>4. /\ t.prop = p
        /\ t.becomes = [status |-> "rejected", content |-> prop[p].content]
    BY <2>3 DEF NoTask
  <2>5. IsProposal(t.becomes) /\ t.becomes.status # "applied"
    BY <2>4 DEF IsProposal
  <2> QED  BY <2>1, <2>4, <2>5, BeginKeepsIInv
<1> QED  BY <1>1, <1>2, <1>3, <1>4, <1>5, <1>6

\* Every step keeps the invariant.
LEMMA NextKeepsIInv == IInv /\ [Next]_vars => IInv'
<1> SUFFICES ASSUME IInv, [Next]_vars PROVE IInv'
  OBVIOUS
<1>1. CASE AgentWrite
  BY <1>1, AgentKeepsIInv
<1>2. ASSUME NEW g \in Gateway, Handler(g) PROVE IInv'
  <2>1. CASE \/ BeginWrite(g) \/ BeginSnapshot(g) \/ BeginRestore(g)
             \/ BeginApply(g) \/ BeginUpdate(g) \/ BeginReject(g)
    BY <2>1, RequestsKeepIInv
  <2>2. CASE Reject(g)
    BY <2>2, StopKeepsIInv DEF Reject
  <2>3. CASE Abandon(g)
    BY <2>3, StopKeepsIInv DEF Abandon
  <2>4. CASE SaveBody(g)
    BY <2>4, SaveBodyKeepsIInv
  <2>5. CASE SaveMeta(g)
    BY <2>5, SaveMetaKeepsIInv
  <2>6. CASE Replace(g)
    BY <2>6, ReplaceKeepsIInv
  <2>7. CASE Create(g)
    BY <2>7, CreateKeepsIInv
  <2>8. CASE Settle(g)
    BY <2>8, SettleKeepsIInv
  <2> QED  BY <1>2, <2>1, <2>2, <2>3, <2>4, <2>5, <2>6, <2>7, <2>8 DEF Handler
<1>3. CASE UNCHANGED vars
  BY <1>3 DEF vars, IInv, Shapes, Holding, Settling, AppliedMeansWritten,
              IsSnapshot, IsProposal, Expects
<1> QED  BY <1>1, <1>2, <1>3 DEF Next

\* The invariant holds of every behaviour.
LEMMA SpecIInv == Spec => []IInv
<1> QED  BY InitIInv, NextKeepsIInv, PTL DEF Spec

-----------------------------------------------------------------------------
(* What follows *)

\* When the file changes while a gateway holds the lock, it is this gateway
\* that replaces it: no other handler is past the comparison, and the agent
\* needs the lock.
LEMMA OnlyHolderChanges ==
  ASSUME IInv, [Next]_vars, NEW g \in Gateway, Changes(g)
  PROVE  Replace(g)
<1>1. lock = g /\ lock # Nobody /\ file' # file
  BY HoldersAssumption DEF Changes
<1>2. ~AgentWrite /\ ~UNCHANGED vars
  BY <1>1 DEF AgentWrite, vars
<1>3. PICK h \in Gateway : Handler(h)
  BY <1>2 DEF Next
<1>4. Replace(h)
  BY <1>1, <1>3 DEF Handler, Begin, BeginWrite, BeginSnapshot, BeginRestore,
       BeginApply, BeginUpdate, BeginReject, Reject, SaveBody, SaveMeta,
       Create, Settle, Abandon
<1>5. h = g
  BY <1>1, <1>4 DEF Replace, IInv, Holding
<1> QED  BY <1>4, <1>5

\* No write of a gateway overwrites what its client had not seen, however
\* many gateways share the directory.
THEOREM NothingOverwritten == Spec => NoLostUpdate
<1>1. IInv /\ [Next]_vars => \A g \in Gateway : Changes(g) => Expects(g)
  BY OnlyHolderChanges DEF Replace, IInv, Holding
<1>2. IInv /\ [Next]_vars =>
        [\A g \in Gateway : Changes(g) => Expects(g)]_vars
  BY <1>1
<1> QED  BY <1>2, SpecIInv, PTL DEF Spec, NoLostUpdate

\* Whenever a gateway replaces the text, a complete snapshot holds the one
\* replaced.
THEOREM AlwaysUndoable == Spec => UndoSaved
<1>1. IInv /\ [Next]_vars =>
        \A g \in Gateway : Changes(g) =>
          \E s \in SnapshotId : snap[s] = [body |-> file, revision |-> file]
  <2> SUFFICES ASSUME IInv, [Next]_vars, NEW g \in Gateway, Changes(g)
               PROVE  /\ mine[g] \in SnapshotId
                      /\ snap[mine[g]] = [body |-> file, revision |-> file]
    OBVIOUS
  <2>1. pc[g] = "replace"
    BY OnlyHolderChanges DEF Replace
  <2>2. /\ mine[g] \in SnapshotId /\ snap[mine[g]].body = file
        /\ snap[mine[g]].revision = file
    BY <2>1 DEF IInv, Holding
  <2> QED  BY <2>2 DEF IInv, Shapes, IsSnapshot
<1>2. IInv /\ [Next]_vars =>
        [\A g \in Gateway : Changes(g) =>
           \E s \in SnapshotId : snap[s] = [body |-> file, revision |-> file]]_vars
  BY <1>1
<1> QED  BY <1>2, SpecIInv, PTL DEF Spec, UndoSaved

\* A proposal is marked applied only after its content was written.
THEOREM AppliedIsWritten == Spec => []AppliedMeansWritten
<1>1. IInv => AppliedMeansWritten
  BY DEF IInv
<1> QED  BY <1>1, SpecIInv, PTL

-----------------------------------------------------------------------------
(* Lists of entries *)

\* Induction, for a set instead of a predicate: the numbers have a least one
\* that is not in the set.
LEMMA SetInduction ==
  ASSUME NEW S, 0 \in S, \A n \in Nat : n \in S => n + 1 \in S
  PROVE  \A n \in Nat : n \in S
<1> DEFINE T == Nat \ S
           R == OpToRel(<, Nat)
<1> SUFFICES ASSUME T # {} PROVE FALSE
  OBVIOUS
<1>1. PICK m \in T : \A k \in T : ~(<<k, m>> \in R)
  <2>1. IsWellFoundedOn(R, Nat)
    BY NatLessThanWellFounded
  <2> HIDE DEF R
  <2> QED  BY <2>1, WFMin
<1>2. m - 1 \in T /\ m - 1 < m
  OBVIOUS
<1>3. <<m - 1, m>> \in R
  BY <1>2 DEF OpToRel
<1> QED  BY <1>1, <1>2, <1>3

\* The steps of FlattenSeq.
LEMMA FlattenSteps ==
  ASSUME NEW es \in Seq(Text), Len(es) > 0
  PROVE  \E f : /\ FlattenSeq(es) = f[Len(es)]
                /\ f[1] = es[1]
                /\ \A i \in 2..Len(es) : f[i] = f[i-1] \o es[i]
<1> DEFINE n == Len(es)
           Step(f, i) == IF i = 1 THEN es[i] ELSE f[i-1] \o es[i]
           IsRec(f, k) == f = [i \in 1..k |-> Step(f, i)]
           Rec(f, k) == /\ f = [i \in 1..k |-> f[i]]
                        /\ \A i \in 1..k : f[i] = Step(f, i)
           S == {k \in Nat : \E f : Rec(f, k)}
<1>1. n \in Nat
  OBVIOUS
<1>2. 0 \in S
  <2>1. Rec([i \in 1..0 |-> i], 0)
    OBVIOUS
  <2> QED  BY <2>1
<1>3. ASSUME NEW k \in Nat, k \in S PROVE k + 1 \in S
  <2>1. PICK f : Rec(f, k)
    BY <1>3
  <2> DEFINE h == [i \in 1..(k+1) |-> IF i \in 1..k THEN f[i] ELSE Step(f, i)]
  <2>2. \A i \in 1..k : h[i] = f[i] /\ f[i] = Step(f, i)
    <3>1. \A i \in 1..k : f[i] = Step(f, i)
      BY <2>1
    <3>2. \A i \in 1..k : h[i] = f[i]
      <4> HIDE DEF Step
      <4> QED  OBVIOUS
    <3> QED  BY <3>1, <3>2
  <2>3. h[k+1] = Step(f, k+1)
    OBVIOUS
  <2>4. \A i \in 1..(k+1) : i # 1 => h[i-1] = f[i-1]
    BY <2>2
  <2>5. \A i \in 1..(k+1) : Step(h, i) = Step(f, i)
    <3> HIDE DEF h
    <3> QED  BY <2>4
  <2>6. \A i \in 1..(k+1) : h[i] = Step(f, i)
    <3> HIDE DEF h, Step
    <3> QED  BY <2>2, <2>3
  <2>7. h = [i \in 1..(k+1) |-> h[i]]
    BY Zenon
  <2>8. Rec(h, k+1)
    <3> HIDE DEF h, Step
    <3> QED  BY <2>5, <2>6, <2>7
  <2> QED  
    <3> HIDE DEF h, Rec
    <3> QED  BY <2>8
<1>4. n \in S
  <2> HIDE DEF S
  <2> QED  BY <1>1, <1>2, <1>3, SetInduction
<1>5. PICK f0 : IsRec(f0, n)
  <2>1. PICK f0 : Rec(f0, n)
    BY <1>4
  <2>2. \A i \in 1..n : f0[i] = Step(f0, i)
    BY <2>1
  <2>3. [i \in 1..n |-> f0[i]] = [i \in 1..n |-> Step(f0, i)]
    <3> HIDE DEF Step
    <3> QED  BY <2>2, Zenon
  <2>4. IsRec(f0, n)
    BY <2>1, <2>3, Zenon
  <2> QED  BY <2>4
<1> DEFINE c == CHOOSE f : IsRec(f, n)
<1>6. IsRec(c, n)
  <2> HIDE DEF IsRec
  <2> QED  BY <1>5
<1>7. FlattenSeq(es) = c[n]
  BY DEF FlattenSeq
<1>8. \A i \in 1..n : c[i] = Step(c, i)
  <2> HIDE DEF c, Step
  <2> QED  BY <1>6, Zenon
<1>9. /\ c[1] = es[1]
      /\ \A i \in 2..n : c[i] = c[i-1] \o es[i]
  <2> HIDE DEF c
  <2>1. c[1] = Step(c, 1)
    BY <1>1, <1>8
  <2>2. \A i \in 2..n : c[i] = Step(c, i)
    BY <1>1, <1>8
  <2>3. \A i \in 2..n : i # 1
    OBVIOUS
  <2> QED  BY <2>1, <2>2, <2>3, Zenon
<1> QED  
  <2> HIDE DEF c
  <2> QED  BY <1>7, <1>9

\* Flattened contents are a text whose entries are those of the contents.
LEMMA FlattenTyped ==
  ASSUME NEW es \in Seq(Text)
  PROVE  /\ FlattenSeq(es) \in Text
         /\ \A e \in Range(FlattenSeq(es)) :
              \E i \in DOMAIN es : e \in Range(es[i])
<1> DEFINE Whole(t) == /\ t \in Text
                       /\ \A e \in Range(t) : \E i \in DOMAIN es : e \in Range(es[i])
<1>1. CASE Len(es) = 0
  <2>1. FlattenSeq(es) = es /\ es = <<>>
    BY <1>1 DEF FlattenSeq
  <2> QED  BY <2>1 DEF Text, Range
<1>2. CASE Len(es) > 0
  <2>1. PICK f : /\ FlattenSeq(es) = f[Len(es)]
                 /\ f[1] = es[1]
                 /\ \A i \in 2..Len(es) : f[i] = f[i-1] \o es[i]
    BY <1>2, FlattenSteps
  <2> DEFINE S == {k \in Nat : k \in 1..Len(es) => Whole(f[k])}
  <2>2. Len(es) \in Nat /\ DOMAIN es = 1..Len(es)
    OBVIOUS
  <2>3. 0 \in S
    OBVIOUS
  <2>4. ASSUME NEW k \in Nat, k \in S PROVE k + 1 \in S
    <3> SUFFICES ASSUME k + 1 \in 1..Len(es) PROVE Whole(f[k+1])
      OBVIOUS
    <3>1. es[k+1] \in Text /\ Whole(es[k+1])
      BY <2>2
    <3>2. CASE k = 0
      BY <2>1, <3>1, <3>2
    <3>3. CASE k # 0
      <4>1. Whole(f[k])
        BY <2>4, <3>3
      <4>2. f[k+1] = f[k] \o es[k+1]
        <5>1. k + 1 \in 2..Len(es) /\ (k + 1) - 1 = k
          BY <2>2, <3>3
        <5>2. f[k+1] = f[(k+1)-1] \o es[k+1]
          BY <2>1, <5>1
        <5> QED  BY <5>1, <5>2
      <4>3. f[k+1] \in Text /\ Range(f[k+1]) = Range(f[k]) \cup Range(es[k+1])
        BY <3>1, <4>1, <4>2, RangeConcatenation, ConcatProperties DEF Text
      <4> QED  BY <3>1, <4>1, <4>3
    <3> QED  BY <3>2, <3>3
  <2>5. Len(es) \in S
    <3> HIDE DEF S
    <3> QED  BY <2>2, <2>3, <2>4, SetInduction
  <2> QED  BY <1>2, <2>1, <2>2, <2>5
<1>3. Len(es) \in Nat
  OBVIOUS
<1> QED  BY <1>1, <1>2, <1>3

\* What ApplyOps does with one operation.
Onward(sofar, op) == IF sofar = Refused THEN Refused ELSE ApplyOp(sofar, op)

\* A fold of n operations, with what it yields for the subsets of 1..n.
FoldOf(f, es, ops, n) ==
  \A s \in SUBSET (1..n) :
    f[s] = IF s = {} THEN es
           ELSE Onward(f[s \ {Max(s)}], ops[Max(s)])

\* The greatest element.
LEMMA MaxIs ==
  ASSUME NEW n \in Nat, NEW s \in SUBSET (1..(n+1)), n + 1 \in s
  PROVE  Max(s) = n + 1
<1>1. \A y \in s : n + 1 >= y
  OBVIOUS
<1>2. \A x \in s : (\A y \in s : x >= y) => x = n + 1
  OBVIOUS
<1> QED  BY <1>1, <1>2 DEF Max

\* There is such a fold: from one of n operations one of n + 1 is made.
LEMMA FoldExists ==
  ASSUME NEW es, NEW ops, NEW n \in Nat
  PROVE  \E f : f = [s \in SUBSET (1..n) |-> f[s]] /\ FoldOf(f, es, ops, n)
<1> DEFINE Good(f, k) == f = [s \in SUBSET (1..k) |-> f[s]] /\ FoldOf(f, es, ops, k)
           S == {k \in Nat : \E f : Good(f, k)}
<1>1. 0 \in S
  <2> DEFINE f0 == [s \in SUBSET (1..0) |-> es]
  <2>1. f0 = [s \in SUBSET (1..0) |-> f0[s]]
    BY Zenon
  <2>2. \A s \in SUBSET (1..0) : s = {} /\ f0[s] = es
    OBVIOUS
  <2> HIDE DEF f0
  <2>3. Good(f0, 0)
    BY <2>1, <2>2 DEF FoldOf
  <2> QED  BY <2>3
<1>2. ASSUME NEW k \in Nat, k \in S PROVE k + 1 \in S
  <2>1. PICK f : Good(f, k)
    BY <1>2
  <2> DEFINE h == [s \in SUBSET (1..(k+1)) |->
                     IF k + 1 \in s THEN Onward(f[s \ {k+1}], ops[k+1]) ELSE f[s]]
  <2>2. h = [s \in SUBSET (1..(k+1)) |-> h[s]]
    BY Zenon
  <2>3. \A s \in SUBSET (1..k) : h[s] = f[s]
    <3> SUFFICES ASSUME NEW s \in SUBSET (1..k) PROVE h[s] = f[s]
      OBVIOUS
    <3>1. s \in SUBSET (1..(k+1)) /\ k + 1 \notin s
      OBVIOUS
    <3> QED  BY <3>1, Zenon
  <2>4. ASSUME NEW s \in SUBSET (1..(k+1)), k + 1 \in s
        PROVE  h[s] = Onward(h[s \ {k+1}], ops[k+1])
    <3>1. s \ {k+1} \in SUBSET (1..k)
      OBVIOUS
    <3>2. h[s] = Onward(f[s \ {k+1}], ops[k+1])
      BY <2>4, Zenon
    <3> HIDE DEF h
    <3> QED  BY <2>3, <3>1, <3>2, Zenon
  <2> HIDE DEF h
  <2>5. FoldOf(h, es, ops, k+1)
    <3> SUFFICES ASSUME NEW s \in SUBSET (1..(k+1))
                 PROVE  h[s] = IF s = {} THEN es
                               ELSE Onward(h[s \ {Max(s)}], ops[Max(s)])
      BY DEF FoldOf
    <3>1. CASE k + 1 \in s
      <4>1. Max(s) = k + 1 /\ s # {}
        BY <3>1, MaxIs
      <4> QED  BY <2>4, <3>1, <4>1, Zenon
    <3>2. CASE k + 1 \notin s
      <4>1. s \in SUBSET (1..k) /\ s \ {Max(s)} \in SUBSET (1..k)
        <5>1. \A x \in 1..(k+1) : x # k + 1 => x \in 1..k
          OBVIOUS
        <5>2. \A x \in s : x \in 1..k
          BY <3>2, <5>1
        <5> QED  BY <5>2, Zenon
      <4>2. h[s] = f[s] /\ h[s \ {Max(s)}] = f[s \ {Max(s)}]
        BY <2>3, <4>1
      <4>3. f[s] = IF s = {} THEN es
                   ELSE Onward(f[s \ {Max(s)}], ops[Max(s)])
        BY <2>1, <4>1 DEF FoldOf
      <4> QED  BY <4>2, <4>3, Zenon
    <3> QED  BY <3>1, <3>2
  <2>6. Good(h, k+1)
    BY <2>2, <2>5
  <2> QED
    <3> HIDE DEF Good
    <3> QED  BY <2>6
<1>3. n \in S
  <2> HIDE DEF S
  <2> QED  BY <1>1, <1>2, SetInduction
<1> QED  BY <1>3

\* The steps of ApplyOps.
LEMMA ApplySteps ==
  ASSUME NEW es, NEW ops \in Seq(Op)
  PROVE  \E f : /\ ApplyOps(es, ops) = f[1..Len(ops)]
                /\ FoldOf(f, es, ops, Len(ops))
<1> DEFINE n == Len(ops)
           IsFold(f) == f = [s \in SUBSET (DOMAIN ops) |->
                               IF s = {} THEN es
                               ELSE Onward(f[s \ {Max(s)}], ops[Max(s)])]
           c == CHOOSE f : IsFold(f)
<1>1. n \in Nat /\ DOMAIN ops = 1..n
  OBVIOUS
<1>2. PICK f : f = [s \in SUBSET (1..n) |-> f[s]] /\ FoldOf(f, es, ops, n)
  BY <1>1, FoldExists
<1>3. IsFold(f)
  <2> DEFINE V(s) == IF s = {} THEN es ELSE Onward(f[s \ {Max(s)}], ops[Max(s)])
  <2>1. \A s \in SUBSET (1..n) : f[s] = V(s)
    BY <1>2 DEF FoldOf
  <2>2. [s \in SUBSET (1..n) |-> f[s]] = [s \in SUBSET (1..n) |-> V(s)]
    <3> HIDE DEF V
    <3> QED  BY <2>1, Zenon
  <2> QED  BY <1>1, <1>2, <2>2, Zenon
<1>4. IsFold(c)
  <2> HIDE DEF IsFold
  <2> QED  BY <1>3
<1>5. ApplyOps(es, ops) = c[DOMAIN ops]
  BY DEF ApplyOps, FoldLeft, MapThenFoldSet, Onward
<1>6. FoldOf(c, es, ops, n)
  <2> HIDE DEF c
  <2> QED  BY <1>1, <1>4, Zenon DEF FoldOf
<1> QED
  <2> HIDE DEF c
  <2> QED  BY <1>1, <1>5, <1>6

\* Lists of contents, as _parse_entries yields them.
Contents == Seq(Text)

\* The list operations of pop, insert and assignment keep the type.
LEMMA RemoveTyped ==
  ASSUME NEW T, NEW s \in Seq(T), NEW i \in DOMAIN s
  PROVE  RemoveAt(s, i) \in Seq(T)
<1>1. i \in 1..Len(s) /\ Len(s) \in Nat
  OBVIOUS
<1>2. SubSeq(s, 1, i-1) \in Seq(T) /\ SubSeq(s, i+1, Len(s)) \in Seq(T)
  <2>1. \A j \in 1..Len(s) : s[j] \in T
    OBVIOUS
  <2> QED  BY <1>1, <2>1, SubSeqProperties
<1> QED  BY <1>2, ConcatProperties DEF RemoveAt

\* So does the operation reorder, which pops and inserts.
LEMMA MoveTyped ==
  ASSUME NEW es \in Contents, NEW from \in Int, NEW to \in Int,
         InRange(from, Len(es)), InRange(to, Len(es) + 1)
  PROVE  Move(es, from, to) \in Contents
<1> DEFINE e == es[from + 1]
           r == RemoveAt(es, from + 1)
           k == IF to > from THEN to ELSE to + 1
<1>1. from + 1 \in 1..Len(es) /\ Len(es) \in Nat /\ e \in Text
  BY DEF InRange, Contents
<1>2. r \in Contents
  BY <1>1, RemoveTyped DEF Contents
<1>3. Len(r) = Len(es) - 1
  <2>1. \A j \in 1..Len(es) : es[j] \in Text
    BY DEF Contents
  <2>2. /\ SubSeq(es, 1, from) \in Contents /\ Len(SubSeq(es, 1, from)) = from
        /\ SubSeq(es, from + 2, Len(es)) \in Contents
        /\ Len(SubSeq(es, from + 2, Len(es))) = Len(es) - from - 1
    BY <1>1, <2>1, SubSeqProperties DEF Contents
  <2>3. r = SubSeq(es, 1, from) \o SubSeq(es, from + 2, Len(es))
    <3>1. (from + 1) - 1 = from /\ (from + 1) + 1 = from + 2
      OBVIOUS
    <3>2. r = SubSeq(es, 1, (from + 1) - 1) \o SubSeq(es, (from + 1) + 1, Len(es))
      BY Zenon DEF RemoveAt
    <3> QED  BY <3>1, <3>2
  <2>4. Len(SubSeq(es, 1, from) \o SubSeq(es, from + 2, Len(es)))
          = Len(SubSeq(es, 1, from)) + Len(SubSeq(es, from + 2, Len(es)))
    BY <2>2, ConcatProperties DEF Contents
  <2>5. from + (Len(es) - from - 1) = Len(es) - 1
    BY <1>1
  <2> HIDE DEF r
  <2> QED  BY <2>2, <2>3, <2>4, <2>5
<1>4. k \in 1..(Len(r) + 1)
  BY <1>1, <1>3 DEF InRange
<1> HIDE DEF r, k, e
<1>5. SubSeq(r, 1, k-1) \in Contents /\ SubSeq(r, k, Len(r)) \in Contents
  <2>1. \A j \in 1..Len(r) : r[j] \in Text
    BY <1>2 DEF Contents
  <2> QED  BY <1>2, <1>4, <2>1, SubSeqProperties DEF Contents
<1>6. InsertAt(r, k, e) \in Contents
  <2>1. <<e>> \in Contents
    BY <1>1 DEF Contents
  <2> QED  BY <1>5, <2>1, ConcatProperties DEF InsertAt, Contents
<1> QED  BY <1>6 DEF Move, r, k, e

\* An operation that does not raise yields a list of contents again.
LEMMA ApplyOpTyped ==
  ASSUME NEW es \in Contents, NEW op \in Op
  PROVE  ApplyOp(es, op) \in Contents \cup {Refused}
<1>1. CASE op.type = "add"
  <2>1. op.content \in Text
    BY <1>1 DEF Op
  <2> QED  BY <1>1, <2>1 DEF ApplyOp, Contents
<1>2. CASE op.type = "replace"
  <2>1. op.content \in Text /\ op.index \in Int
    BY <1>2 DEF Op
  <2>2. CASE op.content # <<>> /\ InRange(op.index, Len(es))
    <3>1. op.index + 1 \in 1..Len(es)
      BY <2>1, <2>2 DEF InRange, Contents
    <3>2. ReplaceAt(es, op.index + 1, op.content) \in Contents
      BY <2>1, <3>1, ExceptSeq DEF ReplaceAt, Contents
    <3> QED  BY <1>2, <2>2, <3>2 DEF ApplyOp
  <2>3. CASE ~(op.content # <<>> /\ InRange(op.index, Len(es)))
    BY <1>2, <2>3 DEF ApplyOp
  <2> QED  BY <2>2, <2>3
<1>3. CASE op.type = "remove"
  <2>1. op.index \in Int
    BY <1>3 DEF Op
  <2>2. CASE InRange(op.index, Len(es))
    <3>1. op.index + 1 \in DOMAIN es
      BY <2>1, <2>2 DEF InRange, Contents
    <3> QED  BY <1>3, <2>2, <3>1, RemoveTyped DEF ApplyOp, Contents
  <2>3. CASE ~InRange(op.index, Len(es))
    BY <1>3, <2>3 DEF ApplyOp
  <2> QED  BY <2>2, <2>3
<1>4. CASE op.type = "reorder"
  <2>1. op.from \in Int /\ op.to \in Int
    BY <1>4 DEF Op
  <2>2. CASE InRange(op.from, Len(es)) /\ InRange(op.to, Len(es) + 1)
    BY <1>4, <2>1, <2>2, MoveTyped DEF ApplyOp
  <2>3. CASE ~(InRange(op.from, Len(es)) /\ InRange(op.to, Len(es) + 1))
    BY <1>4, <2>3 DEF ApplyOp
  <2> QED  BY <2>2, <2>3
<1>5. op.type \in {"add", "replace", "remove", "reorder"}
  BY DEF Op
<1> QED  BY <1>1, <1>2, <1>3, <1>4, <1>5

\* So does a list of operations, whatever it is.
LEMMA ApplyOpsTyped ==
  ASSUME NEW es \in Contents, NEW ops \in Seq(Op)
  PROVE  ApplyOps(es, ops) \in Contents \cup {Refused}
<1> DEFINE n == Len(ops)
<1>1. n \in Nat /\ \A i \in 1..n : ops[i] \in Op
  OBVIOUS
<1>2. PICK f : ApplyOps(es, ops) = f[1..n] /\ FoldOf(f, es, ops, n)
  BY ApplySteps
<1> DEFINE S == {k \in Nat : k <= n => f[1..k] \in Contents \cup {Refused}}
<1>3. 0 \in S
  <2>1. 1..0 = {} /\ {} \in SUBSET (1..n)
    OBVIOUS
  <2> QED  BY <1>2, <2>1 DEF FoldOf
<1>4. ASSUME NEW k \in Nat, k \in S PROVE k + 1 \in S
  <2> SUFFICES ASSUME k + 1 <= n PROVE f[1..(k+1)] \in Contents \cup {Refused}
    OBVIOUS
  <2>1. f[1..k] \in Contents \cup {Refused}
    BY <1>1, <1>4
  <2>2. 1..(k+1) \in SUBSET (1..n) /\ 1..(k+1) # {}
    BY <1>1
  <2>3. Max(1..(k+1)) = k + 1
    BY MaxIs
  <2>4. (1..(k+1)) \ {k+1} = 1..k
    OBVIOUS
  <2>5. f[1..(k+1)] = Onward(f[1..k], ops[k+1])
    <3>1. f[1..(k+1)] = Onward(f[(1..(k+1)) \ {Max(1..(k+1))}], ops[Max(1..(k+1))])
      BY <1>2, <2>2, Zenon DEF FoldOf
    <3> QED  BY <2>3, <2>4, <3>1
  <2>6. ops[k+1] \in Op
    BY <1>1
  <2> QED  BY <2>1, <2>5, <2>6, ApplyOpTyped DEF Onward
<1>5. n \in S
  <2> HIDE DEF S
  <2> QED  BY <1>1, <1>3, <1>4, SetInduction
<1> QED  BY <1>1, <1>2, <1>5

\* One operation, which is what applying a proposal asks for.
LEMMA ApplyOne ==
  ASSUME NEW es, NEW op \in Op
  PROVE  ApplyOps(es, <<op>>) = Onward(es, op)
<1> DEFINE ops == <<op>>
<1>1. ops \in Seq(Op) /\ Len(ops) = 1 /\ ops[1] = op
  OBVIOUS
<1>2. PICK f : ApplyOps(es, ops) = f[1..1] /\ FoldOf(f, es, ops, 1)
  BY <1>1, ApplySteps
<1>3. 1..1 # {} /\ Max(1..1) = 1 /\ (1..1) \ {1} = {}
  <2>1. Max(1..(0+1)) = 0 + 1
    BY MaxIs
  <2> QED  BY <2>1
<1> HIDE DEF ops
<1>4. f[1..1] = Onward(f[(1..1) \ {Max(1..1)}], ops[Max(1..1)])
  BY <1>2, <1>3, Zenon DEF FoldOf
<1>5. f[{}] = es
  BY <1>2, Zenon DEF FoldOf
<1>6. ApplyOps(es, ops) = Onward(es, op)
  BY <1>1, <1>2, <1>3, <1>4, <1>5
<1> QED  BY <1>6 DEF ops

\* A text read back: one content for each entry.
LEMMA EntriesTyped ==
  ASSUME NEW t \in Text
  PROVE  /\ Entries(t) \in Contents
         /\ DOMAIN Entries(t) = DOMAIN t
         /\ \A i \in DOMAIN t : Entries(t)[i] = <<t[i]>>
<1>1. DOMAIN t = 1..Len(t) /\ Len(t) \in Nat /\ \A i \in DOMAIN t : t[i] \in Entry
  BY DEF Text
<1>2. \A i \in DOMAIN t : <<t[i]>> \in Text
  BY <1>1 DEF Text
<1>3. Entries(t) \in [1..Len(t) -> Text]
  BY <1>1, <1>2 DEF Entries
<1>4. Entries(t) \in Contents
  BY <1>1, <1>3 DEF Contents
<1> QED  BY <1>4 DEF Entries

-----------------------------------------------------------------------------
(* Types, and what handlers have checked *)

\* The content of a proposal that can still be applied.
Single(text) == \E e \in Entry : text = <<e>>

\* A task that a handler can have.  Only one that writes the memory file
\* takes the lock; one that applies a proposal adds its content to the file,
\* and nothing else.
Sound(t, locking) ==
    /\ t.kind = "restore" => Valid(Entries(t.body))
    /\ t.becomes.status = "pending" => Single(t.becomes.content)
    /\ locking => t.kind \in {"write", "restore", "snapshot"}
    /\ locking /\ t.prop # Missing =>
         /\ t.kind = "write"
         /\ t.ops = <<[type |-> "add", content |-> t.becomes.content]>>
         /\ Single(t.becomes.content)

\* What has been checked before: the drafts of proposals, the tasks, and the
\* requests of the handlers that hold the lock.
Checked ==
    /\ \A p \in ProposalId : Pending(p) => Single(prop[p].content)
    /\ \A g \in Gateway :
         /\ pc[g] # "idle" => Sound(task[g], pc[g] # "settle")
         /\ pc[g] \in {"meta", "replace"} => Admissible(g)
         /\ pc[g] = "replace" => task[g].kind # "snapshot"

TInv == TypeOK /\ Checked

\* A handler that is idle has no task.
LEMMA NoTaskTyped == NoTask \in Task
  BY DEF NoTask, Task, NoProposal, Proposal, Text

\* A request that begins.
LEMMA BeginKeepsTInv ==
  ASSUME TInv, NEW g \in Gateway, NEW phase \in {"lock", "settle"}, NEW t \in Task,
         Begin(g, phase, t), Sound(t, phase # "settle")
  PROVE  TInv'
<1>1. /\ pc' = [pc EXCEPT ![g] = phase] /\ task' = [task EXCEPT ![g] = t]
      /\ UNCHANGED <<file, snap, prop, lock, mine, written>>
  BY DEF Begin
<1>2. /\ pc'[g] = phase /\ task'[g] = t
      /\ \A h \in Gateway \ {g} : pc'[h] = pc[h] /\ task'[h] = task[h]
  BY <1>1 DEF TInv, TypeOK
<1>3. TypeOK'
  BY <1>1 DEF TInv, TypeOK
<1>4. Checked'
  <2>1. \A p \in ProposalId : Pending(p)' => Single(prop'[p].content)
    BY <1>1 DEF TInv, Checked, Pending
  <2>2. \A h \in Gateway \ {g} : (Admissible(h) => Admissible(h)')
    BY <1>1, <1>2 DEF Admissible, Expects, After
  <2>3. \A h \in Gateway \ {g} :
          /\ pc'[h] # "idle" => Sound(task'[h], pc'[h] # "settle")
          /\ pc'[h] \in {"meta", "replace"} => Admissible(h)'
          /\ pc'[h] = "replace" => task'[h].kind # "snapshot"
    BY <1>2, <2>2 DEF TInv, Checked
  <2>4. pc'[g] \notin {"meta", "replace"} /\ Sound(task'[g], pc'[g] # "settle")
    BY <1>2
  <2> QED  BY <2>1, <2>3, <2>4 DEF Checked, Single
<1> QED  BY <1>3, <1>4 DEF TInv

\* The handler becomes idle, or goes on with its task.
LEMMA GoOnKeepsChecked ==
  ASSUME TInv, NEW g \in Gateway, UNCHANGED <<file, prop>>,
         \A h \in Gateway \ {g} : pc'[h] = pc[h] /\ task'[h] = task[h],
         \/ pc'[g] = "idle"
         \/ /\ pc[g] # "idle" /\ pc[g] # "settle" /\ task'[g] = task[g]
            /\ pc'[g] \in {"meta", "replace", "settle"}
            /\ pc'[g] \in {"meta", "replace"} => Admissible(g)
            /\ pc'[g] = "replace" => task[g].kind # "snapshot"
  PROVE  Checked'
<1>1. \A p \in ProposalId : Pending(p)' => Single(prop'[p].content)
  BY DEF TInv, Checked, Pending
<1>2. \A h \in Gateway : task'[h] = task[h] => (Admissible(h) => Admissible(h)')
  BY DEF Admissible, Expects, After
<1>3. \A h \in Gateway \ {g} :
        /\ pc'[h] # "idle" => Sound(task'[h], pc'[h] # "settle")
        /\ pc'[h] \in {"meta", "replace"} => Admissible(h)'
        /\ pc'[h] = "replace" => task'[h].kind # "snapshot"
  BY <1>2 DEF TInv, Checked
<1>4. /\ pc'[g] # "idle" => Sound(task'[g], pc'[g] # "settle")
      /\ pc'[g] \in {"meta", "replace"} => Admissible(g)'
      /\ pc'[g] = "replace" => task'[g].kind # "snapshot"
  <2>1. pc[g] # "idle" => Sound(task[g], pc[g] # "settle")
    BY DEF TInv, Checked
  <2>2. CASE pc'[g] = "idle"
    BY <2>2
  <2>3. CASE /\ pc[g] # "idle" /\ pc[g] # "settle" /\ task'[g] = task[g]
             /\ pc'[g] \in {"meta", "replace", "settle"}
             /\ pc'[g] \in {"meta", "replace"} => Admissible(g)
             /\ pc'[g] = "replace" => task[g].kind # "snapshot"
    <3>1. Sound(task[g], TRUE) /\ Sound(task[g], FALSE)
      BY <2>1, <2>3 DEF Sound
    <3>2. Sound(task'[g], pc'[g] # "settle")
      BY <2>3, <3>1 DEF Sound
    <3> QED  BY <1>2, <2>3, <3>2
  <2> QED  BY <2>2, <2>3
<1> QED  BY <1>1, <1>3, <1>4 DEF Checked, Single

\* The end of a request.
LEMMA StopKeepsTInv ==
  ASSUME TInv, NEW g \in Gateway, Finish(g),
         UNCHANGED <<file, snap, prop, written>>, lock' \in {lock, Nobody}
  PROVE  TInv'
<1>2. TypeOK'
  BY NoTaskTyped DEF TInv, TypeOK, Finish
<1>3. /\ \A h \in Gateway \ {g} : pc'[h] = pc[h] /\ task'[h] = task[h]
      /\ pc'[g] = "idle"
  BY DEF TInv, TypeOK, Finish
<1> QED  BY <1>2, <1>3, GoOnKeepsChecked DEF TInv

\* The snapshot is taken.
LEMMA SaveBodyKeepsTInv ==
  ASSUME TInv, NEW g \in Gateway, SaveBody(g)
  PROVE  TInv'
<1>1. PICK s \in SnapshotId :
        /\ snap' = [snap EXCEPT ![s].body = file]
        /\ mine' = [mine EXCEPT ![g] = s]
  BY DEF SaveBody
<1>2. /\ pc[g] = "lock" /\ Admissible(g) /\ lock' = g
      /\ pc' = [pc EXCEPT ![g] = "meta"]
      /\ UNCHANGED <<file, prop, task, written>>
  BY DEF SaveBody
<1>3. snap' \in [SnapshotId -> Snapshot]
  <2>1. snap[s] \in Snapshot /\ snap \in [SnapshotId -> Snapshot] /\ file \in Text
    BY DEF TInv, TypeOK
  <2>2. [snap[s] EXCEPT !.body = file] \in Snapshot
    BY <2>1 DEF Snapshot
  <2> QED  BY <1>1, <2>1, <2>2
<1>4. TypeOK'
  BY <1>1, <1>2, <1>3 DEF TInv, TypeOK
<1>5. pc'[g] = "meta" /\ \A h \in Gateway \ {g} : pc'[h] = pc[h]
  BY <1>2 DEF TInv, TypeOK
<1> QED  BY <1>2, <1>4, <1>5, GoOnKeepsChecked DEF TInv

\* The snapshot is completed, and the request ends with it or goes on.
LEMMA SaveMetaKeepsTInv ==
  ASSUME IInv, TInv, NEW g \in Gateway, SaveMeta(g)
  PROVE  TInv'
<1>1. /\ pc[g] = "meta" /\ mine[g] \in SnapshotId /\ Admissible(g)
      /\ UNCHANGED <<file, prop, written>>
  BY DEF SaveMeta, IInv, Holding, TInv, Checked
<1>2. snap' \in [SnapshotId -> Snapshot]
  <2>1. /\ snap[mine[g]] \in Snapshot /\ snap \in [SnapshotId -> Snapshot]
        /\ file \in Text
    BY <1>1 DEF TInv, TypeOK
  <2>2. [snap[mine[g]] EXCEPT !.revision = file] \in Snapshot
    BY <2>1 DEF Snapshot
  <2> QED  BY <1>1, <2>1, <2>2 DEF SaveMeta
<1>3. CASE task[g].kind = "snapshot"
  <2>1. lock' = Nobody /\ Finish(g)
    BY <1>3 DEF SaveMeta
  <2>3. TypeOK'
    BY <1>1, <1>2, <2>1, NoTaskTyped DEF TInv, TypeOK, Finish
  <2>4. /\ \A h \in Gateway \ {g} : pc'[h] = pc[h] /\ task'[h] = task[h]
        /\ pc'[g] = "idle"
    BY <2>1 DEF TInv, TypeOK, Finish
  <2> QED  BY <1>1, <2>3, <2>4, GoOnKeepsChecked DEF TInv
<1>4. CASE task[g].kind # "snapshot"
  <2>1. pc' = [pc EXCEPT ![g] = "replace"] /\ UNCHANGED <<lock, task, mine>>
    BY <1>4 DEF SaveMeta
  <2>2. TypeOK'
    BY <1>1, <1>2, <2>1 DEF TInv, TypeOK
  <2>3. pc'[g] = "replace" /\ \A h \in Gateway \ {g} : pc'[h] = pc[h]
    BY <2>1 DEF TInv, TypeOK
  <2> QED  BY <1>1, <1>4, <2>1, <2>2, <2>3, GoOnKeepsChecked DEF TInv
<1> QED  BY <1>3, <1>4

\* What the holder of the lock is about to write.
LEMMA AfterTyped ==
  ASSUME TInv, NEW g \in Gateway, pc[g] = "replace"
  PROVE  /\ After(g) \in Contents /\ Valid(After(g))
         /\ FlattenSeq(After(g)) \in Text
<1>1. task[g] \in Task /\ file \in Text
  BY DEF TInv, TypeOK
<1>2. Admissible(g) /\ task[g].kind \in {"write", "restore"}
  <2>1. Sound(task[g], TRUE) /\ task[g].kind # "snapshot" /\ Admissible(g)
    BY DEF TInv, Checked
  <2> QED  BY <2>1 DEF Sound
<1>3. CASE task[g].kind = "write"
  <2>1. After(g) = ApplyOps(Entries(file), task[g].ops)
    BY <1>3 DEF After
  <2>2. task[g].ops \in Seq(Op) /\ Entries(file) \in Contents
    BY <1>1, EntriesTyped DEF Task
  <2>3. After(g) # Refused /\ Valid(After(g))
    BY <1>2, <1>3 DEF Admissible
  <2>4. After(g) \in Contents
    BY <2>1, <2>2, <2>3, ApplyOpsTyped
  <2> QED  BY <2>3, <2>4, FlattenTyped DEF Contents
<1>4. CASE task[g].kind = "restore"
  <2>1. After(g) = Entries(task[g].body)
    BY <1>4 DEF After
  <2>2. task[g].body \in Text
    BY <1>1 DEF Task
  <2>3. Valid(Entries(task[g].body))
    BY <1>4 DEF TInv, Checked, Sound
  <2>4. After(g) \in Contents
    BY <2>1, <2>2, EntriesTyped
  <2> QED  BY <2>1, <2>3, <2>4, FlattenTyped DEF Contents
<1> QED  BY <1>2, <1>3, <1>4

\* Only one handler can be past the comparison, so the file changes under no
\* other.
LEMMA ReplaceKeepsTInv ==
  ASSUME IInv, TInv, NEW g \in Gateway, Replace(g)
  PROVE  TInv'
<1>1. /\ pc[g] = "replace" /\ file' = FlattenSeq(After(g)) /\ lock' = Nobody
      /\ UNCHANGED <<snap, prop>>
  BY DEF Replace
<1>2. file' \in Text
  BY <1>1, AfterTyped
<1>3. /\ \A h \in Gateway \ {g} : pc'[h] = pc[h] /\ task'[h] = task[h]
      /\ pc'[g] = "idle" \/ (pc'[g] = "settle" /\ task'[g] = task[g])
  BY DEF Replace, Finish, TInv, TypeOK
<1>4. TypeOK'
  <2>1. task[g] \in Task /\ NoTask \in Task
    BY NoTaskTyped DEF TInv, TypeOK
  <2>2. written' \in [ProposalId -> SUBSET Text]
    <3>1. task[g].becomes.content \in Text
      BY <2>1 DEF Task, Proposal
    <3>2. written \in [ProposalId -> SUBSET Text]
      BY DEF TInv, TypeOK
    <3> QED  BY <3>1, <3>2 DEF Replace
  <2>3. /\ pc' \in [Gateway -> {"idle", "lock", "meta", "replace", "settle"}]
        /\ task' \in [Gateway -> Task]
        /\ mine' \in [Gateway -> SnapshotId \cup {Missing}]
    BY <2>1 DEF Replace, Finish, TInv, TypeOK
  <2> QED  BY <1>1, <1>2, <2>2, <2>3 DEF TInv, TypeOK
<1>5. Checked'
  <2>1. \A p \in ProposalId : Pending(p)' => Single(prop'[p].content)
    BY <1>1 DEF TInv, Checked, Pending
  <2>2. \A h \in Gateway \ {g} : pc[h] \notin {"meta", "replace"}
    BY <1>1, OneHolder
  <2>3. \A h \in Gateway \ {g} :
          /\ pc'[h] # "idle" => Sound(task'[h], pc'[h] # "settle")
          /\ pc'[h] \notin {"meta", "replace"}
    BY <1>3, <2>2 DEF TInv, Checked
  <2>4. pc'[g] = "settle" => Sound(task'[g], FALSE)
    <3>1. Sound(task[g], TRUE)
      BY <1>1 DEF TInv, Checked
    <3> QED  BY <1>3, <3>1 DEF Sound
  <2>5. /\ pc'[g] # "idle" => Sound(task'[g], pc'[g] # "settle")
        /\ pc'[g] \notin {"meta", "replace"}
    BY <1>3, <2>4
  <2> QED  BY <2>1, <2>3, <2>5 DEF Checked, Single
<1> QED  BY <1>4, <1>5 DEF TInv

\* A status is written to a proposal's file.
LEMMA SettleKeepsTInv ==
  ASSUME IInv, TInv, NEW g \in Gateway, Settle(g)
  PROVE  TInv'
<1> DEFINE p == task[g].prop
           r == task[g].becomes
<1>1. /\ pc[g] = "settle" /\ p \in ProposalId
      /\ prop' = [prop EXCEPT ![p] = r]
      /\ UNCHANGED <<file, snap, lock, written>>
  BY DEF Settle, IInv, Settling
<1>2. /\ NoTask \in Task /\ r \in Proposal
      /\ Sound(task[g], FALSE)
  <2>1. r \in Proposal
    BY DEF TInv, TypeOK, Task
  <2>2. Sound(task[g], pc[g] # "settle")
    BY <1>1 DEF TInv, Checked
  <2>3. (pc[g] # "settle") = FALSE
    BY <1>1
  <2> QED  BY <2>1, <2>2, <2>3, NoTaskTyped
<1>3. TypeOK'
  BY <1>1, <1>2 DEF TInv, TypeOK, Settle, Finish
<1>4. /\ \A h \in Gateway \ {g} : pc'[h] = pc[h] /\ task'[h] = task[h]
      /\ pc'[g] = "idle"
  BY DEF Settle, Finish, TInv, TypeOK
<1>5. prop'[p] = r /\ \A q \in ProposalId \ {p} : prop'[q] = prop[q]
  BY <1>1 DEF TInv, TypeOK
<1>6. \A q \in ProposalId : Pending(q)' => Single(prop'[q].content)
  BY <1>2, <1>5 DEF Sound, TInv, Checked, Pending
<1>7. \A h \in Gateway \ {g} : (Admissible(h) => Admissible(h)')
  BY <1>1, <1>4 DEF Admissible, Expects, After
<1>8. \A h \in Gateway :
        /\ pc'[h] # "idle" => Sound(task'[h], pc'[h] # "settle")
        /\ pc'[h] \in {"meta", "replace"} => Admissible(h)'
        /\ pc'[h] = "replace" => task'[h].kind # "snapshot"
  BY <1>4, <1>7 DEF TInv, Checked
<1> QED  BY <1>3, <1>6, <1>8 DEF TInv, Checked, Single

\* The draft of a new proposal is a single entry.
LEMMA CreateKeepsTInv ==
  ASSUME TInv, NEW g \in Gateway, Create(g)
  PROVE  TInv'
<1>1. PICK p \in ProposalId, e \in Entry :
        prop' = [prop EXCEPT ![p] = [status |-> "pending", content |-> <<e>>]]
  BY DEF Create
<1>2. UNCHANGED <<file, snap, lock, pc, task, mine, written>>
  BY DEF Create
<1>3. [status |-> "pending", content |-> <<e>>] \in Proposal
  BY DEF Proposal, Text
<1>4. TypeOK'
  BY <1>1, <1>2, <1>3 DEF TInv, TypeOK
<1>5. \A q \in ProposalId : Pending(q)' => Single(prop'[q].content)
  BY <1>1 DEF TInv, TypeOK, Checked, Pending, Single
<1>6. \A h \in Gateway : (Admissible(h) => Admissible(h)')
  BY <1>2 DEF Admissible, Expects, After
<1> QED  BY <1>2, <1>4, <1>5, <1>6 DEF TInv, Checked, Single

\* The agent finds the lock free: no handler has found its request admissible.
LEMMA AgentKeepsTInv == IInv /\ TInv /\ AgentWrite => TInv'
<1> SUFFICES ASSUME IInv, TInv, AgentWrite PROVE TInv'
  OBVIOUS
<1>1. lock = Nobody /\ UNCHANGED <<snap, prop, lock, pc, task, mine, written>>
  BY DEF AgentWrite
<1>2. file \in Seq(Entry)
  BY DEF TInv, TypeOK, Text
<1>3. file' \in Text
  <2>1. \A i \in DOMAIN file : RemoveAt(file, i) \in Seq(Entry)
    BY <1>2, RemoveTyped
  <2> QED  BY <1>2, <2>1 DEF AgentWrite, Text
<1>4. TypeOK'
  BY <1>1, <1>3 DEF TInv, TypeOK
<1>5. \A g \in Gateway : pc[g] \notin {"meta", "replace"}
  BY <1>1, HoldersAssumption DEF IInv, Holding
<1>6. \A p \in ProposalId : Pending(p)' => Single(prop'[p].content)
  BY <1>1 DEF TInv, Checked, Pending
<1> QED  BY <1>1, <1>4, <1>5, <1>6 DEF TInv, Checked, Single

\* The requests, each with a sound task.
LEMMA RequestsKeepTInv ==
  ASSUME TInv, NEW g \in Gateway,
         \/ BeginWrite(g) \/ BeginSnapshot(g) \/ BeginRestore(g)
         \/ BeginApply(g) \/ BeginUpdate(g) \/ BeginReject(g)
  PROVE  TInv'
<1>0. /\ file \in Text /\ prop \in [ProposalId -> Proposal]
      /\ snap \in [SnapshotId -> Snapshot]
      /\ <<>> \in Text /\ <<>> \in Seq(Op) /\ NoProposal \in Proposal
  BY DEF TInv, TypeOK, Text, NoProposal, Proposal
<1>1. CASE BeginWrite(g)
  <2>1. PICK ops \in Request :
          Begin(g, "lock", [NoTask EXCEPT !.kind = "write", !.expected = file,
                                          !.ops = ops])
    BY <1>1 DEF BeginWrite
  <2> DEFINE t == [NoTask EXCEPT !.kind = "write", !.expected = file, !.ops = ops]
  <2>2. ops \in Seq(Op)
    BY RequestsAssumption
  <2>3. t \in Task
    BY <1>0, <2>2 DEF NoTask, Task
  <2>4. Sound(t, TRUE)
    BY DEF Sound, NoTask, NoProposal
  <2> HIDE DEF t
  <2> QED  BY <2>1, <2>3, <2>4, BeginKeepsTInv DEF t
<1>2. CASE BeginSnapshot(g)
  <2>1. PICK rev \in {file, Unchecked} :
          Begin(g, "lock", [NoTask EXCEPT !.kind = "snapshot", !.expected = rev])
    BY <1>2 DEF BeginSnapshot
  <2> DEFINE t == [NoTask EXCEPT !.kind = "snapshot", !.expected = rev]
  <2>2. t \in Task
    BY <1>0 DEF NoTask, Task
  <2>3. Sound(t, TRUE)
    BY DEF Sound, NoTask, NoProposal
  <2> QED  BY <2>1, <2>2, <2>3, BeginKeepsTInv
<1>3. CASE BeginRestore(g)
  <2>1. PICK s \in SnapshotId, rev \in {file, Unchecked} :
          /\ Complete(s) /\ Valid(Entries(snap[s].body))
          /\ Begin(g, "lock", [NoTask EXCEPT !.kind = "restore", !.expected = rev,
                                             !.body = snap[s].body])
    BY <1>3 DEF BeginRestore
  <2> DEFINE t == [NoTask EXCEPT !.kind = "restore", !.expected = rev,
                                 !.body = snap[s].body]
  <2>2. snap[s].body \in Text
    BY <1>0, <2>1 DEF Complete, Snapshot
  <2>3. t \in Task
    BY <1>0, <2>2 DEF NoTask, Task
  <2>4. Sound(t, TRUE)
    BY <2>1 DEF Sound, NoTask, NoProposal
  <2> QED  BY <2>1, <2>3, <2>4, BeginKeepsTInv
<1>4. CASE BeginApply(g)
  <2>1. PICK p \in ProposalId : Pending(p) /\ Begin(g, "lock", ApplyTask(p))
    BY <1>4 DEF BeginApply
  <2> DEFINE c == prop[p].content
             op == [type |-> "add", content |-> c]
             r == [status |-> "applied", content |-> c]
             t == ApplyTask(p)
  <2>2. prop[p] \in Proposal
    BY <1>0
  <2>3. r = [prop[p] EXCEPT !.status = "applied"]
    BY <2>2 DEF Proposal
  <2>4. c \in Text /\ Single(c)
    BY <2>1, <2>2 DEF Proposal, TInv, Checked
  <2>5. op \in Op /\ r \in Proposal
    BY <2>4 DEF Op, Proposal
  <2>6. <<op>> \in Seq(Op)
    <3> HIDE DEF op
    <3> QED  BY <2>5
  <2>7. t = [NoTask EXCEPT !.kind = "write", !.expected = file, !.prop = p,
                           !.ops = <<op>>, !.becomes = r]
    BY <2>3 DEF ApplyTask
  <2>8. t \in Task
    <3> HIDE DEF op, r, t
    <3> QED  BY <1>0, <2>5, <2>6, <2>7 DEF NoTask, Task
  <2>9. t.kind = "write" /\ t.ops = <<op>> /\ t.becomes = r
    <3> HIDE DEF op, r, t
    <3> QED  BY <2>7 DEF NoTask
  <2>10. Sound(t, TRUE)
    <3> HIDE DEF c, t
    <3> QED  BY <2>4, <2>9 DEF Sound
  <2> HIDE DEF t
  <2> QED  BY <2>1, <2>8, <2>10, BeginKeepsTInv DEF t
<1>5. CASE BeginUpdate(g)
  <2>1. PICK p \in ProposalId, e \in Entry :
          Begin(g, "settle",
                [NoTask EXCEPT !.kind = "proposal", !.prop = p,
                               !.becomes = [status |-> "pending",
                                            content |-> <<e>>]])
    BY <1>5 DEF BeginUpdate
  <2> DEFINE r == [status |-> "pending", content |-> <<e>>]
             t == [NoTask EXCEPT !.kind = "proposal", !.prop = p, !.becomes = r]
  <2>2. r \in Proposal /\ Single(r.content)
    BY DEF Proposal, Text, Single
  <2>3. t \in Task /\ t.kind = "proposal" /\ t.becomes = r
    <3> HIDE DEF r
    <3> QED  BY <1>0, <2>2 DEF NoTask, Task
  <2>4. Sound(t, FALSE)
    <3> HIDE DEF r, t
    <3> QED  BY <2>2, <2>3 DEF Sound
  <2> QED  BY <2>1, <2>3, <2>4, BeginKeepsTInv
<1>6. CASE BeginReject(g)
  <2>1. PICK p \in ProposalId :
          Begin(g, "settle",
                [NoTask EXCEPT !.kind = "proposal", !.prop = p,
                               !.becomes = [prop[p] EXCEPT !.status = "rejected"]])
    BY <1>6 DEF BeginReject
  <2> DEFINE r == [prop[p] EXCEPT !.status = "rejected"]
             t == [NoTask EXCEPT !.kind = "proposal", !.prop = p, !.becomes = r]
  <2>2. prop[p] \in Proposal
    BY <1>0
  <2>3. r \in Proposal /\ r.status = "rejected"
    BY <2>2 DEF Proposal
  <2>4. t \in Task /\ t.kind = "proposal" /\ t.becomes = r
    <3> HIDE DEF r
    <3> QED  BY <1>0, <2>3 DEF NoTask, Task
  <2>5. Sound(t, FALSE)
    <3> HIDE DEF r, t
    <3> QED  BY <2>3, <2>4 DEF Sound
  <2> QED  BY <2>1, <2>4, <2>5, BeginKeepsTInv
<1> QED  BY <1>1, <1>2, <1>3, <1>4, <1>5, <1>6

\* The types and what has been checked, in every state.
LEMMA InitTInv == Init => TInv
<1> SUFFICES ASSUME Init PROVE TInv
  OBVIOUS
<1>1. NoSnapshot \in Snapshot /\ NoProposal \in Proposal /\ <<>> \in Text
  BY DEF NoSnapshot, Snapshot, NoProposal, Proposal, Text
<1>2. TypeOK
  BY <1>1, NoTaskTyped DEF Init, TypeOK
<1>3. Checked
  BY DEF Init, Checked, Pending, NoProposal
<1> QED  BY <1>2, <1>3 DEF TInv

\* Every step keeps them.
LEMMA NextKeepsTInv == IInv /\ TInv /\ [Next]_vars => TInv'
<1> SUFFICES ASSUME IInv, TInv, [Next]_vars PROVE TInv'
  OBVIOUS
<1>1. CASE AgentWrite
  BY <1>1, AgentKeepsTInv
<1>2. ASSUME NEW g \in Gateway, Handler(g) PROVE TInv'
  <2>1. CASE \/ BeginWrite(g) \/ BeginSnapshot(g) \/ BeginRestore(g)
             \/ BeginApply(g) \/ BeginUpdate(g) \/ BeginReject(g)
    BY <2>1, RequestsKeepTInv
  <2>2. CASE Reject(g)
    BY <2>2, StopKeepsTInv DEF Reject
  <2>3. CASE Abandon(g)
    BY <2>3, StopKeepsTInv DEF Abandon
  <2>4. CASE SaveBody(g)
    BY <2>4, SaveBodyKeepsTInv
  <2>5. CASE SaveMeta(g)
    BY <2>5, SaveMetaKeepsTInv
  <2>6. CASE Replace(g)
    BY <2>6, ReplaceKeepsTInv
  <2>7. CASE Create(g)
    BY <2>7, CreateKeepsTInv
  <2>8. CASE Settle(g)
    BY <2>8, SettleKeepsTInv
  <2> QED  BY <1>2, <2>1, <2>2, <2>3, <2>4, <2>5, <2>6, <2>7, <2>8 DEF Handler
<1>3. CASE UNCHANGED vars
  <2>1. \A h \in Gateway : (Admissible(h) => Admissible(h)')
    BY <1>3 DEF vars, Admissible, Expects, After
  <2> QED  BY <1>3, <2>1 DEF vars, TInv, TypeOK, Checked, Pending, Single
<1> QED  BY <1>1, <1>2, <1>3 DEF Next

\* Both invariants hold of every behaviour.
LEMMA SpecTInv == Spec => [](IInv /\ TInv)
<1> QED  BY InitIInv, NextKeepsIInv, InitTInv, NextKeepsTInv, PTL DEF Spec

\* Every state has the types that the code's own readers assume.
THEOREM MemoryTypeCorrect == Spec => []TypeOK
<1>1. TInv => TypeOK
  BY DEF TInv
<1> QED  BY <1>1, SpecTInv, PTL

\* What a gateway writes is within the limit and free of blocked patterns.
THEOREM LegalWrites == Spec => WritesAreLegal
<1> DEFINE Legal(g) == /\ Range(file') \cap Risky = {}
                       /\ Limit > 0 => Len(file') <= Limit
<1>1. IInv /\ TInv /\ [Next]_vars => \A g \in Gateway : Changes(g) => Legal(g)
  <2> SUFFICES ASSUME IInv, TInv, [Next]_vars, NEW g \in Gateway, Changes(g)
               PROVE  Legal(g)
    OBVIOUS
  <2>1. pc[g] = "replace" /\ file' = FlattenSeq(After(g))
    BY OnlyHolderChanges DEF Replace
  <2>2. After(g) \in Seq(Text) /\ Valid(After(g))
    BY <2>1, AfterTyped DEF Contents
  <2>3. Limit > 0 => Len(file') <= Limit
    BY <2>1, <2>2 DEF Valid
  <2>4. ASSUME NEW e \in Range(file'), e \in Risky PROVE FALSE
    <3>1. PICK i \in DOMAIN After(g) : e \in Range(After(g)[i])
      BY <2>1, <2>2, FlattenTyped
    <3> QED  BY <2>2, <2>4, <3>1 DEF Valid
  <2> QED  BY <2>3, <2>4
<1>2. IInv /\ TInv /\ [Next]_vars =>
        [\A g \in Gateway : Changes(g) => Legal(g)]_vars
  BY <1>1
<1> QED  BY <1>2, SpecTInv, PTL DEF Spec, WritesAreLegal

\* A proposal that is applied again gets no second copy into the file.
THEOREM RetriesAddNoCopy == Spec => RetryAddsNoCopy
<1> DEFINE NoCopy(g) == task[g].prop # Missing =>
                          Range(task[g].becomes.content) \cap Range(file) = {}
<1>1. IInv /\ TInv /\ [Next]_vars => \A g \in Gateway : Changes(g) => NoCopy(g)
  <2> SUFFICES ASSUME IInv, TInv, [Next]_vars, NEW g \in Gateway, Changes(g),
                      task[g].prop # Missing
               PROVE  Range(task[g].becomes.content) \cap Range(file) = {}
    OBVIOUS
  <2> DEFINE c == task[g].becomes.content
             op == [type |-> "add", content |-> c]
  <2>1. pc[g] = "replace"
    BY OnlyHolderChanges DEF Replace
  <2>2. Sound(task[g], TRUE)
    BY <2>1 DEF TInv, Checked
  <2>3. task[g].kind = "write" /\ task[g].ops = <<op>> /\ Single(c)
    BY <2>2 DEF Sound
  <2>4. PICK e \in Entry : c = <<e>>
    BY <2>3 DEF Single
  <2>5. file \in Text
    BY DEF TInv, TypeOK
  <2>6. /\ Entries(file) \in Contents /\ DOMAIN Entries(file) = DOMAIN file
        /\ \A i \in DOMAIN file : Entries(file)[i] = <<file[i]>>
    BY <2>5, EntriesTyped
  <2>7. After(g) = Append(Entries(file), <<e>>)
    <3>1. c \in Text /\ c # <<>>
      BY <2>4 DEF Text
    <3>2. op \in Op
      BY <3>1 DEF Op
    <3>3. After(g) = Onward(Entries(file), op)
      BY <2>3, <3>2, ApplyOne DEF After
    <3>4. After(g) # Refused
      BY <2>1, <2>3 DEF TInv, Checked, Admissible
    <3>5. After(g) = ApplyOp(Entries(file), op)
      BY <3>3, <3>4 DEF Onward
    <3>6. ApplyOp(Entries(file), op) = Append(Entries(file), c)
      BY <3>1 DEF ApplyOp
    <3> QED  BY <2>4, <3>5, <3>6
  <2>8. IsInjective(After(g))
    BY <2>1, AfterTyped DEF Valid
  <2>9. ASSUME NEW i \in DOMAIN file PROVE file[i] # e
    <3> DEFINE es == Entries(file)
    <3>1. /\ DOMAIN file = 1..Len(es) /\ Len(es) \in Nat
          /\ Len(Append(es, <<e>>)) = Len(es) + 1
          /\ DOMAIN Append(es, <<e>>) = 1..(Len(es) + 1)
          /\ \A j \in 1..Len(es) : Append(es, <<e>>)[j] = es[j]
          /\ Append(es, <<e>>)[Len(es) + 1] = <<e>>
      <4>1. <<e>> \in Text
        BY DEF Text
      <4>2. Append(es, <<e>>) \in Seq(Text)
        BY <2>6, <4>1, AppendProperties DEF Contents
      <4> HIDE DEF es
      <4> QED  BY <2>6, <4>1, <4>2, AppendProperties DEF Contents, es
    <3>2. es[i] # <<e>>
      <4> HIDE DEF es
      <4> QED  BY <2>7, <2>8, <3>1 DEF IsInjective, es
    <3>3. es[i] = <<file[i]>>
      BY <2>6
    <3> QED  BY <3>2, <3>3
  <2> QED  BY <2>4, <2>9 DEF Range
<1>2. IInv /\ TInv /\ [Next]_vars =>
        [\A g \in Gateway : Changes(g) => NoCopy(g)]_vars
  BY <1>1
<1>3. Spec => [][\A g \in Gateway : Changes(g) => NoCopy(g)]_vars
  BY <1>2, SpecTInv, PTL DEF Spec
<1>4. (\A g \in Gateway : Changes(g) => NoCopy(g)) <=>
      (\A g \in Gateway : Changes(g) /\ task[g].prop # Missing =>
         Range(task[g].becomes.content) \cap Range(file) = {})
  OBVIOUS
<1> QED  BY <1>3, <1>4, PTL DEF RetryAddsNoCopy

-----------------------------------------------------------------------------
(* One gateway *)

\* The proposal that a handler is about is still pending, as the handler has
\* read it.  A second gateway could settle it in between.
StillPending ==
    \A g \in Gateway :
      /\ pc[g] \in {"lock", "meta", "replace"} /\ task[g].prop # Missing =>
           Pending(task[g].prop)
      /\ pc[g] = "settle" => Pending(task[g].prop)

OneGateway == \A g, h \in Gateway : g = h

\* At first there is no request.
LEMMA InitStillPending == Init => StillPending
  BY DEF Init, StillPending

\* A request begins with a proposal that is pending, or with none.
LEMMA BeginKeepsPending ==
  ASSUME OneGateway, IInv, NEW g \in Gateway, NEW phase \in {"lock", "settle"},
         NEW t, Begin(g, phase, t),
         Pending(t.prop) \/ (phase = "lock" /\ t.prop = Missing)
  PROVE  StillPending'
<1>1. pc'[g] = phase /\ task'[g] = t /\ prop' = prop
  BY DEF Begin, IInv, Shapes
<1> QED  BY <1>1 DEF OneGateway, StillPending, Pending

\* The requests, which differ in the task they set.
LEMMA RequestsKeepPending ==
  ASSUME OneGateway, IInv, NEW g \in Gateway,
         \/ BeginWrite(g) \/ BeginSnapshot(g) \/ BeginRestore(g)
         \/ BeginApply(g) \/ BeginUpdate(g) \/ BeginReject(g)
  PROVE  StillPending'
<1>1. CASE BeginWrite(g)
  <2>1. PICK ops \in Request :
          Begin(g, "lock", [NoTask EXCEPT !.kind = "write", !.expected = file,
                                          !.ops = ops])
    BY <1>1 DEF BeginWrite
  <2> DEFINE t == [NoTask EXCEPT !.kind = "write", !.expected = file,
                                 !.ops = ops]
  <2>2. t.prop = Missing
    BY DEF NoTask
  <2> HIDE DEF t
  <2> QED  BY <2>1, <2>2, BeginKeepsPending DEF t
<1>2. CASE BeginSnapshot(g)
  <2>1. PICK rev \in {file, Unchecked} :
          Begin(g, "lock", [NoTask EXCEPT !.kind = "snapshot", !.expected = rev])
    BY <1>2 DEF BeginSnapshot
  <2> DEFINE t == [NoTask EXCEPT !.kind = "snapshot", !.expected = rev]
  <2>2. t.prop = Missing
    BY DEF NoTask
  <2> HIDE DEF t
  <2> QED  BY <2>1, <2>2, BeginKeepsPending DEF t
<1>3. CASE BeginRestore(g)
  <2>1. PICK s \in SnapshotId, rev \in {file, Unchecked} :
          Begin(g, "lock", [NoTask EXCEPT !.kind = "restore", !.expected = rev,
                                          !.body = snap[s].body])
    BY <1>3 DEF BeginRestore
  <2> DEFINE t == [NoTask EXCEPT !.kind = "restore", !.expected = rev,
                                 !.body = snap[s].body]
  <2>2. t.prop = Missing
    BY DEF NoTask
  <2> HIDE DEF t
  <2> QED  BY <2>1, <2>2, BeginKeepsPending DEF t
<1>4. CASE BeginApply(g)
  <2>1. PICK p \in ProposalId :
          Pending(p) /\ Begin(g, "lock", ApplyTask(p))
    BY <1>4 DEF BeginApply
  <2> DEFINE t == ApplyTask(p)
  <2>2. t.prop = p
    BY DEF ApplyTask, NoTask
  <2> HIDE DEF t
  <2> QED  BY <2>1, <2>2, BeginKeepsPending DEF t
<1>5. CASE BeginUpdate(g)
  <2>1. PICK p \in ProposalId, e \in Entry :
          /\ Pending(p)
          /\ Begin(g, "settle",
                   [NoTask EXCEPT !.kind = "proposal", !.prop = p,
                                  !.becomes = [status |-> "pending",
                                               content |-> <<e>>]])
    BY <1>5 DEF BeginUpdate
  <2> DEFINE t == [NoTask EXCEPT !.kind = "proposal", !.prop = p,
                                 !.becomes = [status |-> "pending",
                                              content |-> <<e>>]]
  <2>2. t.prop = p
    BY DEF NoTask
  <2> HIDE DEF t
  <2> QED  BY <2>1, <2>2, BeginKeepsPending DEF t
<1>6. CASE BeginReject(g)
  <2>1. PICK p \in ProposalId :
          /\ Pending(p)
          /\ Begin(g, "settle",
                   [NoTask EXCEPT !.kind = "proposal", !.prop = p,
                                  !.becomes = [prop[p] EXCEPT !.status = "rejected"]])
    BY <1>6 DEF BeginReject
  <2> DEFINE t == [NoTask EXCEPT !.kind = "proposal", !.prop = p,
                                 !.becomes = [prop[p] EXCEPT !.status = "rejected"]]
  <2>2. t.prop = p
    BY DEF NoTask
  <2> HIDE DEF t
  <2> QED  BY <2>1, <2>2, BeginKeepsPending DEF t
<1> QED  BY <1>1, <1>2, <1>3, <1>4, <1>5, <1>6

\* The one gateway is at most one handler, so what it has read stays.
LEMMA NextKeepsPending ==
  ASSUME OneGateway
  PROVE  IInv /\ StillPending /\ [Next]_vars => StillPending'
<1> SUFFICES ASSUME IInv, StillPending, [Next]_vars PROVE StillPending'
  OBVIOUS
<1>1. CASE AgentWrite \/ UNCHANGED vars
  BY <1>1 DEF AgentWrite, vars, StillPending, Pending
<1>2. ASSUME NEW g \in Gateway, Handler(g) PROVE StillPending'
  <2>1. CASE \/ BeginWrite(g) \/ BeginSnapshot(g) \/ BeginRestore(g)
             \/ BeginApply(g) \/ BeginUpdate(g) \/ BeginReject(g)
    BY <2>1, RequestsKeepPending
  <2>2. CASE Reject(g) \/ Abandon(g) \/ Settle(g)
    <3>1. pc'[g] = "idle"
      BY <2>2 DEF Reject, Abandon, Settle, Finish, IInv, Shapes
    <3> QED  BY <3>1 DEF OneGateway, StillPending
  <2>3. CASE SaveBody(g)
    <3>1. pc[g] = "lock" /\ pc'[g] = "meta" /\ UNCHANGED <<prop, task>>
      BY <2>3 DEF SaveBody, IInv, Shapes
    <3> QED  BY <3>1 DEF OneGateway, StillPending, Pending
  <2>4. CASE SaveMeta(g)
    <3>1. /\ pc[g] = "meta" /\ prop' = prop
          /\ pc'[g] = "idle" \/ (pc'[g] = "replace" /\ task' = task)
      BY <2>4 DEF SaveMeta, Finish, IInv, Shapes
    <3> QED  BY <3>1 DEF OneGateway, StillPending, Pending
  <2>5. CASE Replace(g)
    <3>1. /\ pc[g] = "replace" /\ prop' = prop
          /\ \/ pc'[g] = "idle"
             \/ pc'[g] = "settle" /\ task' = task /\ task[g].prop # Missing
      BY <2>5 DEF Replace, Finish, IInv, Shapes
    <3> QED  BY <3>1 DEF OneGateway, StillPending, Pending
  <2>6. CASE Create(g)
    <3>1. pc[g] = "idle" /\ pc' = pc
      BY <2>6 DEF Create
    <3> QED  BY <3>1 DEF OneGateway, StillPending
  <2> QED  BY <1>2, <2>1, <2>2, <2>3, <2>4, <2>5, <2>6 DEF Handler
<1> QED  BY <1>1, <1>2 DEF Next

\* What is settled stays settled, in a step.
LEMMA SettledStays ==
  ASSUME IInv, StillPending, [Next]_vars, NEW p \in ProposalId,
         prop[p].status \in {"applied", "rejected"}
  PROVE  prop'[p] = prop[p] /\ written'[p] = written[p]
<1>1. CASE AgentWrite \/ UNCHANGED vars
  BY <1>1 DEF AgentWrite, vars
<1>2. ASSUME NEW g \in Gateway, Handler(g)
      PROVE  prop'[p] = prop[p] /\ written'[p] = written[p]
  <2>1. CASE Settle(g)
    <3>1. task[g].prop # p
      BY <2>1 DEF Settle, StillPending, Pending
    <3> QED  BY <2>1, <3>1 DEF Settle, IInv, Shapes
  <2>2. CASE Replace(g)
    <3>1. task[g].prop # Missing => task[g].prop # p
      BY <2>2 DEF Replace, StillPending, Pending
    <3> QED  BY <2>2, <3>1 DEF Replace, IInv, Shapes
  <2>3. CASE Create(g)
    <3>1. PICK q \in ProposalId, e \in Entry :
            /\ prop[q] = NoProposal
            /\ prop' = [prop EXCEPT ![q] = [status |-> "pending",
                                            content |-> <<e>>]]
      BY <2>3 DEF Create
    <3>2. q # p
      BY <3>1 DEF NoProposal
    <3> QED  BY <2>3, <3>1, <3>2 DEF Create, IInv, Shapes
  <2>4. CASE ~(Settle(g) \/ Replace(g) \/ Create(g))
    BY <1>2, <2>4 DEF Handler, Begin, BeginWrite, BeginSnapshot, BeginRestore,
         BeginApply, BeginUpdate, BeginReject, Reject, SaveBody, SaveMeta, Abandon
  <2> QED  BY <2>1, <2>2, <2>3, <2>4
<1> QED  BY <1>1, <1>2 DEF Next

\* With one gateway a proposal that was applied or rejected keeps its status
\* and content, and is not written again.
THEOREM SettledForGood ==
  ASSUME OneGateway
  PROVE  Spec => SettledIsFinal
<1> DEFINE Stays(p) == prop[p].status \in {"applied", "rejected"} =>
                         prop'[p] = prop[p] /\ written'[p] = written[p]
<1>1. IInv /\ StillPending /\ [Next]_vars => [\A p \in ProposalId : Stays(p)]_vars
  BY SettledStays
<1>2. IInv /\ StillPending /\ [Next]_vars => StillPending'
  BY NextKeepsPending
<1> QED  BY <1>1, <1>2, InitStillPending, SpecIInv, PTL DEF Spec, SettledIsFinal

=============================================================================
