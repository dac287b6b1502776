---------------------------- MODULE ClearedQueue ----------------------------
(***************************************************************************)
(* The send queue: a CircleQueue that its reader, the net thread, also     *)
(* clears when a connection breaks (_check_error_on_sock), while the main  *)
(* thread may be in the middle of an append.  clear is set_boundary(0, 0), *)
(* two stores; the second one writes the word that otherwise only the      *)
(* writer writes.  The net thread clears either between two messages (an   *)
(* error found by select) or after it peeked one and Send failed, in which *)
(* case the pop that follows runs on the cleared queue.                    *)
(***************************************************************************)
EXTENDS CircleQueue, FiniteSets

CONSTANT MaxClears        \* bound: number of clears

ASSUME MaxClearsAssumption == MaxClears \in Nat

VARIABLES clearing,       \* the head is zero, the tail not yet
          clears,         \* history: how many clears were finished
          raced,          \* history: some append overlapped a clear
          skipped         \* history: nodes popped that were not the one taken

clearVars == <<clearing, clears, raced, skipped>>
allVars == <<vars, clearVars>>

ClearInit == Init /\ clearing = FALSE /\ clears = 0 /\ raced = FALSE
               /\ skipped = {}

\* set_boundary(0, 0), first store.
ClearHead ==
  /\ ~ clearing
  /\ cPc \in {"idle", "pop"}
  /\ clears < MaxClears
  /\ head' = 0
  /\ clearing' = TRUE
  /\ raced' = (raced \/ Busy)
  /\ UNCHANGED <<tail, mem, producerVars, consumerVars, posted, popped, taken,
                 clears, skipped>>

\* Mutant: only the head is set.
ClearTailKept ==
  /\ clearing
  /\ clearing' = FALSE
  /\ clears' = clears + 1
  /\ popped' = Len(posted)
  /\ UNCHANGED <<head, tail, mem, producerVars, consumerVars, posted, taken,
                 raced, skipped>>

\* set_boundary(0, 0), second store: whatever was queued is gone.
ClearTail ==
  /\ clearing
  /\ tail' = 0
  /\ clearing' = FALSE
  /\ clears' = clears + 1
  /\ popped' = Len(posted)
  /\ UNCHANGED <<head, mem, producerVars, consumerVars, posted, taken, raced,
                 skipped>>

\* The main thread does not know of the clear.
Append2 ==
  /\ Producer
  /\ raced' = (raced \/ clearing)
  /\ UNCHANGED <<clearing, clears, skipped>>

\* The net thread is in clear until the second store.
Peek ==
  /\ ~ clearing
  /\ GetBoundary \/ GetLength \/ TakeMessage
  /\ UNCHANGED clearVars

TakenIds == {taken[i][1] : i \in 1 .. Len(taken)}

\* Mutant: the removal empties the queue.
RemoveAll ==
  /\ ~ clearing
  /\ cPc = "pop"
  /\ cPc' = "idle"
  /\ head' = tail
  /\ popped' = Len(posted)
  /\ skipped' = skipped \cup ((popped + 1 .. Len(posted)) \ TakenIds)
  /\ UNCHANGED <<tail, mem, producerVars, cTail, cAt, cSize, posted, taken,
                 clearing, clears, raced>>

Remove ==
  /\ ~ clearing
  /\ Pop
  /\ skipped' = IF popped' = popped + 1 /\ popped' \notin TakenIds
                THEN skipped \cup {popped'} ELSE skipped
  /\ UNCHANGED <<clearing, clears, raced>>

ClearNext == Append2 \/ Peek \/ Remove \/ ClearHead \/ ClearTail

ClearSpec == ClearInit /\ [][ClearNext]_allVars

----------------------------------------------------------------------------
\* What the reader gets are whole messages in the order they were appended,
\* none of them twice: what circle_queue.h says one reading and one writing
\* thread may rely on without a lock.
InOrder ==
  /\ \A i \in 1 .. Len(taken) : taken[i] # Torn
  /\ \A i, j \in 1 .. Len(taken) : i < j => taken[i][1] < taken[j][1]

\* It holds in every run in which no append overlaps a clear, and then the
\* ring is empty exactly when nothing published is left in it.
InOrderUnlessRaced ==
  ~ raced => /\ InOrder
             /\ ~ clearing => (head = tail <=> popped = Len(posted))

\* The pop that follows a clear removes whatever was appended meanwhile: each
\* clear costs at most one message appended after it, never more.
ClearSkipsAtMostOne == ~ raced => Cardinality(skipped) <= clears
=============================================================================
