---------------------------- MODULE ProcessShare ----------------------------
(***************************************************************************)
(* --process-share: the workers of a process apply updates to, and expand, *)
(* each other's vertices.  A distance is lowered by compare-and-swap; what *)
(* was lowered goes to the process's queue, from which any worker takes it *)
(* in batches.  The steps here are the accesses to shared memory, where    *)
(* Solver has whole handlers.                                              *)
(*                                                                         *)
(* The module continues Solver: dist, created, processed and Main's state  *)
(* are its variables, net is what htram has, queued what the shared queues *)
(* hold (module ProcessWork).  What the workers have in hand is new.       *)
(* Thresholds only choose what is popped and are left open; control is by  *)
(* reduction, so a PE contributes between its handlers.                    *)
(***************************************************************************)
EXTENDS Solver

CONSTANT
  Batch   \* --process-queue-batch: the most a worker pops at once

\* The optional filters are off.
ASSUME ShareAssumption ==
  /\ Batch \in Nat \ {0}
  /\ \A v \in Vertex : Owner[v] \in Shares[v]
  /\ LeafPrune = FALSE /\ SendFilter = FALSE /\ Combine = FALSE

VARIABLES
  batch,      \* [PE -> what it has popped and not looked at]
  expanding,  \* [PE -> the entry it is expanding, if any ...]
  left,       \* ... and the edges it has not come to
  calling,    \* [PE -> the update in process_shared_update(), if any ...]
  old,        \* ... and the distance it has read]
  won         \* [PE -> the update it has applied and not yet pushed, if any]

hands == <<batch, expanding, left, calling, old, won>>
shareVars == <<vars, hands>>

ShareInit ==
  /\ Init
  /\ batch = Nothing /\ expanding = Nothing /\ calling = Nothing /\ won = Nothing
  /\ left = [p \in PE |-> {}] /\ old = [p \in PE |-> Lmax]

\* p is between two handlers; p may go on with the handler it is in.
Idle(p) == batch[p] = {} /\ expanding[p] = {} /\ calling[p] = {} /\ won[p] = {}
Free(p) == calling[p] = {} /\ won[p] = {}

control == <<contributed, snapCreated, snapProcessed, mainvars>>

-----------------------------------------------------------------------------
(* process_shared_update() *)

\* The call begins with a load of the distance.
Call(p, u) ==
  /\ calling' = [calling EXCEPT ![p] = {u}]
  /\ old' = [old EXCEPT ![p] = dist[u.to]]

\* start_algo(), with its call: nobody else has anything to do yet.
ShareStart(p) == Idle(p) /\ Start(p) /\ UNCHANGED hands

\* A message reaches the owner of its vertex.
Arrive(p) ==
  /\ Idle(p)
  /\ \E u \in net :
       /\ p = Owner[u.to]
       /\ net' = net \ {u}
       /\ Call(p, u)
  /\ UNCHANGED <<dist, queued, created, processed, control, batch, expanding, left, won>>

\* The compare-and-swap succeeds.  Mutant: it is a plain store.
SwapsBlindly(p, u) == TRUE
Swaps(p, u) == dist[u.to] = old[p]

\* One turn of the loop: an update that is smaller than what was read is
\* swapped in, or what is there now is read; one that is not is rejected.
Attempt(p) ==
  /\ \E u \in calling[p] :
       \/ /\ u.d < old[p] /\ Swaps(p, u)
          /\ dist' = [dist EXCEPT ![u.to] = u.d]
          /\ calling' = [calling EXCEPT ![p] = {}]
          /\ IF QueueWorthy(u.to, u.d)
             THEN won' = [won EXCEPT ![p] = {u}] /\ UNCHANGED processed
             ELSE processed' = Count(processed, p, {u}) /\ UNCHANGED won
          /\ UNCHANGED old
       \/ /\ u.d < old[p] /\ ~Swaps(p, u)
          /\ old' = [old EXCEPT ![p] = dist[u.to]]
          /\ UNCHANGED <<dist, calling, won, processed>>
       \/ /\ u.d >= old[p]
          /\ processed' = Count(processed, p, {u})
          /\ calling' = [calling EXCEPT ![p] = {}]
          /\ UNCHANGED <<dist, old, won>>
  /\ UNCHANGED <<net, queued, created, control, batch, expanding, left>>

\* push(): whoever pops it will retire it.
Push(p) ==
  /\ won[p] # {}
  /\ queued' = queued \cup won[p]
  /\ won' = [won EXCEPT ![p] = {}]
  /\ UNCHANGED <<dist, net, created, processed, control, batch, expanding, left,
                 calling, old>>

-----------------------------------------------------------------------------
(* process_shared_heap() *)

\* pop_batch()
Pop(p) ==
  /\ Idle(p)
  /\ \E us \in SUBSET {u \in queued : p \in Shares[u.to]} :
       /\ us # {} /\ Cardinality(us) <= Batch
       /\ batch' = [batch EXCEPT ![p] = us]
       /\ queued' = queued \ us
  /\ UNCHANGED <<dist, net, created, processed, control, expanding, left,
                 calling, old, won>>

\* A new round has made an entry of the batch ineligible: it goes back.
Return(p) ==
  /\ Free(p) /\ expanding[p] = {}
  /\ \E u \in batch[p] :
       /\ batch' = [batch EXCEPT ![p] = @ \ {u}]
       /\ queued' = queued \cup {u}
  /\ UNCHANGED <<dist, net, created, processed, control, expanding, left,
                 calling, old, won>>

\* The entry is compared with the distance once, then its edges are scanned.
\* A stale one is retired.
Begin(p) ==
  /\ Free(p) /\ expanding[p] = {}
  /\ \E u \in batch[p] :
       /\ batch' = [batch EXCEPT ![p] = @ \ {u}]
       /\ IF u.d = dist[u.to]
          THEN /\ expanding' = [expanding EXCEPT ![p] = {u}]
               /\ left' = [left EXCEPT ![p] = Out(u.to)]
               /\ UNCHANGED processed
          ELSE /\ processed' = Count(processed, p, {u})
               /\ UNCHANGED <<expanding, left>>
  /\ UNCHANGED <<dist, net, queued, created, control, calling, old, won>>

\* The update of an edge, for the distance the entry was accepted at.
Sent(u, e) == Relaxation(e, u.d)

\* An edge is relaxed: within the process by a call, else through htram.
Relax(p) ==
  /\ Free(p)
  /\ \E u \in expanding[p], e \in left[p] :
       /\ left' = [left EXCEPT ![p] = @ \ {e}]
       /\ created' = Count(created, p, {Sent(u, e)})
       /\ IF p \in Shares[To[e]]
          THEN Call(p, Sent(u, e)) /\ UNCHANGED net
          ELSE net' = net \cup {Sent(u, e)} /\ UNCHANGED <<calling, old>>
  /\ UNCHANGED <<dist, queued, processed, control, batch, expanding, won>>

\* Mutant of End: edges are left when the entry is retired.
EndEarly(p) ==
  /\ Free(p)
  /\ expanding[p] # {}
  /\ processed' = Count(processed, p, expanding[p])
  /\ expanding' = [expanding EXCEPT ![p] = {}]
  /\ UNCHANGED <<dist, net, queued, created, control, batch, left, calling, old, won>>

\* The entry is retired once its edges are done.
End(p) ==
  /\ Free(p) /\ left[p] = {}
  /\ expanding[p] # {}
  /\ processed' = Count(processed, p, expanding[p])
  /\ expanding' = [expanding EXCEPT ![p] = {}]
  /\ UNCHANGED <<dist, net, queued, created, control, batch, left, calling, old, won>>

\* contribute_histogram()
ShareContribute(p) == Idle(p) /\ Contribute(p) /\ UNCHANGED hands

-----------------------------------------------------------------------------
(* The same run as its handlers see it *)

\* What an expansion still has to send.
Owed(p) == UNION {{Sent(u, e) : e \in left[p]} : u \in expanding[p]}

\* What a worker has in hand is in flight or queued, and an expansion happens
\* when its entry is compared.
Handlers == INSTANCE Solver WITH
  net <- net \cup UNION {calling[p] \cup Owed(p) : p \in PE},
  queued <- queued \cup UNION {batch[p] \cup won[p] : p \in PE},
  created <- [p \in PE |-> created[p] \cup Owed(p)],
  processed <- [p \in PE |-> processed[p] \cup expanding[p]]

\* Main decides as in Solver.  Its auxiliary round* variables remember the
\* counters as the handlers see them.
ShareRound ==
  /\ UNCHANGED <<dist, net, queued, created, processed, hands>>
  /\ Handlers!NextRound

ShareNext ==
  \/ \E p \in PE :
       \/ ShareStart(p) \/ Arrive(p) \/ Attempt(p) \/ Push(p)
       \/ Pop(p) \/ Return(p) \/ Begin(p) \/ Relax(p) \/ End(p)
       \/ ShareContribute(p)
  \/ Finish /\ UNCHANGED hands
  \/ ShareRound

ShareSpec == ShareInit /\ [][ShareNext]_shareVars

-----------------------------------------------------------------------------
(* Properties *)

\* Every step at the grain of memory accesses is a step of Solver, whose
\* handlers are atomic, or none.
HandlersSpec == Handlers!Spec
=============================================================================
