-------------------------- MODULE RendezvousProofs --------------------------
(***************************************************************************)
(* Proofs about Rendezvous, for any set of threads and any number of slots.*)
(* SlotInv is the inductive invariant: it says who may touch a slot in     *)
(* each of its states, and what the slot holds then.                       *)
(***************************************************************************)
EXTENDS Rendezvous, TLAPS

Filling == {"clearing", "publishing"}
Published == {"waiting", "checking"}
Handling == {"copy", "decided", "respond", "decide"}

\* A caller's slot is WRITING before it is published, then in one of the
\* states the handler moves it through; it holds the caller's own request,
\* and once DECIDED the decision on it.
CallerSide ==
  \A t \in Threads :
    /\ tpc[t] \in Filling \cup {"writing"} => state[tslot[t]] = "WRITING"
    /\ tpc[t] \in Published =>
         state[tslot[t]] \in {"PENDING", "HANDLING", "DECIDED"}
    /\ tpc[t] \in Filling \cup Published => request[tslot[t]] = treq[t]
    /\ tpc[t] \in Published /\ state[tslot[t]] = "DECIDED" =>
         response[tslot[t]] = treq[t]
    /\ tpc[t] = "out" => result[t] \in {Empty, treq[t]}

ExclusiveSlots ==
  \A t, u \in Threads :
    tpc[t] # "out" /\ tpc[u] # "out" /\ tslot[t] = tslot[u] => t = u

\* Only the slot the scripting thread works on is HANDLING.
HandlerSide ==
  /\ HandlerOwnsSlot
  /\ \A s \in Slots : state[s] = "HANDLING" => hpc \in Handling /\ hslot = s
  /\ hpc = "decide" => response[hslot] = hreq

SlotInv == TypeOK /\ CallerSide /\ ExclusiveSlots /\ HandlerSide

-----------------------------------------------------------------------------
\* The scan of take_pending stays within the slots.
LEMMA SlotFacts == 1 \in Slots /\ \A s \in Slots : NextSlot(s) \in Slots
  BY RendezvousAssumption DEF Slots, NextSlot

\* Every step keeps every variable in its type.
LEMMA TypeStep == TypeOK /\ [Next]_vars => TypeOK'
<1> SUFFICES ASSUME TypeOK, [Next]_vars PROVE TypeOK'
  OBVIOUS
<1> USE SlotFacts DEF TypeOK, States, Empty, vars, slotVars, callerVars,
     handlerVars
<1>1. ASSUME NEW t \in Threads, NEW s \in Slots, Claim(t, s)
      PROVE  TypeOK'
  BY <1>1 DEF Claim
<1>2. ASSUME NEW t \in Threads, Busy(t) PROVE TypeOK'
  BY <1>2 DEF Busy
<1>3. ASSUME NEW t \in Threads, Fill(t) PROVE TypeOK'
  <2>1. lastGen + 1 \in Nat /\ tslot[t] \in Slots
    OBVIOUS
  <2>2. QED
    BY <1>3, <2>1 DEF Fill
<1>4. ASSUME NEW t \in Threads, ClearSem(t) PROVE TypeOK'
  BY <1>4 DEF ClearSem
<1>5. ASSUME NEW t \in Threads, Publish(t) PROVE TypeOK'
  BY <1>5 DEF Publish
<1>6. ASSUME NEW t \in Threads, WaitReturns(t) PROVE TypeOK'
  BY <1>6 DEF WaitReturns
<1>7. ASSUME NEW t \in Threads, TakeDecision(t) PROVE TypeOK'
  BY <1>7 DEF TakeDecision
<1>8. ASSUME NEW t \in Threads, Cancel(t) PROVE TypeOK'
  BY <1>8 DEF Cancel
<1>9. CASE TakePending
  BY <1>9 DEF TakePending
<1>10. CASE ReapCancelled
  BY <1>10 DEF ReapCancelled
<1>11. CASE PassSlot
  BY <1>11 DEF PassSlot
<1>12. CASE CopyRequest
  BY <1>12 DEF CopyRequest
<1>13. CASE CheckGeneration
  BY <1>13 DEF CheckGeneration
<1>14. CASE WriteResponse
  BY <1>14 DEF WriteResponse
<1>15. CASE Decide
  BY <1>15 DEF Decide
<1>16. CASE PostSem
  BY <1>16 DEF PostSem
<1>17. CASE Retire
  BY <1>17 DEF Retire
<1>18. CASE UNCHANGED vars
  BY <1>18
<1>19. QED
  BY <1>1, <1>2, <1>3, <1>4, <1>5, <1>6, <1>7, <1>8, <1>9, <1>10, <1>11,
     <1>12, <1>13, <1>14, <1>15, <1>16, <1>17, <1>18 DEF Next, Caller,
     Handler

LEMMA TypeInit == Init => TypeOK
  BY RendezvousAssumption DEF Init, TypeOK, States, Slots, Empty

\* The variables of the rendezvous keep their types in every behaviour.
THEOREM TypeCorrect == Spec => []TypeOK
<1>1. QED
  BY TypeInit, TypeStep, PTL DEF Spec

-----------------------------------------------------------------------------
LEMMA SlotStep == SlotInv /\ [Next]_vars => SlotInv'
<1> SUFFICES ASSUME SlotInv, [Next]_vars
             PROVE  (CallerSide /\ ExclusiveSlots /\ HandlerSide)'
  BY TypeStep DEF SlotInv
<1> DEFINE Body == CallerSide /\ ExclusiveSlots /\ HandlerSide
<1>a. TypeOK /\ Body
  BY DEF SlotInv
<1> USE <1>a
<1> USE DEF CallerSide, ExclusiveSlots, HandlerSide, HandlerOwnsSlot, TypeOK,
     States, Filling, Published, Handling, Empty, vars, slotVars,
     callerVars, handlerVars
<1>1. ASSUME NEW t \in Threads, NEW s \in Slots, Claim(t, s)
      PROVE  Body'
  BY <1>1 DEF Claim
<1>2. ASSUME NEW t \in Threads, Busy(t) PROVE Body'
  BY <1>2 DEF Busy
<1>3. ASSUME NEW t \in Threads, Fill(t) PROVE Body'
  BY <1>3 DEF Fill
<1>4. ASSUME NEW t \in Threads, ClearSem(t) PROVE Body'
  BY <1>4 DEF ClearSem
<1>5. ASSUME NEW t \in Threads, Publish(t) PROVE Body'
  BY <1>5 DEF Publish
<1>6. ASSUME NEW t \in Threads, WaitReturns(t) PROVE Body'
  BY <1>6 DEF WaitReturns
<1>7. ASSUME NEW t \in Threads, TakeDecision(t) PROVE Body'
  BY <1>7 DEF TakeDecision
<1>8. ASSUME NEW t \in Threads, Cancel(t) PROVE Body'
  BY <1>8 DEF Cancel
<1>9. CASE TakePending
  BY <1>9 DEF TakePending
<1>10. CASE ReapCancelled
  BY <1>10 DEF ReapCancelled
<1>11. CASE PassSlot
  BY <1>11 DEF PassSlot
<1>12. CASE CopyRequest
  BY <1>12 DEF CopyRequest
<1>13. CASE CheckGeneration
  BY <1>13 DEF CheckGeneration
<1>14. CASE WriteResponse
  BY <1>14 DEF WriteResponse
<1>15. CASE Decide
  BY <1>15 DEF Decide
<1>16. CASE PostSem
  BY <1>16 DEF PostSem
<1>17. CASE Retire
  BY <1>17 DEF Retire
<1>18. CASE UNCHANGED vars
  BY <1>18
<1>19. QED
  BY <1>1, <1>2, <1>3, <1>4, <1>5, <1>6, <1>7, <1>8, <1>9, <1>10, <1>11,
     <1>12, <1>13, <1>14, <1>15, <1>16, <1>17, <1>18 DEF Next, Caller,
     Handler

LEMMA SlotAlways == Spec => []SlotInv
<1>1. Init => SlotInv
  BY TypeInit DEF Init, SlotInv, CallerSide, ExclusiveSlots, HandlerSide,
     HandlerOwnsSlot, Filling, Published, Handling
<1>2. QED
  BY <1>1, SlotStep, PTL DEF Spec

\* Whatever times out whenever, a caller gets the decision on its own request
\* or none.
THEOREM DecisionIsOwn == Spec => []OwnDecision
<1>1. SlotInv => OwnDecision
  BY DEF SlotInv, CallerSide, Published, OwnDecision
<1>2. QED
  BY <1>1, SlotAlways, PTL

\* The scripting thread works on a slot nobody reuses: the generation check of
\* complete() never fails.
THEOREM HandlerIsOwner == Spec => []HandlerOwnsSlot
<1>1. SlotInv => HandlerOwnsSlot
  BY DEF SlotInv, HandlerSide
<1>2. QED
  BY <1>1, SlotAlways, PTL

\* No two callers share a slot, and none of them holds a free one.
THEOREM SlotsAreExclusive == Spec => []OneCallerPerSlot
<1>1. SlotInv => OneCallerPerSlot
  BY DEF SlotInv, CallerSide, ExclusiveSlots, Filling, Published, TypeOK,
     OneCallerPerSlot
<1>2. QED
  BY <1>1, SlotAlways, PTL
=============================================================================
