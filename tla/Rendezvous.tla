----------------------------- MODULE Rendezvous -----------------------------
(***************************************************************************)
(* The bounded rendezvous between application threads and the scripting    *)
(* thread (sync_intercept.rs, driven by scripting/interceptors; the child- *)
(* follow rendezvous of child_process.rs is the same protocol with one     *)
(* slot).                                                                  *)
(*                                                                         *)
(* An application thread claims a slot, fills in its request and waits on  *)
(* the slot's semaphore for a bounded time.  The one scripting thread      *)
(* claims pending slots, runs Python and completes them.  A caller that    *)
(* gives up marks the slot CANCELLED; only the scripting thread retires it.*)
(*                                                                         *)
(* Simplifications:                                                        *)
(*  - a request is known by the generation drawn for it, and a response by *)
(*    the generation of the request that Python computed it from;          *)
(*  - the caller's retry loop of load and compare_exchange is one step;    *)
(*  - the scan for an IDLE slot may find any slot that is IDLE, and may    *)
(*    miss one that becomes IDLE behind it.                                *)
(***************************************************************************)
EXTENDS Naturals

CONSTANTS
  Threads,    \* application threads
  SlotCount,  \* SLOT_COUNT (16; 1 for child_process.rs)
  MaxCalls    \* bound on the number of claimed rendezvous

ASSUME RendezvousAssumption ==
  /\ SlotCount \in Nat \ {0}
  /\ MaxCalls \in Nat

Slots == 1..SlotCount

\* InterceptResponse::EMPTY, and "no generation": NEXT_GENERATION starts at 1.
Empty == 0

VARIABLES
  state,      \* Slot::state
  generation, \* Slot::generation
  request,    \* Slot::request
  response,   \* Slot::response
  sem,        \* Slot::semaphore (binary, never cleared by a wait)
  lastGen,    \* NEXT_GENERATION
  tpc,        \* where each application thread is in rendezvous()
  tslot,      \* its slot_index
  treq,       \* its request
  timedOut,   \* whether its timed wait ran out
  result,     \* what rendezvous() returned; Empty for None
  hpc,        \* where the scripting thread is
  hslot,      \* the slot it scans or handles
  hgen,       \* InterceptRequest::generation
  hreq        \* the rest of the InterceptRequest

slotVars == <<state, generation, request, response, sem>>
callerVars == <<tpc, tslot, treq, timedOut, result>>
handlerVars == <<hpc, hslot, hgen, hreq>>
vars == <<slotVars, lastGen, callerVars, handlerVars>>

Init ==
  /\ state = [s \in Slots |-> "IDLE"]
  /\ generation = [s \in Slots |-> 0]
  /\ request = [s \in Slots |-> Empty]
  /\ response = [s \in Slots |-> Empty]
  /\ sem = [s \in Slots |-> FALSE]
  /\ lastGen = 0
  /\ tpc = [t \in Threads |-> "out"]
  /\ tslot = [t \in Threads |-> 1]
  /\ treq = [t \in Threads |-> Empty]
  /\ timedOut = [t \in Threads |-> FALSE]
  /\ result = [t \in Threads |-> Empty]
  /\ hpc = "scan"
  /\ hslot = 1
  /\ hgen = 0
  /\ hreq = Empty

-----------------------------------------------------------------------------
(* rendezvous(), on an application thread inside an analysis callback.     *)

\* Mutant: the slot is claimed with a load and a store.
ClaimRacy(t, s) ==
  /\ tpc[t] = "out"
  /\ lastGen < MaxCalls
  /\ state[s] \in {"IDLE", "WRITING"}
  /\ state' = [state EXCEPT ![s] = "WRITING"]
  /\ tslot' = [tslot EXCEPT ![t] = s]
  /\ tpc' = [tpc EXCEPT ![t] = "writing"]
  /\ UNCHANGED <<generation, request, response, sem, lastGen, treq, timedOut,
                 result, handlerVars>>

\* decide_* found the event interesting; compare_exchange(IDLE, WRITING).
Claim(t, s) ==
  /\ tpc[t] = "out"
  /\ lastGen < MaxCalls
  /\ state[s] = "IDLE"
  /\ state' = [state EXCEPT ![s] = "WRITING"]
  /\ tslot' = [tslot EXCEPT ![t] = s]
  /\ tpc' = [tpc EXCEPT ![t] = "writing"]
  /\ UNCHANGED <<generation, request, response, sem, lastGen, treq, timedOut,
                 result, handlerVars>>

\* No slot: BUSY is counted and the original context continues.
Busy(t) ==
  /\ tpc[t] = "out"
  /\ lastGen < MaxCalls
  /\ \E s \in Slots : state[s] # "IDLE"
  /\ result' = [result EXCEPT ![t] = Empty]
  /\ treq' = [treq EXCEPT ![t] = Empty]
  /\ UNCHANGED <<slotVars, lastGen, tpc, tslot, timedOut, handlerVars>>

\* Draw the generation and write the request and an empty response.
Fill(t) ==
  LET g == lastGen + 1
      s == tslot[t]
  IN  /\ tpc[t] = "writing"
      /\ lastGen' = g
      /\ generation' = [generation EXCEPT ![s] = g]
      /\ request' = [request EXCEPT ![s] = g]
      /\ response' = [response EXCEPT ![s] = Empty]
      /\ treq' = [treq EXCEPT ![t] = g]
      /\ tpc' = [tpc EXCEPT ![t] = "clearing"]
      /\ UNCHANGED <<state, sem, tslot, timedOut, result, handlerVars>>

\* pb_pin_semaphore_clear
ClearSem(t) ==
  /\ tpc[t] = "clearing"
  /\ sem' = [sem EXCEPT ![tslot[t]] = FALSE]
  /\ tpc' = [tpc EXCEPT ![t] = "publishing"]
  /\ UNCHANGED <<state, generation, request, response, lastGen, tslot, treq,
                 timedOut, result, handlerVars>>

Publish(t) ==
  /\ tpc[t] = "publishing"
  /\ state' = [state EXCEPT ![tslot[t]] = "PENDING"]
  /\ tpc' = [tpc EXCEPT ![t] = "waiting"]
  /\ UNCHANGED <<generation, request, response, sem, lastGen, tslot, treq,
                 timedOut, result, handlerVars>>

\* pb_pin_semaphore_timed_wait returns: posted, or TIMEOUT_MS are over.
WaitReturns(t) ==
  /\ tpc[t] = "waiting"
  /\ \E late \in BOOLEAN :
       /\ late \/ sem[tslot[t]]
       /\ timedOut' = [timedOut EXCEPT ![t] = late]
  /\ tpc' = [tpc EXCEPT ![t] = "checking"]
  /\ UNCHANGED <<slotVars, lastGen, tslot, treq, result, handlerVars>>

TakeDecision(t) ==
  /\ tpc[t] = "checking"
  /\ state[tslot[t]] = "DECIDED"
  /\ result' = [result EXCEPT ![t] = response[tslot[t]]]
  /\ state' = [state EXCEPT ![tslot[t]] = "IDLE"]
  /\ tpc' = [tpc EXCEPT ![t] = "out"]
  /\ UNCHANGED <<generation, request, response, sem, lastGen, tslot, treq,
                 timedOut, handlerVars>>

\* Mutant: a caller that gives up frees the slot itself.
CancelFrees(t) ==
  /\ tpc[t] = "checking"
  /\ state[tslot[t]] \in {"PENDING", "HANDLING"}
  /\ result' = [result EXCEPT ![t] = Empty]
  /\ state' = [state EXCEPT ![tslot[t]] = "IDLE"]
  /\ tpc' = [tpc EXCEPT ![t] = "out"]
  /\ UNCHANGED <<generation, request, response, sem, lastGen, tslot, treq,
                 timedOut, handlerVars>>

Cancel(t) ==
  /\ tpc[t] = "checking"
  /\ state[tslot[t]] \in {"PENDING", "HANDLING"}
  /\ result' = [result EXCEPT ![t] = Empty]
  /\ state' = [state EXCEPT ![tslot[t]] = "CANCELLED"]
  /\ tpc' = [tpc EXCEPT ![t] = "out"]
  /\ UNCHANGED <<generation, request, response, sem, lastGen, tslot, treq,
                 timedOut, handlerVars>>

-----------------------------------------------------------------------------
(* The scripting thread: dispatch_pending -> take_pending, a Python        *)
(* decision, complete.                                                     *)

\* Mutant: the scan runs past the last slot.
NextSlotUnbounded(s) == s + 1

\* After the last slot take_pending gives up; the next tick starts over.
NextSlot(s) == IF s = SlotCount THEN 1 ELSE s + 1

TakePending ==
  /\ hpc = "scan"
  /\ state[hslot] = "PENDING"
  /\ state' = [state EXCEPT ![hslot] = "HANDLING"]
  /\ hpc' = "copy"
  /\ UNCHANGED <<generation, request, response, sem, lastGen, callerVars, hslot,
                 hgen, hreq>>

\* Mutant: the scan passes over a cancelled slot.
PassCancelled ==
  /\ hpc = "scan"
  /\ state[hslot] = "CANCELLED"
  /\ hslot' = NextSlot(hslot)
  /\ UNCHANGED <<slotVars, lastGen, callerVars, hpc, hgen, hreq>>

ReapCancelled ==
  /\ hpc = "scan"
  /\ state[hslot] = "CANCELLED"
  /\ state' = [state EXCEPT ![hslot] = "IDLE"]
  /\ hslot' = NextSlot(hslot)
  /\ UNCHANGED <<generation, request, response, sem, lastGen, callerVars, hpc,
                 hgen, hreq>>

PassSlot ==
  /\ hpc = "scan"
  /\ state[hslot] \notin {"PENDING", "CANCELLED"}
  /\ hslot' = NextSlot(hslot)
  /\ UNCHANGED <<slotVars, lastGen, callerVars, hpc, hgen, hreq>>

\* Mutant: only the generation is copied.
CopyGenerationOnly ==
  /\ hpc = "copy"
  /\ hgen' = generation[hslot]
  /\ hpc' = "decided"
  /\ UNCHANGED <<slotVars, lastGen, callerVars, hslot, hreq>>

CopyRequest ==
  /\ hpc = "copy"
  /\ hgen' = generation[hslot]
  /\ hreq' = request[hslot]
  /\ hpc' = "decided"
  /\ UNCHANGED <<slotVars, lastGen, callerVars, hslot>>

\* complete: the generation check
CheckGeneration ==
  /\ hpc = "decided"
  /\ IF generation[hslot] = hgen
     THEN hpc' = "respond" /\ UNCHANGED hslot
     ELSE hpc' = "scan" /\ hslot' = 1
  /\ UNCHANGED <<slotVars, lastGen, callerVars, hgen, hreq>>

WriteResponse ==
  /\ hpc = "respond"
  /\ response' = [response EXCEPT ![hslot] = hreq]
  /\ hpc' = "decide"
  /\ UNCHANGED <<state, generation, request, sem, lastGen, callerVars, hslot,
                 hgen, hreq>>

\* compare_exchange(HANDLING, DECIDED)
Decide ==
  /\ hpc = "decide"
  /\ IF state[hslot] = "HANDLING"
     THEN hpc' = "post" /\ state' = [state EXCEPT ![hslot] = "DECIDED"]
     ELSE hpc' = "retire" /\ UNCHANGED state
  /\ UNCHANGED <<generation, request, response, sem, lastGen, callerVars, hslot,
                 hgen, hreq>>

PostSem ==
  /\ hpc = "post"
  /\ sem' = [sem EXCEPT ![hslot] = TRUE]
  /\ hpc' = "scan"
  /\ hslot' = 1
  /\ UNCHANGED <<state, generation, request, response, lastGen, callerVars,
                 hgen, hreq>>

Retire ==
  /\ hpc = "retire"
  /\ state' = [state EXCEPT ![hslot] =
                 IF state[hslot] = "CANCELLED" THEN "IDLE" ELSE @]
  /\ hpc' = "scan"
  /\ hslot' = 1
  /\ UNCHANGED <<generation, request, response, sem, lastGen, callerVars, hgen,
                 hreq>>

-----------------------------------------------------------------------------
Caller(t) ==
  \/ Fill(t)
  \/ ClearSem(t)
  \/ Publish(t)
  \/ WaitReturns(t)
  \/ TakeDecision(t)
  \/ Cancel(t)

Handler ==
  \/ TakePending
  \/ ReapCancelled
  \/ PassSlot
  \/ CopyRequest
  \/ CheckGeneration
  \/ WriteResponse
  \/ Decide
  \/ PostSem
  \/ Retire

Next ==
  \/ \E t \in Threads : (\E s \in Slots : Claim(t, s)) \/ Busy(t) \/ Caller(t)
  \/ Handler

Spec == Init /\ [][Next]_vars

\* The timed wait bounds every caller; the host's tick loop keeps polling.
FairSpec ==
  /\ Spec
  /\ \A t \in Threads : WF_vars(Caller(t))
  /\ WF_vars(Handler)

-----------------------------------------------------------------------------
States == {"IDLE", "WRITING", "PENDING", "HANDLING", "DECIDED", "CANCELLED"}

TypeOK ==
  /\ state \in [Slots -> States]
  /\ generation \in [Slots -> Nat]
  /\ request \in [Slots -> Nat]
  /\ response \in [Slots -> Nat]
  /\ sem \in [Slots -> BOOLEAN]
  /\ lastGen \in Nat
  /\ tpc \in [Threads -> {"out", "writing", "clearing", "publishing", "waiting",
                          "checking"}]
  /\ tslot \in [Threads -> Slots]
  /\ treq \in [Threads -> Nat]
  /\ timedOut \in [Threads -> BOOLEAN]
  /\ result \in [Threads -> Nat]
  /\ hpc \in {"scan", "copy", "decided", "respond", "decide", "post", "retire"}
  /\ hslot \in Slots
  /\ hgen \in Nat
  /\ hreq \in Nat

\* rendezvous() returns the decision Python made on this very request, or
\* nothing: never the decision on another thread's or an earlier request, and
\* never the placeholder written before the decision.
OwnDecision ==
  \A t \in Threads :
    /\ tpc[t] = "out" => result[t] \in {Empty, treq[t]}
    /\ (tpc[t] = "checking" /\ state[tslot[t]] = "DECIDED") =>
         response[tslot[t]] = treq[t]

\* "A cancelled request owns the slot until this function retires it"
\* (child_process.rs): while the scripting thread works on a request nobody
\* reuses its slot, so the request it copied and the response it writes are
\* those of the slot's current generation.
HandlerOwnsSlot ==
  /\ hpc \in {"copy", "decided", "respond", "decide"} =>
       state[hslot] \in {"HANDLING", "CANCELLED"}
  /\ hpc = "retire" => state[hslot] = "CANCELLED"
  /\ hpc \in {"decided", "respond", "decide"} =>
       generation[hslot] = hgen /\ request[hslot] = hreq

\* Every slot that is in use has exactly one caller, or is left to the
\* scripting thread.
OneCallerPerSlot ==
  /\ \A t, u \in Threads :
       tpc[t] # "out" /\ tpc[u] # "out" /\ tslot[t] = tslot[u] => t = u
  /\ \A t \in Threads : tpc[t] # "out" => state[tslot[t]] \notin {"IDLE", "CANCELLED"}

\* No slot leaks: whether its request is decided or given up, at whatever
\* moment, a slot becomes available again.
SlotComesBack == \A s \in Slots : state[s] # "IDLE" ~> state[s] = "IDLE"

\* "Returns None when the event is not intercepted or a safe decision could
\* not be obtained in time" (decide_hook): a request is given up only after
\* its wait ran out.
CancelOnlyInTime ==
  [][\A t \in Threads :
       (tpc[t] = "checking" /\ tpc'[t] = "out" /\ state'[tslot[t]] = "CANCELLED")
         => timedOut[t]]_vars
=============================================================================
