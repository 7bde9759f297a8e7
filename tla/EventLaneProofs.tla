-------------------------- MODULE EventLaneProofs ---------------------------
(***************************************************************************)
(* What the readers of an event lane are promised, for any capacity, page  *)
(* size, number of producers and number of plugins.                        *)
(***************************************************************************)
EXTENDS EventLane, Integers, SequenceTheorems, TLAPS

-----------------------------------------------------------------------------
(* The inductive invariant.                                                *)

\* The ring holds the newest Capacity stored events, each in its slot.
Retained ==
  /\ Len(accepted) = total
  /\ \A n \in 1..total :
       n + Capacity > total => events[SlotOf(n)] = Record(n, accepted[n])

\* A page is a run of stored events.
PageRun ==
  \A i \in DOMAIN page :
    /\ page[i].sequence \in 1..total
    /\ page[i].sequence = page[1].sequence + i - 1
    /\ page[i].event = accepted[page[i].sequence]

\* It starts right behind the slowest plugin, or where the ring had lapped it.
PageStart ==
  page # <<>> =>
    /\ after < page[1].sequence
    /\ \/ page[1].sequence = after + 1
       \/ page[1].sequence - 1 + Capacity <= total

\* There is a page only between its copy and the end of the tick, and a tick
\* visits plugins that are loaded and not behind its page.
TickShape ==
  /\ hpc \in {"idle", "spin", "copy"} => page = <<>>
  /\ hpc = "idle" => todo = {}
  /\ \A p \in todo : after <= cursor[p] /\ pstate[p] # "absent"

\* What a plugin was given lies between its start and its cursor.
Delivered ==
  \A p \in Plugins :
    /\ \A i \in DOMAIN got[p] : got[p][i] <= cursor[p]
    /\ pstate[p] = "absent" => got[p] = <<>> /\ dropped[p] = 0

LaneInv ==
  /\ TypeOK
  /\ Retained
  /\ PageRun
  /\ PageStart
  /\ TickShape
  /\ Delivered
  /\ ExactAccounting
  /\ LostOnlyWhenLapped

\* The lock's owner is the only one at work on the ring.
LockOwned ==
  /\ \A t \in Threads :
       (lock = t) <=> (tpc[t] \in {"push", "publish", "unlock"})
  /\ (lock = Host) <=> (hpc \in {"copy", "release"})

-----------------------------------------------------------------------------
(* The ring and the page.                                                  *)

\* Two sequence numbers less than a lap apart have different slots.
LEMMA SlotsApart ==
  ASSUME NEW m \in Nat \ {0}, NEW n \in Nat \ {0}, m < n, n < m + Capacity
  PROVE  SlotOf(m) # SlotOf(n)
<1> DEFINE a == m - 1
           b == n - 1
<1>1. /\ Capacity \in Nat \ {0}
      /\ a \in Nat /\ b \in Nat /\ a < b /\ b < a + Capacity
  BY LaneAssumption
<1> HIDE DEF a, b
<1>2. /\ a = Capacity * (a \div Capacity) + (a % Capacity)
      /\ b = Capacity * (b \div Capacity) + (b % Capacity)
      /\ a \div Capacity \in Int /\ b \div Capacity \in Int
      /\ a % Capacity \in 0..(Capacity - 1)
      /\ b % Capacity \in 0..(Capacity - 1)
  BY <1>1
<1>3. ASSUME a % Capacity = b % Capacity
      PROVE  FALSE
  <2> DEFINE qa == a \div Capacity
             qb == b \div Capacity
  <2>1. /\ qa \in Int /\ qb \in Int
        /\ b - a = Capacity * qb - Capacity * qa
    BY <1>1, <1>2, <1>3
  <2> HIDE DEF qa, qb
  <2>2. b - a = Capacity * (qb - qa)
    BY <1>1, <2>1
  <2> DEFINE d == qb - qa
  <2>3. d \in Int /\ Capacity * d > 0 /\ Capacity * d < Capacity
    BY <1>1, <2>1, <2>2
  <2> HIDE DEF d
  <2>4. CASE d <= 0
    <3>1. Capacity * d <= 0
      BY <1>1, <2>3, <2>4
    <3> QED
      BY <1>1, <2>3, <3>1
  <2>5. CASE d >= 1
    <3>1. Capacity * d >= Capacity
      BY <1>1, <2>3, <2>5
    <3> QED
      BY <1>1, <2>3, <3>1
  <2> QED
    BY <2>3, <2>4, <2>5
<1> QED
  BY <1>3 DEF a, b, SlotOf

\* A sequence number has a slot of the ring.
LEMMA SlotInRing ==
  ASSUME NEW n \in Nat \ {0}
  PROVE  SlotOf(n) \in 0..(Capacity - 1)
<1>1. Capacity \in Nat \ {0} /\ n - 1 \in Nat
  BY LaneAssumption
<1> QED
  BY <1>1 DEF SlotOf

\* What page_into copies: retained events, in order, from behind the slowest
\* plugin on or from the oldest one the ring still has.
LEMMA PageCopied ==
  ASSUME TypeOK, Retained
  PROVE  /\ PageInto \in Seq(Records)
         /\ \A i \in DOMAIN PageInto :
              /\ PageInto[i].sequence \in 1..total
              /\ PageInto[i].sequence = PageInto[1].sequence + i - 1
              /\ PageInto[i].event = accepted[PageInto[i].sequence]
         /\ PageInto # <<>> =>
              /\ after < PageInto[1].sequence
              /\ \/ PageInto[1].sequence = after + 1
                 \/ PageInto[1].sequence - 1 + Capacity <= total
<1> DEFINE first == MaxOf(after + 1, Oldest)
           last == MinOf(first + PageCap - 1, total)
           n == IF first <= last THEN last - first + 1 ELSE 0
<1>1. /\ Capacity \in Nat \ {0} /\ PageCap \in Nat \ {0}
      /\ total \in Nat /\ after \in Nat /\ accepted \in Seq(Nat)
      /\ events \in [0..(Capacity - 1) -> Records]
      /\ Len(accepted) = total
  BY LaneAssumption DEF TypeOK, Retained
<1>2. /\ first \in Nat /\ first >= 1 /\ first > after
      /\ first + Capacity > total
      /\ first = after + 1 \/ first - 1 + Capacity <= total
  BY <1>1 DEF MaxOf, MinOf, Oldest
<1> HIDE DEF first
<1>3. n \in Nat /\ \A i \in 1..n : first + i - 1 \in 1..total
  <2>1. last \in Int /\ last <= total
    BY <1>1, <1>2 DEF MinOf
  <2> HIDE DEF last
  <2> QED
    BY <1>1, <1>2, <2>1
<1>4. PageInto = [i \in 1..n |-> events[SlotOf(first + i - 1)]]
  BY DEF PageInto, first
<1> HIDE DEF last, n
<1>5. \A i \in 1..n :
        /\ PageInto[i] = Record(first + i - 1, accepted[first + i - 1])
        /\ PageInto[i] \in Records
        /\ PageInto[i].sequence = first + i - 1
        /\ PageInto[i].event = accepted[first + i - 1]
  <2> SUFFICES ASSUME NEW i \in 1..n
               PROVE  /\ PageInto[i] =
                           Record(first + i - 1, accepted[first + i - 1])
                      /\ PageInto[i] \in Records
                      /\ PageInto[i].sequence = first + i - 1
                      /\ PageInto[i].event = accepted[first + i - 1]
    OBVIOUS
  <2>1. /\ first + i - 1 \in 1..total
        /\ first + i - 1 + Capacity > total
    BY <1>1, <1>2, <1>3
  <2>2. PageInto[i] = Record(first + i - 1, accepted[first + i - 1])
    BY <1>1, <1>4, <2>1 DEF Retained
  <2>3. accepted[first + i - 1] \in Nat
    BY <1>1, <2>1
  <2> QED
    BY <2>1, <2>2, <2>3 DEF Record, Records
<1>6. /\ PageInto \in Seq(Records)
      /\ DOMAIN PageInto = 1..n
      /\ PageInto # <<>> => 1 \in 1..n
  BY <1>3, <1>4, <1>5
<1>7. 1 \in 1..n => PageInto[1].sequence = first
  BY <1>2, <1>5
<1>8. \A i \in 1..n :
        /\ PageInto[i].sequence \in 1..total
        /\ PageInto[i].sequence = PageInto[1].sequence + i - 1
        /\ PageInto[i].event = accepted[PageInto[i].sequence]
  <2> SUFFICES ASSUME NEW i \in 1..n
               PROVE  /\ PageInto[i].sequence \in 1..total
                      /\ PageInto[i].sequence = PageInto[1].sequence + i - 1
                      /\ PageInto[i].event = accepted[PageInto[i].sequence]
    OBVIOUS
  <2>1. 1 \in 1..n
    BY <1>3
  <2>2. PageInto[1].sequence = first
    BY <1>7, <2>1
  <2>3. /\ PageInto[i].sequence = first + i - 1
        /\ PageInto[i].event = accepted[first + i - 1]
        /\ first + i - 1 \in 1..total
    BY <1>3, <1>5
  <2> QED
    BY <2>2, <2>3
<1> QED
  BY <1>2, <1>6, <1>7, <1>8

\* The records a plugin skips are a prefix of the page, possibly all of it.
LEMMA SkippedPrefix ==
  ASSUME TypeOK, PageRun, NEW p \in Plugins
  PROVE  /\ FirstNew(p) \in 1..(Len(page) + 1)
         /\ \A i \in 1..(FirstNew(p) - 1) : page[i].sequence <= cursor[p]
         /\ FirstNew(p) <= Len(page) =>
              page[FirstNew(p)].sequence > cursor[p]
<1> DEFINE Good(k) ==
             /\ \A i \in 1..(k - 1) : page[i].sequence <= cursor[p]
             /\ k <= Len(page) => page[k].sequence > cursor[p]
<1>1. /\ page \in Seq(Records) /\ Len(page) \in Nat
      /\ DOMAIN page = 1..Len(page) /\ cursor[p] \in Nat
      /\ \A i \in 1..Len(page) : page[i] \in Records
  BY DEF TypeOK
<1>2. \A i \in 1..Len(page) : page[i].sequence \in Nat
  BY <1>1 DEF Records
<1>3. \A i \in 1..Len(page) : page[i].sequence = page[1].sequence + i - 1
  BY <1>1 DEF PageRun
<1>4. \E k \in 1..(Len(page) + 1) : Good(k)
  <2>1. CASE \/ Len(page) = 0
             \/ Len(page) > 0 /\ page[1].sequence > cursor[p]
    <3>1. Good(1)
      BY <1>1, <2>1
    <3> HIDE DEF Good
    <3> QED
      BY <1>1, <3>1
  <2>3. CASE /\ Len(page) > 0 /\ page[1].sequence <= cursor[p]
             /\ cursor[p] - page[1].sequence + 2 <= Len(page)
    <3> DEFINE k == cursor[p] - page[1].sequence + 2
    <3>1. k \in 1..Len(page) /\ 1 \in 1..Len(page)
      BY <1>1, <1>2, <2>3
    <3>2. page[k].sequence = page[1].sequence + k - 1
      BY <1>3, <3>1
    <3>3. \A i \in 1..(k - 1) : page[i].sequence = page[1].sequence + i - 1
      BY <1>1, <1>3, <3>1
    <3>4. Good(k)
      BY <1>1, <1>2, <3>1, <3>2, <3>3
    <3>5. k \in 1..(Len(page) + 1)
      BY <1>1, <3>1
    <3> HIDE DEF Good, k
    <3> QED
      BY <3>4, <3>5
  <2>4. CASE /\ Len(page) > 0 /\ page[1].sequence <= cursor[p]
             /\ cursor[p] - page[1].sequence + 2 > Len(page)
    <3>1. Good(Len(page) + 1)
      BY <1>1, <1>2, <1>3, <2>4
    <3> HIDE DEF Good
    <3> QED
      BY <1>1, <3>1
  <2> QED
    BY <1>1, <1>2, <2>1, <2>3, <2>4
<1>5. FirstNew(p) = CHOOSE k \in 1..(Len(page) + 1) : Good(k)
  BY DEF FirstNew
<1> QED
  BY <1>4, <1>5

\* What a plugin is given: a run of sequence numbers past its cursor, with a
\* gap in front only where the ring had lapped it.
LEMMA UnseenRun ==
  ASSUME TypeOK, PageRun, PageStart, TickShape, NEW p \in todo
  PROVE  /\ Unseen(p) \in Seq(Records)
         /\ \A j \in 1..Len(Unseen(p)) :
              /\ Unseen(p)[j].sequence \in Nat
              /\ Unseen(p)[j].sequence = Unseen(p)[1].sequence + j - 1
              /\ Unseen(p)[j].sequence > cursor[p]
         /\ Len(Unseen(p)) > 0 =>
              \/ Unseen(p)[1].sequence = cursor[p] + 1
              \/ Unseen(p)[1].sequence - 1 + Capacity <= total
<1> DEFINE k == FirstNew(p)
           new == Unseen(p)
<1>1. /\ page \in Seq(Records) /\ Len(page) \in Nat
      /\ DOMAIN page = 1..Len(page) /\ cursor[p] \in Nat
      /\ total \in Nat /\ after \in Nat /\ p \in Plugins
      /\ \A i \in 1..Len(page) : page[i] \in Records
  BY DEF TypeOK
<1>2. \A i \in 1..Len(page) : /\ page[i].sequence \in Nat
                              /\ page[i].sequence = page[1].sequence + i - 1
  BY <1>1 DEF Records, PageRun
<1>3. /\ k \in 1..(Len(page) + 1)
      /\ \A i \in 1..(k - 1) : page[i].sequence <= cursor[p]
      /\ k <= Len(page) => page[k].sequence > cursor[p]
  BY <1>1, SkippedPrefix
<1>4. new = SubSeq(page, k, Len(page))
  BY DEF Unseen
<1> HIDE DEF k, new
<1>5. /\ new \in Seq(Records)
      /\ Len(new) = Len(page) - k + 1
      /\ \A j \in 1..Len(new) : new[j] = page[k + j - 1]
  BY <1>1, <1>3, <1>4
<1>6. \A j \in 1..Len(new) :
        /\ new[j].sequence \in Nat
        /\ new[j].sequence = new[1].sequence + j - 1
        /\ new[j].sequence > cursor[p]
  <2> SUFFICES ASSUME NEW j \in 1..Len(new)
               PROVE  /\ new[j].sequence \in Nat
                      /\ new[j].sequence = new[1].sequence + j - 1
                      /\ new[j].sequence > cursor[p]
    OBVIOUS
  <2>1. /\ k + j - 1 \in 1..Len(page) /\ k \in 1..Len(page)
        /\ 1 \in 1..Len(new) /\ 1 \in 1..Len(page)
    BY <1>1, <1>3, <1>5
  <2>2. new[j] = page[k + j - 1] /\ new[1] = page[k + 1 - 1]
    BY <1>5, <2>1
  <2>3. k + 1 - 1 = k
    BY <2>1
  <2>4. /\ page[k + j - 1].sequence = page[1].sequence + (k + j - 1) - 1
        /\ page[k].sequence = page[1].sequence + k - 1
        /\ page[1].sequence \in Nat
        /\ page[k + j - 1].sequence \in Nat
    BY <1>2, <2>1
  <2>5. page[k].sequence > cursor[p]
    BY <1>3, <2>1
  <2>6. /\ new[j].sequence = page[k + j - 1].sequence
        /\ new[1].sequence = page[k].sequence
    BY <2>2, <2>3
  <2>7. j \in Nat /\ j >= 1 /\ k \in Nat /\ cursor[p] \in Nat
    BY <1>1, <2>1
  <2> DEFINE x == page[k + j - 1].sequence
             y == page[k].sequence
             z == page[1].sequence
             c == cursor[p]
  <2>8. /\ x = z + (k + j - 1) - 1 /\ y = z + k - 1
        /\ z \in Nat /\ x \in Nat /\ y > c
        /\ new[j].sequence = x /\ new[1].sequence = y /\ c \in Nat
    BY <2>4, <2>5, <2>6, <2>7
  <2> HIDE DEF x, y, z, c
  <2>9. x = y + j - 1 /\ x > c
    BY <2>7, <2>8
  <2> QED
    BY <2>8, <2>9 DEF c
<1>7. ASSUME Len(new) > 0
      PROVE  \/ new[1].sequence = cursor[p] + 1
             \/ new[1].sequence - 1 + Capacity <= total
  <2>0. /\ k \in Nat /\ k >= 1 /\ Len(page) \in Nat /\ Len(new) = Len(page) - k + 1
        /\ 1 \in 1..Len(new)
    BY <1>1, <1>3, <1>5, <1>7
  <2>1. /\ k \in 1..Len(page) /\ 1 \in 1..Len(page) /\ page # <<>>
        /\ new[1] = page[k]
    <3>1. new[1] = page[k + 1 - 1] /\ k + 1 - 1 = k
      BY <1>5, <2>0
    <3>2. k \in 1..Len(page) /\ 1 \in 1..Len(page)
      BY <2>0, <1>7
    <3>3. page # <<>>
      BY <1>1, <3>2, EmptySeq
    <3> QED
      BY <3>1, <3>2, <3>3
  <2>2. CASE k > 1
    <3>1. /\ page[k - 1].sequence <= cursor[p]
          /\ page[k].sequence > cursor[p]
          /\ k - 1 \in 1..Len(page)
      BY <1>1, <1>3, <2>1, <2>2
    <3>2. /\ page[k - 1].sequence = page[1].sequence + (k - 1) - 1
          /\ page[k].sequence = page[1].sequence + k - 1
          /\ page[1].sequence \in Nat
      BY <1>2, <2>1, <3>1
    <3> QED
      BY <1>1, <2>1, <3>1, <3>2, SMTT(60)
  <2>3. CASE k = 1
    <3>1. after <= cursor[p]
      BY DEF TickShape
    <3>2. page[1].sequence > cursor[p] /\ page[1].sequence \in Nat
      BY <1>2, <1>3, <2>1, <2>3
    <3>3. \/ page[1].sequence = after + 1
          \/ page[1].sequence - 1 + Capacity <= total
      BY <2>1 DEF PageStart
    <3> QED
      BY <1>1, <2>1, <2>3, <3>1, <3>2, <3>3
  <2> QED
    BY <1>3, <2>2, <2>3
<1> QED
  BY <1>5, <1>6, <1>7 DEF new

-----------------------------------------------------------------------------
(* The invariant, step by step.                                            *)

LEMMA LaneInit == Init => LaneInv
<1> SUFFICES ASSUME Init
             PROVE  LaneInv
  OBVIOUS
<1>1. TypeOK
  BY LaneAssumption DEF Init, TypeOK, Record, Records
<1>2. Retained /\ PageRun /\ PageStart /\ TickShape
  BY DEF Init, Retained, PageRun, PageStart, TickShape
<1>3. Delivered /\ ExactAccounting /\ LostOnlyWhenLapped
  BY DEF Init, Delivered, ExactAccounting, LostOnlyWhenLapped
<1> QED
  BY <1>1, <1>2, <1>3 DEF LaneInv

\* A step that changes neither ring, tick nor plugins.
LEMMA QuietStep ==
  ASSUME LaneInv, TypeOK', UNCHANGED <<ringVars, hostVars, pluginVars>>
  PROVE  LaneInv'
<1> USE DEF ringVars, hostVars, pluginVars, LaneInv
<1>1. Retained' /\ PageRun'
  BY DEF Retained, PageRun, SlotOf
<1>2. PageStart' /\ TickShape'
  BY DEF PageStart, TickShape
<1>3. Delivered' /\ ExactAccounting'
  BY DEF Delivered, ExactAccounting
<1>4. LostOnlyWhenLapped'
  BY DEF LostOnlyWhenLapped
<1> QED
  BY <1>1, <1>2, <1>3, <1>4

\* Everything a producer does under the lock but Ring::push is quiet.
LEMMA ProducerTypes ==
  ASSUME TypeOK, NEW t \in Threads,
         Submit(t) \/ TryLock(t) \/ PublishEdge(t) \/ Unlock(t)
  PROVE  TypeOK' /\ UNCHANGED <<ringVars, hostVars, pluginVars>>
<1> USE DEF TypeOK, ringVars, hostVars, pluginVars
<1>1. CASE Submit(t)
  BY <1>1 DEF Submit, Goto
<1>2. CASE TryLock(t)
  <2>1. CASE lock = None
    <3>1. /\ lock' = t /\ Goto(t, "push") /\ UNCHANGED tevent
          /\ UNCHANGED <<ringVars, submitted, edge, hostVars, pluginVars>>
      BY <1>2, <2>1, Zenon DEF TryLock
    <3> QED
      BY <3>1 DEF Goto
  <2>2. CASE lock # None
    <3>1. /\ UNCHANGED lock /\ Return(t)
          /\ UNCHANGED <<ringVars, submitted, edge, hostVars, pluginVars>>
      BY <1>2, <2>2, Zenon DEF TryLock
    <3> QED
      BY <3>1 DEF Goto, Return
  <2> QED
    BY <2>1, <2>2
<1>3. CASE PublishEdge(t)
  BY <1>3 DEF PublishEdge, Goto
<1>4. CASE Unlock(t)
  BY <1>4 DEF Unlock, Goto, Return
<1> QED
  BY <1>1, <1>2, <1>3, <1>4

\* Ring::push overwrites the slot of the one event that is a lap older.
LEMMA PushStep ==
  ASSUME LaneInv, NEW t \in Threads, Push(t)
  PROVE  LaneInv'
<1> USE DEF LaneInv
<1>1. /\ total \in Nat /\ total' = total + 1 /\ accepted \in Seq(Nat)
      /\ Len(accepted) = total /\ tevent[t] \in Nat
      /\ accepted' = Append(accepted, tevent[t])
      /\ events \in [0..(Capacity - 1) -> Records]
      /\ events' = [events EXCEPT ![SlotOf(total + 1)] =
                      Record(total + 1, tevent[t])]
      /\ Capacity \in Nat \ {0}
      /\ UNCHANGED <<hostVars, pluginVars>>
  BY LaneAssumption DEF Push, TypeOK, Retained
<1>2. /\ accepted' \in Seq(Nat) /\ Len(accepted') = total + 1
      /\ \A n \in 1..total : accepted'[n] = accepted[n]
      /\ accepted'[total + 1] = tevent[t]
  BY <1>1
<1>3. TypeOK'
  <2>1. Record(total + 1, tevent[t]) \in Records
    BY <1>1 DEF Record, Records
  <2>2. events' \in [0..(Capacity - 1) -> Records]
    BY <1>1, <2>1
  <2> QED
    BY <1>1, <1>2, <2>2
      DEF TypeOK, Push, Goto, hostVars, pluginVars
<1>4. Retained'
  <2> SUFFICES ASSUME NEW n \in 1..(total + 1), n + Capacity > total + 1
               PROVE  events'[SlotOf(n)] = Record(n, accepted'[n])
    BY <1>1, <1>2 DEF Retained, SlotOf
  <2>1. SlotOf(n) \in 0..(Capacity - 1) /\ SlotOf(total + 1) \in 0..(Capacity - 1)
    BY <1>1, SlotInRing
  <2>2. CASE n = total + 1
    BY <1>1, <1>2, <2>1, <2>2
  <2>3. CASE n \in 1..total
    <3>1. n \in Nat \ {0} /\ total + 1 \in Nat \ {0}
          /\ n < total + 1 /\ total + 1 < n + Capacity
      BY <1>1, <2>3
    <3>2. SlotOf(n) # SlotOf(total + 1)
      BY <3>1, SlotsApart
    <3>3. events[SlotOf(n)] = Record(n, accepted[n])
      BY <1>1, <2>3, <3>1 DEF Retained
    <3> QED
      BY <1>1, <1>2, <2>1, <2>3, <3>2, <3>3
  <2> QED
    BY <1>1, <2>2, <2>3
<1>5. PageRun'
  <2>1. page' = page
    BY <1>1 DEF hostVars
  <2> QED
    BY <1>1, <1>2, <2>1 DEF PageRun
<1>6. PageStart' /\ TickShape'
  <2>1. page # <<>> => page[1].sequence \in Nat
    <3> SUFFICES ASSUME page # <<>>
                 PROVE  page[1].sequence \in Nat
      OBVIOUS
    <3>1. page \in Seq(Records)
      BY DEF TypeOK
    <3>2. 1 \in DOMAIN page
      BY <3>1, EmptySeq
    <3>3. page[1] \in Records
      BY <3>1, <3>2, ElementOfSeq
    <3> QED
      BY <3>3 DEF Records
  <2> QED
    BY <1>1, <2>1 DEF PageStart, TickShape, hostVars, pluginVars
<1>7. Delivered' /\ ExactAccounting'
  BY <1>1 DEF Delivered, ExactAccounting, pluginVars
<1>8. LostOnlyWhenLapped'
  <2> SUFFICES ASSUME NEW q \in Plugins, NEW n \in (start[q] + 1)..cursor[q]
               PROVE  \/ n + Capacity <= total + 1
                      \/ \E i \in DOMAIN got[q] : got[q][i] = n
    BY <1>1 DEF LostOnlyWhenLapped, pluginVars
  <2>1. n \in Nat
    BY DEF TypeOK
  <2>2. \/ n + Capacity <= total
        \/ \E i \in DOMAIN got[q] : got[q][i] = n
    BY DEF LostOnlyWhenLapped
  <2> QED
    BY <1>1, <2>1, <2>2
<1> QED
  BY <1>3, <1>4, <1>5, <1>6, <1>7, <1>8

\* exec_one: nothing was delivered or dropped before a plugin is loaded.
LEMMA LoadStep ==
  ASSUME LaneInv, NEW p \in Plugins, LoadPlugin(p)
  PROVE  LaneInv'
<1> USE DEF LaneInv
<1>1. TypeOK'
  BY DEF TypeOK, LoadPlugin, ringVars, producerVars, hostVars
<1>2. Retained' /\ PageRun' /\ PageStart'
  BY DEF Retained, PageRun, PageStart, SlotOf, LoadPlugin, ringVars, hostVars
<1>3. todo = {} /\ hpc = "idle"
  BY DEF TickShape, LoadPlugin
<1>4. TickShape'
  BY <1>3 DEF TickShape, LoadPlugin, hostVars
<1>5. got[p] = <<>> /\ dropped[p] = 0
  BY DEF Delivered, LoadPlugin
<1>6. Delivered'
  BY <1>5 DEF TypeOK, Delivered, LoadPlugin
<1>7. ExactAccounting'
  <2> SUFFICES ASSUME NEW q \in Plugins
               PROVE  /\ \A i \in 2..Len(got'[q]) : got'[q][i - 1] < got'[q][i]
                      /\ cursor'[q] = start'[q] + Len(got'[q]) + dropped'[q]
    BY DEF ExactAccounting
  <2>1. CASE q = p
    <3>1. got'[q] = <<>> /\ dropped'[q] = 0
      BY <1>5, <2>1 DEF LoadPlugin
    <3>2. cursor'[q] = edge /\ start'[q] = edge /\ edge \in Nat
      BY <2>1 DEF TypeOK, LoadPlugin
    <3> QED
      BY <3>1, <3>2
  <2>2. CASE q # p
    BY <2>2 DEF TypeOK, LoadPlugin, ExactAccounting
  <2> QED
    BY <2>1, <2>2
<1>8. LostOnlyWhenLapped'
  <2> SUFFICES ASSUME NEW q \in Plugins,
                      NEW n \in (start'[q] + 1)..cursor'[q]
               PROVE  \/ n + Capacity <= total'
                      \/ \E i \in DOMAIN got'[q] : got'[q][i] = n
    BY DEF LostOnlyWhenLapped
  <2>1. CASE q = p
    <3>1. cursor'[q] = edge /\ start'[q] = edge /\ edge \in Nat
      BY <2>1 DEF TypeOK, LoadPlugin
    <3> QED
      BY <3>1
  <2>2. CASE q # p
    BY <2>2 DEF TypeOK, LoadPlugin, LostOnlyWhenLapped, ringVars
  <2> QED
    BY <2>1, <2>2
<1> QED
  BY <1>1, <1>2, <1>4, <1>6, <1>7, <1>8

\* The tick outside of the page and the plugins.
LEMMA HostStepsQuiet ==
  ASSUME LaneInv,
         BeginTick \/ HostLock \/ HostBusy \/ HostUnlock \/ EndTick \/ CutShort
  PROVE  LaneInv'
<1> USE DEF LaneInv
<1>1. UNCHANGED <<ringVars, pluginVars>>
  BY DEF BeginTick, HostLock, HostBusy, HostUnlock, EndTick, CutShort
<1>2. Retained' /\ Delivered' /\ ExactAccounting' /\ LostOnlyWhenLapped'
  <2>1. Retained'
    BY <1>1 DEF Retained, SlotOf, ringVars
  <2>2. Delivered' /\ ExactAccounting'
    BY <1>1 DEF Delivered, ExactAccounting, pluginVars
  <2>3. LostOnlyWhenLapped'
    BY <1>1 DEF LostOnlyWhenLapped, ringVars, pluginVars
  <2> QED
    BY <2>1, <2>2, <2>3
<1>3. TypeOK' /\ page' \in {page, <<>>} /\ PageStart' /\ TickShape'
  <2> USE DEF ringVars, producerVars, pluginVars
  <2>1. CASE BeginTick
    <3>1. Running \subseteq Plugins
      BY DEF Running
    <3>2. PICK p \in Running : /\ \A q \in Running : cursor[p] <= cursor[q]
                               /\ after' = cursor[p]
      BY <2>1 DEF BeginTick
    <3>3. after' \in Nat
      BY <3>1, <3>2 DEF TypeOK
    <3>4. TypeOK'
      BY <2>1, <3>1, <3>3 DEF BeginTick, TypeOK
    <3>5. page = <<>> /\ page' = page
      BY <2>1 DEF BeginTick, TickShape
    <3>6. TickShape'
      BY <2>1, <3>2, <3>5 DEF BeginTick, TickShape, Running
    <3> QED
      BY <3>4, <3>5, <3>6 DEF PageStart
  <2>2. CASE HostLock
    BY <2>2 DEF HostLock, TypeOK, PageStart, TickShape
  <2>3. CASE HostBusy
    BY <2>3 DEF HostBusy, TypeOK, PageStart, TickShape
  <2>4. CASE HostUnlock
    BY <2>4 DEF HostUnlock, TypeOK, PageStart, TickShape
  <2>5. CASE EndTick
    BY <2>5 DEF EndTick, TypeOK, PageStart, TickShape
  <2>6. CASE CutShort
    BY <2>6 DEF CutShort, TypeOK, PageStart, TickShape
  <2> QED
    BY <2>1, <2>2, <2>3, <2>4, <2>5, <2>6
<1>4. PageRun'
  <2>1. CASE page' = page
    BY <1>1, <2>1 DEF PageRun, ringVars
  <2>2. CASE page' = <<>>
    BY <2>2 DEF PageRun
  <2> QED
    BY <1>3, <2>1, <2>2
<1> QED
  BY <1>2, <1>3, <1>4

\* Ring::page_into
LEMMA CopyStep ==
  ASSUME LaneInv, CopyPage
  PROVE  LaneInv'
<1> USE DEF LaneInv
<1>1. /\ page' = PageInto
      /\ UNCHANGED <<lock, ringVars, producerVars, after, todo, commands,
                     pluginVars>>
      /\ hpc' = "release"
  BY DEF CopyPage
<1>2. TypeOK'
  BY <1>1, PageCopied DEF TypeOK, ringVars, producerVars, pluginVars
<1>3. Retained'
  BY <1>1 DEF Retained, SlotOf, ringVars
<1>4. PageRun' /\ PageStart'
  BY <1>1, PageCopied DEF PageRun, PageStart, ringVars
<1>5. TickShape' /\ Delivered' /\ ExactAccounting'
  BY <1>1 DEF TickShape, CopyPage, Delivered, ExactAccounting, pluginVars
<1>6. LostOnlyWhenLapped'
  BY <1>1 DEF LostOnlyWhenLapped, ringVars, pluginVars
<1> QED
  BY <1>2, <1>3, <1>4, <1>5, <1>6

\* One plugin's share of a page, in plain terms: k records from sequence number
\* f on are delivered, and the f - cursor - 1 before them were lapped.
LEMMA DispatchShare ==
  ASSUME LaneInv, NEW p \in Plugins, Dispatch(p)
  PROVE  \E k \in Nat, f \in Nat :
           /\ p \in todo /\ todo' = todo \ {p}
           /\ pstate' \in [Plugins -> {"absent", "running", "error"}]
           /\ \A q \in Plugins : pstate'[q] = "absent" => pstate[q] = "absent"
           /\ f > cursor[p]
           /\ f = cursor[p] + 1 \/ f - 1 + Capacity <= total
           /\ k = 0 => f = cursor[p] + 1
           /\ cursor' = [cursor EXCEPT ![p] = f + k - 1]
           /\ got' = [got EXCEPT ![p] = @ \o [i \in 1..k |-> f + i - 1]]
           /\ dropped' = [dropped EXCEPT ![p] = @ + (f - cursor[p] - 1)]
           /\ UNCHANGED <<lock, ringVars, producerVars, hpc, after, page,
                          commands, start>>
<1> DEFINE new == Unseen(p)
<1>1. /\ p \in todo /\ todo' = todo \ {p}
      /\ dropped' = [dropped EXCEPT ![p] = @ + Missed(p, new)]
      /\ UNCHANGED <<lock, ringVars, producerVars, hpc, after, page,
                     commands, start>>
      /\ \E k \in 0..Len(new) :
           /\ \/ k = Len(new) /\ UNCHANGED pstate
              \/ k > 0 /\ pstate' = [pstate EXCEPT ![p] = "error"]
           /\ cursor' = [cursor EXCEPT ![p] =
                           IF k = 0 THEN @ ELSE new[k].sequence]
           /\ got' = [got EXCEPT ![p] =
                        @ \o [i \in 1..k |-> new[i].sequence]]
  BY Zenon DEF Dispatch
<1>2. PICK k \in 0..Len(new) :
           /\ \/ k = Len(new) /\ UNCHANGED pstate
              \/ k > 0 /\ pstate' = [pstate EXCEPT ![p] = "error"]
           /\ cursor' = [cursor EXCEPT ![p] =
                           IF k = 0 THEN @ ELSE new[k].sequence]
           /\ got' = [got EXCEPT ![p] =
                        @ \o [i \in 1..k |-> new[i].sequence]]
  BY <1>1
<1>3. /\ new \in Seq(Records)
      /\ \A j \in 1..Len(new) : /\ new[j].sequence \in Nat
                                /\ new[j].sequence = new[1].sequence + j - 1
                                /\ new[j].sequence > cursor[p]
      /\ Len(new) > 0 => \/ new[1].sequence = cursor[p] + 1
                         \/ new[1].sequence - 1 + Capacity <= total
  BY <1>1, UnseenRun DEF LaneInv
<1>4. /\ cursor \in [Plugins -> Nat] /\ cursor[p] \in Nat
      /\ dropped \in [Plugins -> Nat] /\ total \in Nat
      /\ pstate \in [Plugins -> {"absent", "running", "error"}]
      /\ got \in [Plugins -> Seq(Nat)]
  BY DEF LaneInv, TypeOK
<1>5. /\ pstate' \in [Plugins -> {"absent", "running", "error"}]
      /\ \A q \in Plugins : pstate'[q] = "absent" => pstate[q] = "absent"
  BY <1>2, <1>4
<1> HIDE DEF new
<1>6. Len(new) \in Nat /\ k \in Nat
  BY <1>2, <1>3, LenProperties
<1>7. CASE k = 0
  <2>1. Len(new) = 0
    BY <1>2, <1>6, <1>7
  <2>2. new = <<>>
    BY <1>3, <2>1, EmptySeq
  <2>3. Missed(p, new) = 0
    BY <2>2 DEF Missed
  <2> DEFINE f == cursor[p] + 1
  <2>4. f \in Nat /\ f > cursor[p] /\ f + 0 - 1 = cursor[p] /\ f - cursor[p] - 1 = 0
    BY <1>4
  <2>5. cursor' = [cursor EXCEPT ![p] = f + 0 - 1]
    BY <1>2, <1>4, <1>7, <2>4
  <2>6. got' = [got EXCEPT ![p] = @ \o [i \in 1..0 |-> f + i - 1]]
    <3>1. [i \in 1..0 |-> new[i].sequence] = [i \in 1..0 |-> f + i - 1]
      OBVIOUS
    <3> QED
      BY <1>2, <1>7, <3>1
  <2>7. dropped' = [dropped EXCEPT ![p] = @ + (f - cursor[p] - 1)]
    BY <1>1, <2>3, <2>4
  <2>8. 0 \in Nat /\ f = cursor[p] + 1
    OBVIOUS
  <2> HIDE DEF f
  <2> QED
    BY <1>1, <1>5, <2>4, <2>5, <2>6, <2>7, <2>8, ZenonT(60)
<1>8. CASE k # 0
  <2> DEFINE f == new[1].sequence
  <2>1. k \in 1..Len(new) /\ 1 \in 1..Len(new) /\ Len(new) > 0
    BY <1>2, <1>6, <1>8
  <2>2. /\ f \in Nat /\ f > cursor[p]
        /\ f = cursor[p] + 1 \/ f - 1 + Capacity <= total
        /\ new[k].sequence = f + k - 1
    BY <1>3, <2>1
  <2>3. new # <<>>
    BY <2>1
  <2>4. Missed(p, new) = f - cursor[p] - 1
    BY <2>3 DEF Missed
  <2>5. cursor' = [cursor EXCEPT ![p] = f + k - 1]
    BY <1>2, <1>4, <1>8, <2>2
  <2>6. got' = [got EXCEPT ![p] = @ \o [i \in 1..k |-> f + i - 1]]
    <3>1. \A i \in 1..k : new[i].sequence = f + i - 1
      BY <1>3, <1>6, <2>1
    <3>2. [i \in 1..k |-> new[i].sequence] = [i \in 1..k |-> f + i - 1]
      BY <3>1
    <3> QED
      BY <1>2, <3>2
  <2>7. dropped' = [dropped EXCEPT ![p] = @ + (f - cursor[p] - 1)]
    BY <1>1, <2>4
  <2> HIDE DEF f
  <2> QED
    BY <1>1, <1>5, <1>6, <1>8, <2>2, <2>5, <2>6, <2>7, Zenon
<1> QED
  BY <1>7, <1>8

\* Increasing numbers up to c.
Rising(s, c) ==
  /\ \A i \in DOMAIN s : s[i] <= c
  /\ \A i \in 2..Len(s) : s[i - 1] < s[i]

\* s and then the k numbers from f on.
Extended(s, f, k) == s \o [i \in 1..k |-> f + i - 1]

\* Appending a run past c to increasing numbers up to c.
LEMMA RunAppended ==
  ASSUME NEW s \in Seq(Nat), NEW c \in Nat, NEW f \in Nat, NEW k \in Nat,
         f > c, Rising(s, c)
  PROVE  /\ Extended(s, f, k) \in Seq(Nat)
         /\ Len(Extended(s, f, k)) = Len(s) + k
         /\ \A i \in DOMAIN s : /\ i \in DOMAIN Extended(s, f, k)
                                /\ Extended(s, f, k)[i] = s[i]
         /\ Rising(Extended(s, f, k), f + k - 1)
         /\ \A n \in f..(f + k - 1) : \E i \in DOMAIN Extended(s, f, k) :
                                        Extended(s, f, k)[i] = n
<1> DEFINE run == [i \in 1..k |-> f + i - 1]
           g == Len(s)
           r == Extended(s, f, k)
<1>1. /\ run \in Seq(Nat) /\ Len(run) = k
      /\ \A i \in 1..k : run[i] = f + i - 1
  OBVIOUS
<1>2. g \in Nat /\ DOMAIN s = 1..g
  BY LenProperties
<1>3. r = s \o run
  BY DEF Extended
<1> HIDE DEF run, g, r
<1>4. /\ r \in Seq(Nat) /\ Len(r) = g + k /\ DOMAIN r = 1..(g + k)
      /\ \A i \in 1..(g + k) : r[i] = IF i <= g THEN s[i] ELSE run[i - g]
  <2>1. r \in Seq(Nat)
    BY <1>1, <1>3
  <2>2. Len(r) = g + k
    BY <1>1, <1>3, ConcatProperties DEF g
  <2>3. \A i \in 1..(g + k) : r[i] = IF i <= g THEN s[i] ELSE run[i - g]
    BY <1>1, <1>3 DEF g
  <2> QED
    BY <2>1, <2>2, <2>3, LenProperties
<1>5. \A i \in 1..g : i \in 1..(g + k) /\ r[i] = s[i] /\ s[i] \in Nat
  BY <1>2, <1>4
<1>6. \A i \in 1..(g + k) : i > g => r[i] = f + (i - g) - 1
  <2> SUFFICES ASSUME NEW i \in 1..(g + k), i > g
               PROVE  r[i] = f + (i - g) - 1
    OBVIOUS
  <2>1. i - g \in 1..k /\ ~(i <= g)
    BY <1>2
  <2>2. r[i] = run[i - g]
    BY <1>4, <2>1
  <2> QED
    BY <1>1, <2>1, <2>2
<1>7. ASSUME NEW i \in 1..(g + k)
      PROVE  r[i] <= f + k - 1
  <2>1. CASE i <= g
    <3>1. i \in 1..g
      BY <1>2, <2>1
    <3>2. r[i] = s[i] /\ s[i] \in Nat /\ s[i] <= c
      BY <1>2, <1>5, <3>1 DEF Rising
    <3> QED
      BY <3>2
  <2>2. CASE i > g
    BY <1>2, <1>6, <2>2
  <2> QED
    BY <1>2, <2>1, <2>2
<1>8. ASSUME NEW i \in 2..(g + k)
      PROVE  r[i - 1] < r[i]
  <2>1. i \in 1..(g + k) /\ i - 1 \in 1..(g + k) /\ i \in Int
    BY <1>2
  <2>2. CASE i <= g
    <3>1. i \in 2..g /\ i \in 1..g /\ i - 1 \in 1..g
      BY <1>2, <2>1, <2>2
    <3>2. r[i] = s[i] /\ r[i - 1] = s[i - 1]
      BY <1>5, <3>1
    <3> QED
      BY <3>1, <3>2 DEF g, Rising
  <2>3. CASE i = g + 1
    <3>1. i - 1 \in 1..g
      BY <1>2, <2>1, <2>3
    <3>2. r[i - 1] = s[i - 1] /\ s[i - 1] \in Nat /\ s[i - 1] <= c
      BY <1>2, <1>5, <3>1 DEF Rising
    <3>3. r[i] = f + (i - g) - 1
      BY <1>2, <1>6, <2>1, <2>3
    <3>4. r[i] = f
      BY <1>2, <2>3, <3>3
    <3> QED
      BY <3>2, <3>4
  <2>4. CASE i > g + 1
    <3>1. r[i] = f + (i - g) - 1
      BY <1>2, <1>6, <2>1, <2>4
    <3>2. r[i - 1] = f + ((i - 1) - g) - 1
      <4>1. i - 1 > g
        BY <1>2, <2>1, <2>4
      <4> QED
        BY <1>6, <2>1, <4>1
    <3> QED
      BY <1>2, <2>1, <3>1, <3>2
  <2> QED
    BY <1>2, <2>1, <2>2, <2>3, <2>4
<1>9. ASSUME NEW n \in f..(f + k - 1)
      PROVE  \E i \in 1..(g + k) : r[i] = n
  <2> DEFINE j == g + (n - f + 1)
  <2>1. j \in 1..(g + k) /\ j > g /\ j - g = n - f + 1 /\ n \in Int
    BY <1>2
  <2> HIDE DEF j
  <2>2. r[j] = f + (j - g) - 1
    BY <1>6, <2>1
  <2>3. r[j] = n
    BY <2>1, <2>2
  <2> QED
    BY <2>1, <2>3
<1> QED
  BY <1>2, <1>4, <1>5, <1>7, <1>8, <1>9 DEF g, r, Rising

\* dispatch_one keeps the plugin's books.
LEMMA DispatchStep ==
  ASSUME LaneInv, NEW p \in Plugins, Dispatch(p)
  PROVE  LaneInv'
<1> USE DEF LaneInv
<1>1. PICK k \in Nat, f \in Nat :
           /\ p \in todo /\ todo' = todo \ {p}
           /\ pstate' \in [Plugins -> {"absent", "running", "error"}]
           /\ \A q \in Plugins : pstate'[q] = "absent" => pstate[q] = "absent"
           /\ f > cursor[p]
           /\ f = cursor[p] + 1 \/ f - 1 + Capacity <= total
           /\ k = 0 => f = cursor[p] + 1
           /\ cursor' = [cursor EXCEPT ![p] = f + k - 1]
           /\ got' = [got EXCEPT ![p] = @ \o [i \in 1..k |-> f + i - 1]]
           /\ dropped' = [dropped EXCEPT ![p] = @ + (f - cursor[p] - 1)]
           /\ UNCHANGED <<lock, ringVars, producerVars, hpc, after, page,
                          commands, start>>
  BY DispatchShare
<1>2. /\ cursor \in [Plugins -> Nat] /\ cursor[p] \in Nat
      /\ dropped \in [Plugins -> Nat] /\ dropped[p] \in Nat
      /\ start \in [Plugins -> Nat] /\ start[p] \in Nat
      /\ got \in [Plugins -> Seq(Nat)] /\ got[p] \in Seq(Nat)
      /\ Len(got[p]) \in Nat
      /\ total \in Nat /\ Capacity \in Nat \ {0}
  BY LaneAssumption, LenProperties DEF TypeOK
<1>3. /\ got'[p] = got[p] \o [i \in 1..k |-> f + i - 1]
      /\ cursor'[p] = f + k - 1 /\ f + k - 1 \in Nat
      /\ dropped'[p] = dropped[p] + (f - cursor[p] - 1)
      /\ dropped'[p] \in Nat
      /\ start' = start
      /\ \A q \in Plugins : q # p => /\ got'[q] = got[q]
                                     /\ cursor'[q] = cursor[q]
                                     /\ dropped'[q] = dropped[q]
  BY <1>1, <1>2, SMTT(60)
<1>4. /\ \A i \in DOMAIN got[p] : got[p][i] <= cursor[p]
      /\ \A i \in 2..Len(got[p]) : got[p][i - 1] < got[p][i]
      /\ cursor[p] = start[p] + Len(got[p]) + dropped[p]
  BY DEF Delivered, ExactAccounting
<1>5. /\ got'[p] \in Seq(Nat)
      /\ Len(got'[p]) = Len(got[p]) + k
      /\ \A i \in DOMAIN got[p] : i \in DOMAIN got'[p] /\ got'[p][i] = got[p][i]
      /\ \A i \in DOMAIN got'[p] : got'[p][i] <= f + k - 1
      /\ \A i \in 2..Len(got'[p]) : got'[p][i - 1] < got'[p][i]
      /\ \A n \in f..(f + k - 1) : \E i \in DOMAIN got'[p] : got'[p][i] = n
  <2> DEFINE s == got[p]
             c == cursor[p]
             r == got'[p]
  <2>1. /\ s \in Seq(Nat) /\ c \in Nat /\ f > c
        /\ Rising(s, c)
        /\ r = Extended(s, f, k)
    BY <1>1, <1>2, <1>3, <1>4 DEF Rising, Extended
  <2> HIDE DEF s, c, r
  <2>2. /\ r \in Seq(Nat)
        /\ Len(r) = Len(s) + k
        /\ \A i \in DOMAIN s : i \in DOMAIN r /\ r[i] = s[i]
        /\ Rising(r, f + k - 1)
        /\ \A n \in f..(f + k - 1) : \E i \in DOMAIN r : r[i] = n
    <3>1. /\ Extended(s, f, k) \in Seq(Nat)
          /\ Len(Extended(s, f, k)) = Len(s) + k
          /\ \A i \in DOMAIN s : /\ i \in DOMAIN Extended(s, f, k)
                                 /\ Extended(s, f, k)[i] = s[i]
          /\ Rising(Extended(s, f, k), f + k - 1)
          /\ \A n \in f..(f + k - 1) : \E i \in DOMAIN Extended(s, f, k) :
                                         Extended(s, f, k)[i] = n
      BY <2>1, RunAppended, ZenonT(60)
    <3> QED
      BY <2>1, <3>1
  <2> QED
    BY <2>2 DEF r, s, Rising
<1>6. TypeOK'
  <2>1. /\ cursor' \in [Plugins -> Nat] /\ dropped' \in [Plugins -> Nat]
    BY <1>1, <1>2, <1>3
  <2>2. got' \in [Plugins -> Seq(Nat)]
    BY <1>1, <1>2, <1>3, <1>5
  <2> QED
    BY <1>1, <2>1, <2>2 DEF TypeOK, ringVars, producerVars
<1>7. Retained' /\ PageRun' /\ PageStart'
  BY <1>1 DEF Retained, PageRun, PageStart, SlotOf, ringVars
<1>8. TickShape'
  BY <1>1, <1>3 DEF TickShape, TypeOK
<1>9. Delivered'
  <2>1. pstate'[p] # "absent"
    BY <1>1 DEF TickShape
  <2> SUFFICES ASSUME NEW q \in Plugins
               PROVE  /\ \A i \in DOMAIN got'[q] : got'[q][i] <= cursor'[q]
                      /\ pstate'[q] = "absent" =>
                           got'[q] = <<>> /\ dropped'[q] = 0
    BY DEF Delivered
  <2>2. CASE q = p
    BY <1>3, <1>5, <2>1, <2>2
  <2>3. CASE q # p
    <3>1. /\ got'[q] = got[q] /\ cursor'[q] = cursor[q]
          /\ dropped'[q] = dropped[q]
      BY <1>3, <2>3
    <3>2. pstate'[q] = "absent" => pstate[q] = "absent"
      BY <1>1
    <3> QED
      BY <3>1, <3>2 DEF Delivered
  <2> QED
    BY <2>2, <2>3
<1>10. ExactAccounting'
  <2> DEFINE c == cursor[p]
             g == Len(got[p])
             d == dropped[p]
             b == start[p]
  <2>1. c \in Nat /\ g \in Nat /\ d \in Nat /\ b \in Nat /\ c = b + g + d
    BY <1>2, <1>4
  <2>2. /\ cursor'[p] = f + k - 1 /\ start'[p] = b /\ Len(got'[p]) = g + k
        /\ dropped'[p] = d + (f - c - 1)
    BY <1>3, <1>5
  <2> HIDE DEF c, g, d, b
  <2>3. f + k - 1 = b + (g + k) + (d + (f - c - 1))
    BY <2>1
  <2>4. cursor'[p] = start'[p] + Len(got'[p]) + dropped'[p]
    BY <2>2, <2>3
  <2> QED
    BY <1>3, <1>5, <2>4 DEF ExactAccounting
<1>11. LostOnlyWhenLapped'
  <2> SUFFICES ASSUME NEW q \in Plugins,
                      NEW n \in (start'[q] + 1)..cursor'[q]
               PROVE  \/ n + Capacity <= total'
                      \/ \E i \in DOMAIN got'[q] : got'[q][i] = n
    BY DEF LostOnlyWhenLapped
  <2>1. total' = total
    BY <1>1 DEF ringVars
  <2>2. CASE q # p
    BY <1>3, <2>1, <2>2 DEF LostOnlyWhenLapped
  <2>3. CASE q = p
    <3> DEFINE c == cursor[p]
               b == start[p]
    <3>1. /\ n \in (b + 1)..(f + k - 1) /\ c \in Nat /\ b \in Nat
          /\ f = c + 1 \/ f - 1 + Capacity <= total
      BY <1>1, <1>2, <1>3, <2>3
    <3>2. CASE n <= c
      <4>1. n \in (start[p] + 1)..cursor[p]
        BY <3>1, <3>2
      <4>2. \/ n + Capacity <= total
            \/ \E i \in DOMAIN got[p] : got[p][i] = n
        BY <4>1 DEF LostOnlyWhenLapped
      <4> QED
        BY <1>5, <2>1, <2>3, <4>2
    <3> HIDE DEF c, b
    <3>3. n \in Nat
      BY <3>1
    <3>4. CASE n > c /\ n < f
      <4>1. n + Capacity <= total
        BY <1>2, <3>1, <3>3, <3>4
      <4> QED
        BY <2>1, <4>1
    <3>5. CASE n >= f
      <4>1. n \in f..(f + k - 1)
        BY <3>1, <3>5
      <4> QED
        BY <1>5, <2>3, <4>1
    <3> QED
      BY <3>1, <3>2, <3>3, <3>4, <3>5
  <2> QED
    BY <2>2, <2>3
<1> QED
  BY <1>6, <1>7, <1>8, <1>9, <1>10, <1>11

LEMMA LaneStep == LaneInv /\ [Next]_vars => LaneInv'
<1> SUFFICES ASSUME LaneInv, [Next]_vars
             PROVE  LaneInv'
  OBVIOUS
<1>1. ASSUME NEW t \in Threads,
             Submit(t) \/ TryLock(t) \/ PublishEdge(t) \/ Unlock(t)
      PROVE  LaneInv'
  <2>1. TypeOK' /\ UNCHANGED <<ringVars, hostVars, pluginVars>>
    BY <1>1, ProducerTypes DEF LaneInv
  <2> QED
    BY <2>1, QuietStep
<1>2. CASE UNCHANGED vars
  <2>1. TypeOK'
    BY <1>2 DEF vars, ringVars, producerVars, hostVars, pluginVars,
                LaneInv, TypeOK
  <2>2. UNCHANGED <<ringVars, hostVars, pluginVars>>
    BY <1>2 DEF vars
  <2> QED
    BY <2>1, <2>2, QuietStep
<1> QED
  BY <1>1, <1>2, PushStep, LoadStep, HostStepsQuiet, CopyStep, DispatchStep
    DEF Next, Producer, HostStep

-----------------------------------------------------------------------------
(* The theorems.                                                           *)

LEMMA LaneInvariant == Spec => []LaneInv
  BY LaneInit, LaneStep, PTL DEF Spec

\* The variables of the lane, its producers, the host's tick and the plugins
\* keep their types.
THEOREM LaneTypes == Spec => []TypeOK
  BY LaneInvariant, PTL DEF LaneInv

\* Whatever the producers store between two ticks and however often they lap
\* the ring, the page the host copies is a run of the stored events, each under
\* its own sequence number.
THEOREM PagesFaithful == Spec => []PageIsFaithful
<1>1. LaneInv => PageIsFaithful
  <2> SUFFICES ASSUME LaneInv, NEW i \in DOMAIN page
               PROVE  /\ page[i].event = accepted[page[i].sequence]
                      /\ i > 1 => page[i].sequence = page[i - 1].sequence + 1
    BY DEF PageIsFaithful
  <2>1. /\ page \in Seq(Records) /\ DOMAIN page = 1..Len(page)
        /\ Len(page) \in Nat
    BY LenProperties DEF LaneInv, TypeOK
  <2>2. ASSUME i > 1
        PROVE  page[i].sequence = page[i - 1].sequence + 1
    <3> DEFINE x == page[1].sequence
    <3>1. i - 1 \in DOMAIN page /\ 1 \in DOMAIN page
      BY <2>1, <2>2
    <3>2. /\ page[i].sequence = x + i - 1
          /\ page[i - 1].sequence = x + (i - 1) - 1
          /\ x \in 1..total /\ total \in Nat
      BY <3>1 DEF LaneInv, PageRun, TypeOK
    <3> HIDE DEF x
    <3> QED
      BY <2>1, <3>2
  <2> QED
    BY <2>2 DEF LaneInv, PageRun
<1> QED
  BY <1>1, LaneInvariant, PTL

\* Every plugin is given each event at most once and in order, and its dropped
\* counter is exactly what it missed, however ticks are cut short and whichever
\* callback raises.
THEOREM AccountingExact == Spec => []ExactAccounting
  BY LaneInvariant, PTL DEF LaneInv

\* Between the cursor a plugin was loaded with and the one it has, an event it
\* was not given was already lapped by Capacity newer ones.
THEOREM LossesLapped == Spec => []LostOnlyWhenLapped
  BY LaneInvariant, PTL DEF LaneInv

LEMMA LockStep == LaneInv /\ LockOwned /\ [Next]_vars => LockOwned'
<1> SUFFICES ASSUME LaneInv, LockOwned, [Next]_vars
             PROVE  LockOwned'
  OBVIOUS
<1> USE DEF LockOwned
<1>1. /\ None \notin Threads /\ Host \notin Threads /\ Host # None
      /\ tpc \in [Threads -> {"out", "try", "push", "publish", "unlock"}]
  BY LaneAssumption DEF LaneInv, TypeOK
<1>2. ASSUME NEW t \in Threads, Submit(t) \/ Push(t) \/ PublishEdge(t)
      PROVE  LockOwned'
  <2>1. /\ UNCHANGED <<lock, hpc>>
        /\ \/ tpc[t] = "out" /\ tpc' = [tpc EXCEPT ![t] = "try"]
           \/ tpc[t] = "push" /\ tpc' = [tpc EXCEPT ![t] = "publish"]
           \/ tpc[t] = "publish" /\ tpc' = [tpc EXCEPT ![t] = "unlock"]
    BY <1>2 DEF Submit, Push, PublishEdge, Goto, hostVars
  <2> QED
    BY <1>1, <2>1
<1>3. ASSUME NEW t \in Threads, TryLock(t)
      PROVE  LockOwned'
  <2>1. /\ UNCHANGED hpc /\ tpc[t] = "try"
        /\ \/ /\ lock = None /\ lock' = t
              /\ tpc' = [tpc EXCEPT ![t] = "push"]
           \/ lock' = lock /\ tpc' = [tpc EXCEPT ![t] = "out"]
    BY <1>3 DEF TryLock, Goto, Return, hostVars
  <2> QED
    BY <1>1, <2>1
<1>4. ASSUME NEW t \in Threads, Unlock(t)
      PROVE  LockOwned'
  <2>1. /\ UNCHANGED hpc /\ tpc[t] = "unlock" /\ lock' = None
        /\ tpc' = [tpc EXCEPT ![t] = "out"]
    BY <1>4 DEF Unlock, Goto, Return, hostVars
  <2> QED
    BY <1>1, <2>1
<1>5. ASSUME HostLock \/ CopyPage \/ HostUnlock
      PROVE  LockOwned'
  <2>1. /\ UNCHANGED tpc
        /\ \/ /\ hpc = "spin" /\ lock = None
              /\ lock' = Host /\ hpc' = "copy"
           \/ hpc = "copy" /\ hpc' = "release" /\ lock' = lock
           \/ hpc = "release" /\ hpc' = "dispatch" /\ lock' = None
    BY <1>5 DEF HostLock, CopyPage, HostUnlock, producerVars
  <2> QED
    BY <1>1, <2>1
<1>6. ASSUME \/ BeginTick \/ HostBusy \/ EndTick \/ CutShort
             \/ \E p \in Plugins : Dispatch(p) \/ LoadPlugin(p)
             \/ UNCHANGED vars
      PROVE  LockOwned'
  <2>1. /\ UNCHANGED <<tpc, lock>>
        /\ hpc' # hpc => /\ hpc \notin {"copy", "release"}
                         /\ hpc' \notin {"copy", "release"}
    BY <1>6 DEF BeginTick, HostBusy, EndTick, CutShort, Dispatch, LoadPlugin,
                producerVars, hostVars, vars
  <2> QED
    BY <1>1, <2>1
<1> QED
  BY <1>2, <1>3, <1>4, <1>5, <1>6 DEF Next, Producer, HostStep

\* Between try_lock and unlock one party at a time is at work on the ring,
\* which is what lets Ring::push and Ring::page_into be single steps here.
THEOREM RingExclusive == Spec => []LockOwned
<1>1. Init => LockOwned
  BY LaneAssumption DEF Init, LockOwned
<1> QED
  BY <1>1, LaneInvariant, LockStep, PTL DEF Spec
=============================================================================
