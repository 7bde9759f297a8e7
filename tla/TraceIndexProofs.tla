--------------------------- MODULE TraceIndexProofs ---------------------------
(***************************************************************************)
(* Proofs about the recorder and the index of its files, for any number of *)
(* threads and hub connections, any capacity of the slab and any workload: *)
(* the trace file is, number by number, what the threads reserved, its     *)
(* frames of registers decode, and the database next to it is one version  *)
(* of the file, whole.                                                     *)
(***************************************************************************)
EXTENDS TraceIndex, FiniteSetTheorems, SequenceTheorems, TLAPS

(***************************************************************************)
(* The inductive invariant                                                 *)
(***************************************************************************)

\* What the workloads can put into an event.
Payload(x) ==
  x.values \union [mask : SUBSET x.registers, context : x.contexts]
  \union {<<r, c[r]>> : r \in x.registers, c \in x.contexts}
Payloads == UNION {Payload(x) : x \in Workloads}

\* The events that are submitted, and the others a file may hold.
Captures == [kind : {"exec", "header", "part"}, thread : Threads, address : {1, 2},
             value : Payloads, frame : Nat]
Events == Captures \union {Marker("scope", 2)}
FileEvents ==
  Events \union {RepeatOf(e) : e \in Events} \union {Marker("start", 0)}
  \union {Marker("stop", n) : n \in Nat}
Records == [seq : Nat, event : FileEvents, count : Nat]

LoadOK ==
  /\ DOMAIN load = {"threads", "sessions", "events", "values", "frames", "registers", "contexts",
                    "faults", "adds", "readers"}
  /\ \E x \in Workloads :
       load.threads = x.threads /\ load.values = x.values
       /\ load.registers = x.registers /\ load.contexts = x.contexts

ProducerOK(p) ==
  /\ DOMAIN producer[p] = {"pc", "todo", "slot", "complete", "context"}
  /\ producer[p].todo \in Seq(Events)
  /\ producer[p].pc # "idle" => producer[p].todo # <<>>
  /\ producer[p].slot \in Nat

SlotOK(i) ==
  /\ DOMAIN slab[i] = {"tag", "event"}
  /\ slab[i].tag \in Nat
  /\ slab[i].tag # 0 => slab[i].event \in Events

RecOK ==
  /\ DOMAIN rec = {"armed", "done", "failed", "claim", "drained", "dropped", "written", "inflight"}
  /\ rec.claim \in Nat /\ rec.written \in Nat
  /\ rec.done \in BOOLEAN /\ rec.failed \in BOOLEAN

DrainOK ==
  /\ DOMAIN drain = {"pc", "next", "pending", "repeats", "broken"}
  /\ drain.next \in Nat /\ drain.repeats \in Nat /\ drain.broken \in BOOLEAN
  /\ drain.pending # <<>> =>
       /\ Head(drain.pending) \in Records
       /\ Head(drain.pending).event \in Events /\ Head(drain.pending).seq > 0

ProducersOK == DOMAIN producer = Producers /\ \A p \in Producers : ProducerOK(p)
SlabOK == DOMAIN slab = 0..(Capacity - 1) /\ \A i \in DOMAIN slab : SlotOK(i)
CountsOK == frame \in Nat /\ sessions \in Nat
FilesOK == file \in Seq(Records) /\ log \in Seq(Events)

\* The types.
RecTypes == LoadOK /\ CountsOK /\ ProducersOK /\ SlabOK /\ RecOK /\ DrainOK /\ FilesOK

\* Every record of rs says what the log l says, up to number m ...
Original(rs, i) == IF rs[i].event.kind = "repeat" THEN rs[i - 1].event ELSE rs[i].event
Faithful(rs, l, m) ==
  \A i \in DOMAIN rs :
    /\ rs[i].event.kind = "repeat" => i # 1
    /\ \A n \in Nat \ {0} : Carries(rs[i], n) => n <= m /\ Original(rs, i) = l[n]

\* ... and none is missing ...
Covered(rs, m) == \A n \in 1..m : \E i \in DOMAIN rs : Carries(rs[i], n)

\* ... in rising order.
Rises(rs) == \A i, j \in DOMAIN rs : i < j => rs[i].seq < rs[j].seq
Below(rs, m) == \A i \in DOMAIN rs : rs[i].seq <= m

Tells(rs, l, m, failed) ==
  Faithful(rs, l, m) /\ Rises(rs) /\ Below(rs, m) /\ (failed \/ Covered(rs, m))

\* The run that is held back follows what is written.
Holding(first, repeats, next, failed, rs, l) ==
  /\ Tells(rs, l, first.seq - 1, failed)
  /\ first.seq + repeats <= next /\ (failed \/ first.seq + repeats = next)
  /\ \A n \in first.seq..(first.seq + repeats) : l[n] = first.event

\* The slab holds what was reserved.
SlabClean ==
  /\ rec.claim = Len(log)
  /\ \A p \in Producers :
       producer[p].pc = "publish" =>
         producer[p].slot < Len(log) /\ log[producer[p].slot + 1] = Head(producer[p].todo)
  /\ \A i \in DOMAIN slab :
       slab[i].tag # 0 => slab[i].tag <= Len(log) /\ slab[i].event = log[slab[i].tag]

\* The file, as far as the drain thread is.
FileClean ==
  /\ drain.next <= Len(log)
  /\ drain.pc \in {"slot", "gap"} => drain.next < Len(log)
  /\ drain.pc = "header" => drain.pending = <<>> /\ drain.next = 0
  /\ Rises(file) /\ Below(file, drain.next)
  /\ ~drain.broken =>
       IF drain.pending = <<>> \/ drain.pc = "close" THEN Tells(file, log, drain.next, rec.failed)
       ELSE Holding(Head(drain.pending), drain.repeats, drain.next, rec.failed, file, log)

\* Which is only there between a start and an end.
Draining ==
  /\ ~rec.done
  /\ drain.pc = "abort" => rec.failed
  /\ drain.pc = "broken" => drain.broken
  /\ drain.broken => drain.pc = "broken" \/ (drain.pc = "close" /\ rec.failed)
  /\ rec.failed \/ rec.written = drain.next
  /\ FileClean

Starting == drain.pc = "off" /\ ~rec.done /\ rec.written = 0 /\ file = <<>>

Ended ==
  /\ file # <<>> /\ Last(file).event = Marker("stop", rec.written)
  /\ Faithful(file, log, rec.written) /\ Covered(file, rec.written) /\ rec.written <= Len(log)

SessionClean ==
  /\ Rises(file)
  /\ drain.pc # "off" => Draining
  /\ control \in {"arm", "spawn"} => Starting
  /\ control = "unspawn" => rec.failed /\ drain.pc = "off" /\ ~rec.done
  /\ rec.done /\ ~rec.failed /\ sessions > 0 => Ended

RecorderInv == RecTypes /\ (clean => SlabClean /\ SessionClean)

(***************************************************************************)
(* Events and records                                                      *)
(***************************************************************************)

\* A submitted event is numbered, and its repeat is a repeat.
LEMMA EventKinds ==
  ASSUME NEW e \in Events
  PROVE  /\ e.kind # "repeat" /\ (e.kind # "marker" \/ e.value[1] = "scope")
         /\ RepeatOf(e).kind = "repeat"
<1>1. CASE e \in Captures
  BY <1>1 DEF Captures, RepeatOf
<1>2. CASE e = Marker("scope", 2)
  BY <1>2 DEF Marker, RepeatOf
<1> QED
  BY <1>1, <1>2 DEF Events

\* Which numbers a record stands for.
LEMMA NumberedCarries ==
  ASSUME NEW e \in Events, NEW r, r.event = e, NEW n
  PROVE  Carries(r, n) <=> r.seq = n
  BY EventKinds DEF Carries

LEMMA RepeatCarries ==
  ASSUME NEW e \in Events, NEW r, r.event = RepeatOf(e), NEW n
  PROVE  Carries(r, n) <=> r.seq - r.count < n /\ n <= r.seq
  BY EventKinds DEF Carries

LEMMA MarkerCarries ==
  ASSUME NEW tag \in {"start", "stop"}, NEW k, NEW r, r.event = Marker(tag, k), NEW n
  PROVE  ~Carries(r, n) /\ r.event.kind # "repeat"
  BY DEF Carries, Marker

\* A file that tells the log up to m expands to its first m events.
LEMMA TellsHolds ==
  ASSUME log \in Seq(Events), NEW rs, NEW m \in Nat, m <= Len(log),
         Faithful(rs, log, m), rec.failed \/ Covered(rs, m)
  PROVE  Holds(Expanded(rs), m)
<1> DEFINE at(n) == CHOOSE i \in DOMAIN rs : Carries(rs[i], n)
           dom == {k \in 1..Len(log) : \E i \in DOMAIN rs : Carries(rs[i], k)}
           f == Expanded(rs)
<1>0. Len(log) \in Nat
  BY LenProperties
<1>1. f = [n \in dom |-> Original(rs, at(n))]
  BY DEF Expanded, Original
<1>2. ASSUME NEW k \in dom
      PROVE  k <= m /\ f[k] = log[k]
  <2>1. at(k) \in DOMAIN rs /\ Carries(rs[at(k)], k)
    OBVIOUS
  <2>2. k \in Nat \ {0}
    BY <1>0
  <2>3. k <= m /\ Original(rs, at(k)) = log[k]
    BY <2>1, <2>2 DEF Faithful
  <2>4. f[k] = Original(rs, at(k))
    BY <1>1
  <2> QED
    BY <2>3, <2>4
<1>3. DOMAIN f = dom
  BY <1>1
<1>4. dom \subseteq 1..m
  BY <1>0, <1>2
<1>5. Covered(rs, m) => 1..m \subseteq dom
  BY <1>0 DEF Covered
<1> HIDE DEF f, dom
<1>6. \A k \in DOMAIN f : f[k].kind = log[k].kind /\ f[k] = log[k]
  BY <1>2, <1>3
<1>7. DOMAIN f \subseteq 1..m /\ (rec.failed \/ DOMAIN f = 1..m)
  BY <1>3, <1>4, <1>5
<1>8. Holds(f, m)
  BY <1>6, <1>7 DEF Holds
<1> QED
  BY <1>8 DEF f

\* It still does when the log has grown, and when it says it failed.
LEMMA FaithfulGrows ==
  ASSUME NEW l \in Seq(Events), NEW e \in Events, NEW rs, NEW m \in Nat, m <= Len(l), Faithful(rs, l, m)
  PROVE  Faithful(rs, Append(l, e), m)
<1>1. Len(l) \in Nat
  BY LenProperties
<1>2. \A n \in 1..m : Append(l, e)[n] = l[n]
  BY <1>1, AppendProperties
<1> QED
  BY <1>1, <1>2 DEF Faithful

LEMMA TellsGrows ==
  ASSUME NEW l \in Seq(Events), NEW e \in Events, NEW rs, NEW m \in Nat, m <= Len(l),
         NEW failed, Tells(rs, l, m, failed)
  PROVE  Tells(rs, Append(l, e), m, failed)
  BY FaithfulGrows DEF Tells

LEMMA HoldingGrows ==
  ASSUME NEW l \in Seq(Events), NEW e \in Events, NEW rs, NEW first \in Records, first.seq > 0,
         NEW repeats \in Nat, NEW next \in Nat, next <= Len(l), NEW failed,
         Holding(first, repeats, next, failed, rs, l)
  PROVE  Holding(first, repeats, next, failed, rs, Append(l, e))
<1>1. Len(l) \in Nat
  BY LenProperties
<1>2. first.seq \in Nat
  BY DEF Records
<1>3. first.seq + repeats <= next /\ Tells(rs, l, first.seq - 1, failed)
  BY DEF Holding
<1>4. Tells(rs, Append(l, e), first.seq - 1, failed)
  BY <1>1, <1>2, <1>3, TellsGrows
<1>5. \A n \in first.seq..(first.seq + repeats) : n \in 1..Len(l)
  BY <1>1, <1>2, <1>3
<1>6. \A n \in 1..Len(l) : Append(l, e)[n] = l[n]
  BY <1>1, AppendProperties
<1> QED
  BY <1>4, <1>5, <1>6 DEF Holding

LEMMA TellsUp ==
  ASSUME NEW rs \in Seq(Records), NEW l, NEW m \in Nat, NEW n \in Nat, m <= n,
         NEW failed \in BOOLEAN, failed \/ m = n, Tells(rs, l, m, failed)
  PROVE  Tells(rs, l, n, failed)
<1>1. \A i \in DOMAIN rs : rs[i].seq \in Nat
  <2> TAKE i \in DOMAIN rs
  <2>1. rs[i] \in Records
    BY ElementOfSeq, LenProperties
  <2> QED
    BY <2>1 DEF Records
<1>2. Faithful(rs, l, n)
  BY DEF Tells, Faithful
<1>3. Below(rs, n)
  BY <1>1 DEF Tells, Below
<1>4. failed \/ Covered(rs, n)
  BY DEF Tells
<1> QED
  BY <1>2, <1>3, <1>4 DEF Tells

\* A number is given up.
LEMMA TellsFails ==
  ASSUME NEW rs \in Seq(Records), NEW l, NEW m \in Nat, NEW failed, Tells(rs, l, m, failed)
  PROVE  Tells(rs, l, m + 1, TRUE)
<1>1. \A i \in DOMAIN rs : rs[i].seq \in Nat
  <2> TAKE i \in DOMAIN rs
  <2>1. rs[i] \in Records
    BY ElementOfSeq, LenProperties
  <2> QED
    BY <2>1 DEF Records
<1>2. Faithful(rs, l, m + 1)
  BY DEF Tells, Faithful
<1>3. Below(rs, m + 1)
  BY <1>1 DEF Tells, Below
<1> QED
  BY <1>2, <1>3 DEF Tells

\* One more record, in rising order: of a number, of repeats, or of none.
LEMMA OneMore ==
  ASSUME NEW rs \in Seq(Records), NEW r \in Records, NEW m \in Nat, Rises(rs), Below(rs, m), r.seq > m
  PROVE  /\ Append(rs, r) \in Seq(Records)
         /\ DOMAIN Append(rs, r) = (DOMAIN rs) \union {Len(rs) + 1}
         /\ \A i \in DOMAIN rs : Append(rs, r)[i] = rs[i]
         /\ Append(rs, r)[Len(rs) + 1] = r
         /\ Rises(Append(rs, r)) /\ Below(Append(rs, r), r.seq)
<1> DEFINE new == Append(rs, r)
<1>1. /\ new \in Seq(Records) /\ Len(new) = Len(rs) + 1 /\ Len(rs) \in Nat
      /\ \A i \in 1..Len(rs) : new[i] = rs[i]
      /\ new[Len(rs) + 1] = r
  BY AppendProperties, LenProperties
<1>2. DOMAIN rs = 1..Len(rs) /\ DOMAIN new = 1..(Len(rs) + 1)
  BY <1>1, LenProperties
<1>3. DOMAIN new = (DOMAIN rs) \union {Len(rs) + 1}
  BY <1>1, <1>2
<1>4. r.seq \in Nat /\ \A i \in DOMAIN rs : rs[i].seq \in Nat
  <2>1. \A i \in DOMAIN rs : rs[i] \in Records
    BY ElementOfSeq, <1>2
  <2> QED
    BY <2>1 DEF Records
<1> HIDE DEF new
<1>5. \A i \in DOMAIN rs : new[i] = rs[i] /\ new[i].seq < r.seq
  BY <1>1, <1>2, <1>4 DEF Below
<1>6. Below(new, r.seq)
  BY <1>1, <1>3, <1>4, <1>5 DEF Below
<1>7. Rises(new)
  <2> SUFFICES ASSUME NEW i \in DOMAIN new, NEW j \in DOMAIN new, i < j
               PROVE  new[i].seq < new[j].seq
    BY DEF Rises
  <2>1. i \in DOMAIN rs
    BY <1>1, <1>2
  <2>2. CASE j \in DOMAIN rs
    BY <2>1, <2>2, <1>5 DEF Rises
  <2>3. CASE j = Len(rs) + 1
    BY <2>1, <2>3, <1>1, <1>5
  <2> QED
    BY <2>2, <2>3, <1>3
<1> QED
  BY <1>1, <1>3, <1>5, <1>6, <1>7 DEF new

\* What the other records stand for does not change.
LEMMA OldRecords ==
  ASSUME NEW rs \in Seq(Records), NEW new, NEW l, NEW m, Faithful(rs, l, m), NEW i \in DOMAIN rs,
         \A k \in DOMAIN rs : new[k] = rs[k]
  PROVE  /\ new[i].event.kind = "repeat" => i # 1
         /\ \A n \in Nat \ {0} : Carries(new[i], n) => n <= m /\ Original(new, i) = l[n]
<1>1. rs[i].event.kind = "repeat" => i # 1
  BY DEF Faithful
<1>2. DOMAIN rs = 1..Len(rs) /\ Len(rs) \in Nat
  BY LenProperties
<1>3. i # 1 => i - 1 \in DOMAIN rs
  BY <1>2
<1>4. Original(new, i) = Original(rs, i)
  BY <1>1, <1>3 DEF Original
<1> QED
  BY <1>1, <1>4 DEF Faithful

LEMMA NumberedTold ==
  ASSUME NEW rs \in Seq(Records), NEW r \in Records, r.event \in Events, r.seq > 0,
         NEW l, NEW failed \in BOOLEAN, Tells(rs, l, r.seq - 1, failed), l[r.seq] = r.event
  PROVE  Append(rs, r) \in Seq(Records) /\ Tells(Append(rs, r), l, r.seq, failed)
<1> DEFINE new == Append(rs, r)
<1>0. r.seq \in Nat /\ r.seq - 1 \in Nat /\ r.seq > r.seq - 1
  BY DEF Records
<1>1. /\ new \in Seq(Records)
      /\ DOMAIN new = (DOMAIN rs) \union {Len(rs) + 1}
      /\ \A i \in DOMAIN rs : new[i] = rs[i]
      /\ new[Len(rs) + 1] = r
      /\ Rises(new) /\ Below(new, r.seq)
  BY <1>0, OneMore DEF Tells
<1> HIDE DEF new
<1>2. \A n : Carries(r, n) <=> r.seq = n
  BY NumberedCarries
<1>3. Faithful(new, l, r.seq)
  <2> SUFFICES ASSUME NEW i \in DOMAIN new
               PROVE  /\ new[i].event.kind = "repeat" => i # 1
                      /\ \A n \in Nat \ {0} : Carries(new[i], n) => n <= r.seq /\ Original(new, i) = l[n]
    BY DEF Faithful
  <2>1. CASE i \in DOMAIN rs
    <3>1. Faithful(rs, l, r.seq - 1)
      BY DEF Tells
    <3>2. /\ new[i].event.kind = "repeat" => i # 1
          /\ \A n \in Nat \ {0} : Carries(new[i], n) => n <= r.seq - 1 /\ Original(new, i) = l[n]
      BY <2>1, <3>1, <1>1, OldRecords
    <3> QED
      BY <3>2, <1>0
  <2>2. CASE i = Len(rs) + 1
    <3>1. new[i] = r /\ r.event.kind # "repeat"
      BY <2>2, <1>1, EventKinds
    <3>2. Original(new, i) = r.event
      BY <3>1 DEF Original
    <3> QED
      BY <3>1, <3>2, <1>0, <1>2
  <2> QED
    BY <2>1, <2>2, <1>1
<1>4. Covered(rs, r.seq - 1) => Covered(new, r.seq)
  <2> SUFFICES ASSUME Covered(rs, r.seq - 1), NEW n \in 1..r.seq
               PROVE  \E i \in DOMAIN new : Carries(new[i], n)
    BY DEF Covered
  <2>1. CASE n \in 1..(r.seq - 1)
    BY <2>1, <1>1 DEF Covered
  <2>2. CASE n = r.seq
    BY <2>2, <1>1, <1>2
  <2> QED
    BY <2>1, <2>2, <1>0
<1>5. Tells(new, l, r.seq, failed)
  BY <1>1, <1>3, <1>4 DEF Tells
<1> QED
  BY <1>1, <1>5 DEF new

LEMMA RepeatTold ==
  ASSUME NEW rs \in Seq(Records), rs # <<>>, NEW first \in Records, rs[Len(rs)] = first,
         first.event \in Events, NEW k \in Nat, k > 0,
         NEW l, NEW failed \in BOOLEAN, Tells(rs, l, first.seq, failed),
         \A n \in first.seq..(first.seq + k) : l[n] = first.event
  PROVE  LET new == Append(rs, Written(first.seq + k, RepeatOf(first.event), k))
         IN  new \in Seq(Records) /\ Tells(new, l, first.seq + k, failed)
<1> DEFINE r == Written(first.seq + k, RepeatOf(first.event), k)
           new == Append(rs, r)
<1>a. r \in Records /\ r.event = RepeatOf(first.event) /\ r.seq = first.seq + k /\ r.count = k
  <2>1. RepeatOf(first.event) \in FileEvents
    BY DEF FileEvents
  <2>2. first.seq + k \in Nat
    BY DEF Records
  <2> QED
    BY <2>1, <2>2 DEF Written, Records
<1> HIDE DEF r
<1>0. first.seq \in Nat /\ r.seq \in Nat /\ r.seq > first.seq /\ Len(rs) \in Nat /\ Len(rs) \in DOMAIN rs
  <2>1. first.seq \in Nat /\ r.seq \in Nat
    BY <1>a DEF Records
  <2>2. Len(rs) \in Nat /\ Len(rs) # 0 /\ DOMAIN rs = 1..Len(rs)
    BY EmptySeq, LenProperties
  <2>3. \A n \in Nat : n # 0 => n \in 1..n
    OBVIOUS
  <2>4. \A a, b \in Nat : b = a + k => b > a
    OBVIOUS
  <2> QED
    BY <2>1, <2>2, <2>3, <2>4, <1>a
<1>1. /\ new \in Seq(Records)
      /\ DOMAIN new = (DOMAIN rs) \union {Len(rs) + 1}
      /\ \A i \in DOMAIN rs : new[i] = rs[i]
      /\ new[Len(rs) + 1] = r
      /\ Rises(new) /\ Below(new, r.seq)
  BY <1>0, <1>a, OneMore DEF Tells
<1> HIDE DEF new
<1>2. \A n : Carries(r, n) <=> r.seq - r.count < n /\ n <= r.seq
  BY <1>a, RepeatCarries
<1>3. \A n \in Int : Carries(r, n) <=> first.seq < n /\ n <= first.seq + k
  BY <1>0, <1>2, <1>a
<1>4. Faithful(new, l, first.seq + k)
  <2> SUFFICES ASSUME NEW i \in DOMAIN new
               PROVE  /\ new[i].event.kind = "repeat" => i # 1
                      /\ \A n \in Nat \ {0} : Carries(new[i], n) => n <= first.seq + k /\ Original(new, i) = l[n]
    BY DEF Faithful
  <2>1. CASE i \in DOMAIN rs
    <3>1. Faithful(rs, l, first.seq)
      BY DEF Tells
    <3>2. /\ new[i].event.kind = "repeat" => i # 1
          /\ \A n \in Nat \ {0} : Carries(new[i], n) => n <= first.seq /\ Original(new, i) = l[n]
      BY <2>1, <3>1, <1>1, OldRecords
    <3> QED
      BY <3>2, <1>0
  <2>2. CASE i = Len(rs) + 1
    <3>1. new[i] = r /\ r.event.kind = "repeat" /\ new[Len(rs)] = first
      BY <2>2, <1>0, <1>1, <1>a, EventKinds
    <3>2. i - 1 = Len(rs) /\ i # 1
      BY <2>2, <1>0, LenProperties, EmptySeq
    <3>3. Original(new, i) = first.event
      BY <3>1, <3>2 DEF Original
    <3>4. \A n \in Nat : first.seq < n /\ n <= first.seq + k => l[n] = first.event
      BY <1>0
    <3> QED
      BY <3>1, <3>2, <3>3, <3>4, <1>3
  <2> QED
    BY <2>1, <2>2, <1>1
<1>5. Covered(rs, first.seq) => Covered(new, first.seq + k)
  <2> SUFFICES ASSUME Covered(rs, first.seq), NEW n \in 1..(first.seq + k)
               PROVE  \E i \in DOMAIN new : Carries(new[i], n)
    BY DEF Covered
  <2>1. CASE n \in 1..first.seq
    BY <2>1, <1>1 DEF Covered
  <2>2. CASE first.seq < n
    BY <2>2, <1>0, <1>1, <1>3
  <2> QED
    BY <2>1, <2>2, <1>0
<1>6. Tells(new, l, first.seq + k, failed)
  BY <1>1, <1>4, <1>5, <1>a DEF Tells
<1> QED
  BY <1>1, <1>6 DEF new, r

\* flush_run writes the run that was held back.
LEMMA RunTold ==
  ASSUME NEW rs \in Seq(Records), NEW first \in Records, first.event \in Events, first.seq > 0,
         NEW repeats \in Nat, NEW next \in Nat, NEW l, NEW failed \in BOOLEAN,
         Holding(first, repeats, next, failed, rs, l)
  PROVE  rs \o Run(first, repeats) \in Seq(Records) /\ Tells(rs \o Run(first, repeats), l, next, failed)
<1> DEFINE r == Written(first.seq + repeats, RepeatOf(first.event), repeats)
           one == Append(rs, first)
           last == first.seq + repeats
<1>1. first.seq \in Nat /\ last \in Nat /\ first.seq \in first.seq..last
  BY DEF Records
<1>2. Tells(rs, l, first.seq - 1, failed) /\ l[first.seq] = first.event
  BY <1>1 DEF Holding
<1>3. one \in Seq(Records) /\ Tells(one, l, first.seq, failed)
  BY <1>2, NumberedTold
<1>4. r \in Records /\ r.event = RepeatOf(first.event) /\ r.seq = last /\ r.count = repeats
  <2>1. RepeatOf(first.event) \in FileEvents
    BY DEF FileEvents
  <2> QED
    BY <1>1, <2>1 DEF Written, Records
<1>5. one = rs \o <<first>>
  BY AppendIsConcat
<1>6. one # <<>> /\ one[Len(one)] = first
  BY AppendProperties, LenProperties
<1>7. last <= next /\ (failed \/ last = next) /\ \A n \in first.seq..last : l[n] = first.event
  BY DEF Holding
<1> HIDE DEF one, r, last
<1>8. CASE repeats = 0
  <2>1. Run(first, repeats) = <<first>> \o <<>>
    BY <1>8 DEF Run
  <2>2. <<first>> \in Seq(Records)
    OBVIOUS
  <2>3. Run(first, repeats) = <<first>>
    BY <2>1, <2>2, ConcatEmptySeq
  <2>4. last = first.seq
    BY <1>1, <1>8 DEF last
  <2>5. Tells(one, l, next, failed)
    BY <2>4, <1>1, <1>3, <1>7, TellsUp
  <2> QED
    BY <2>3, <2>5, <1>3, <1>5
<1>9. CASE repeats > 0
  <2>1. Run(first, repeats) = <<first>> \o <<r>>
    BY <1>9 DEF Run, r
  <2>2. <<first>> \in Seq(Records) /\ <<r>> \in Seq(Records)
    BY <1>4
  <2>3. rs \o Run(first, repeats) = one \o <<r>>
    BY <2>1, <2>2, <1>5, ConcatAssociative
  <2>4. Append(one, r) = one \o <<r>>
    BY <1>3, <1>4, AppendIsConcat
  <2>5. Append(one, r) \in Seq(Records) /\ Tells(Append(one, r), l, first.seq + repeats, failed)
    <3>1. \A n \in first.seq..(first.seq + repeats) : l[n] = first.event
      BY <1>7 DEF last
    <3> QED
      BY <3>1, <1>3, <1>6, <1>9, RepeatTold DEF r
  <2>6. Tells(Append(one, r), l, next, failed)
    BY <2>5, <1>1, <1>7, TellsUp DEF last
  <2> QED
    BY <2>3, <2>4, <2>5, <2>6
<1> QED
  BY <1>8, <1>9

\* The session's own markers stand for no event.
LEMMA MarkerTold ==
  ASSUME NEW rs \in Seq(Records), NEW l, NEW m \in Nat, NEW s \in Nat, s > m, Rises(rs), Below(rs, m),
         NEW tag \in {"start", "stop"}, NEW k \in Nat, tag = "start" => k = 0
  PROVE  LET new == Append(rs, Written(s, Marker(tag, k), 0))
         IN  /\ new \in Seq(Records) /\ new # <<>> /\ Last(new).event = Marker(tag, k)
             /\ Rises(new) /\ Below(new, s)
             /\ Faithful(rs, l, m) => Faithful(new, l, m)
             /\ Covered(rs, m) => Covered(new, m)
<1> DEFINE r == Written(s, Marker(tag, k), 0)
           new == Append(rs, r)
<1>0. r \in Records /\ r.seq = s /\ r.event = Marker(tag, k)
  <2>1. Marker(tag, k) \in FileEvents
    BY DEF FileEvents
  <2> QED
    BY <2>1 DEF Written, Records
<1> HIDE DEF r
<1>1. /\ new \in Seq(Records)
      /\ DOMAIN new = (DOMAIN rs) \union {Len(rs) + 1}
      /\ \A i \in DOMAIN rs : new[i] = rs[i]
      /\ new[Len(rs) + 1] = r
      /\ Rises(new) /\ Below(new, s)
  BY <1>0, OneMore
<1>2. new # <<>> /\ Last(new) = r
  BY <1>0, <1>1, AppendProperties DEF Last
<1> HIDE DEF new
<1>3. r.event.kind # "repeat" /\ \A n : ~Carries(r, n)
  BY <1>0, MarkerCarries
<1>4. Faithful(rs, l, m) => Faithful(new, l, m)
  <2> SUFFICES ASSUME Faithful(rs, l, m), NEW i \in DOMAIN new
               PROVE  /\ new[i].event.kind = "repeat" => i # 1
                      /\ \A n \in Nat \ {0} : Carries(new[i], n) => n <= m /\ Original(new, i) = l[n]
    BY DEF Faithful
  <2>1. CASE i \in DOMAIN rs
    BY <2>1, <1>1, OldRecords
  <2>2. CASE i = Len(rs) + 1
    BY <2>2, <1>1, <1>3
  <2> QED
    BY <2>1, <2>2, <1>1
<1>5. Covered(rs, m) => Covered(new, m)
  BY <1>1 DEF Covered
<1> QED
  BY <1>0, <1>1, <1>2, <1>4, <1>5 DEF new, r

(***************************************************************************)
(* Types                                                                   *)
(***************************************************************************)

\* The events of one workload are events.
LEMMA CaptureTypes ==
  ASSUME LoadOK, NEW p \in load.threads, NEW n \in Nat
  PROVE  /\ p \in Producers
         /\ \A a \in {1, 2}, v \in load.values : Exec(p, a, v) \in Events
         /\ \A mask \in SUBSET load.registers, c \in load.contexts : Header(p, n, mask, c) \in Events
         /\ \A r \in load.registers, c \in load.contexts : Part(p, n, r, c[r]) \in Events
<1>1. PICK x \in Workloads :
        load.threads = x.threads /\ load.values = x.values
        /\ load.registers = x.registers /\ load.contexts = x.contexts
  BY DEF LoadOK
<1>2. p \in Threads
  BY <1>1, RecorderAssumption
<1>3. Payload(x) \subseteq Payloads
  BY DEF Payloads
<1>4. \A v \in load.values : v \in Payloads
  BY <1>1, <1>3 DEF Payload
<1>5. \A mask \in SUBSET load.registers, c \in load.contexts :
        [mask |-> mask, context |-> c] \in Payloads
  BY <1>1, <1>3 DEF Payload
<1>6. \A r \in load.registers, c \in load.contexts : <<r, c[r]>> \in Payloads
  BY <1>1, <1>3 DEF Payload
<1>7. \A a \in {1, 2}, v \in load.values : Exec(p, a, v) \in Captures
  BY <1>2, <1>4 DEF Exec, Captures
<1>8. \A mask \in SUBSET load.registers, c \in load.contexts : Header(p, n, mask, c) \in Captures
  BY <1>2, <1>5 DEF Header, Captures
<1>9. \A r \in load.registers, c \in load.contexts : Part(p, n, r, c[r]) \in Captures
  BY <1>2, <1>6 DEF Part, Captures
<1> QED
  BY <1>2, <1>7, <1>8, <1>9 DEF Events, Producers

\* A finite set in some order, each element once.
LEMMA SetToSeqOnce ==
  ASSUME NEW S, IsFiniteSet(S)
  PROVE  LET s == SetToSeq(S)
         IN  /\ s \in Seq(S) /\ \A j, k \in DOMAIN s : s[j] = s[k] => j = k
             /\ \A x \in S : \E k \in DOMAIN s : s[k] = x
<1> DEFINE n == Cardinality(S)
           s == SetToSeq(S)
<1>1. n \in Nat /\ ExistsBijection(1..n, S)
  BY FS_CardinalityType
<1>2. PICK f \in [1..n -> S] : IsInjective(f)
  BY <1>1 DEF ExistsBijection, Bijection, Injection, IsInjective
<1>3. s \in [1..n -> S] /\ IsInjective(s)
  BY <1>2 DEF SetToSeq
<1>4. s \in Injection(1..n, S)
  BY <1>3 DEF Injection, IsInjective
<1>5. Cardinality(1..n) = n
  BY <1>1, FS_Interval
<1> HIDE DEF s, n
<1>6. s \in Surjection(1..n, S)
  BY <1>4, <1>5, FS_Injection DEF n
<1>7. DOMAIN s = 1..n
  BY <1>3
<1>8. \A x \in S : \E k \in DOMAIN s : s[k] = x
  BY <1>6, <1>7 DEF Surjection
<1>9. s \in Seq(S)
  BY <1>1, <1>3, IsASeq
<1>10. \A j, k \in DOMAIN s : s[j] = s[k] => j = k
  BY <1>3 DEF IsInjective
<1> QED
  BY <1>8, <1>9, <1>10 DEF s

LEMMA InsideTyped ==
  ASSUME ProducersOK, NEW p \in Producers, NEW fields, Inside(p, fields),
         DOMAIN fields = {"pc", "todo", "slot", "complete", "context"},
         fields.todo \in Seq(Events), fields.pc # "idle" => fields.todo # <<>>, fields.slot \in Nat
  PROVE  /\ ProducersOK'
         /\ producer'[p] = fields /\ \A q \in Producers : q # p => producer'[q] = producer[q]
<1>1. DOMAIN producer' = Producers /\ producer'[p] = fields
      /\ \A q \in Producers : q # p => producer'[q] = producer[q]
  BY DEF ProducersOK, Inside
<1>2. ASSUME NEW q \in Producers
      PROVE  ProducerOK(q)'
  <2>1. CASE q = p
    BY <2>1, <1>1 DEF ProducerOK
  <2>2. CASE q # p
    BY <2>2, <1>1 DEF ProducerOK, ProducersOK
  <2> QED
    BY <2>1, <2>2
<1> QED
  BY <1>1, <1>2 DEF ProducersOK

\* One event of an instruction.
LEMMA CaptureTyped ==
  ASSUME RecTypes, NEW p \in load.threads, Capture(p)
  PROVE  RecTypes' /\ \E fields : Inside(p, fields) /\ fields.pc = "enter" /\ p \in Producers
<1>1. PICK a \in {1, 2}, v \in load.values :
        Inside(p, [Idle EXCEPT !.pc = "enter", !.todo = <<Exec(p, a, v)>>])
  BY DEF Capture
<1> DEFINE fields == [Idle EXCEPT !.pc = "enter", !.todo = <<Exec(p, a, v)>>]
<1>2. Exec(p, a, v) \in Events /\ p \in Producers
  BY CaptureTypes, 0 \in Nat DEF RecTypes
<1>3. <<Exec(p, a, v)>> \in Seq(Events) /\ <<Exec(p, a, v)>> # <<>>
  BY <1>2
<1>4. DOMAIN fields = {"pc", "todo", "slot", "complete", "context"}
      /\ fields.pc = "enter" /\ fields.todo = <<Exec(p, a, v)>> /\ fields.slot = 0
  BY DEF Idle
<1> HIDE DEF fields
<1>5. Inside(p, fields)
  BY <1>1 DEF fields
<1>6. ProducersOK'
  <2>1. fields.todo \in Seq(Events) /\ fields.todo # <<>> /\ fields.slot \in Nat
    BY <1>3, <1>4
  <2>2. ProducersOK
    BY DEF RecTypes
  <2> QED
    BY <1>2, <1>4, <1>5, <2>1, <2>2, InsideTyped
<1>7. LoadOK'
  BY DEF Capture, RecTypes, LoadOK
<1> QED
  BY <1>2, <1>4, <1>5, <1>6, <1>7
     DEF Capture, OnlyProducer, RecTypes, CountsOK, SlabOK, SlotOK, RecOK, DrainOK, FilesOK

\* One frame of registers.
LEMMA CaptureContextTyped ==
  ASSUME RecTypes, NEW p \in load.threads, CaptureContext(p)
  PROVE  RecTypes' /\ \E fields : Inside(p, fields) /\ fields.pc = "enter" /\ p \in Producers
<1> DEFINE mask(c) == IF Baseline(p) THEN load.registers ELSE {r \in load.registers : cache[p][r] # c[r]}
           parts(c) == SetToSeq(mask(c))
           head(c) == <<Header(p, frame + 1, mask(c), c)>>
           rest(c) == [i \in DOMAIN parts(c) |-> Part(p, frame + 1, parts(c)[i], c[parts(c)[i]])]
           fields(c) == [Idle EXCEPT !.pc = "enter", !.context = c, !.todo = head(c) \o rest(c)]
<1>1. PICK c \in load.contexts : Inside(p, fields(c))
  BY DEF CaptureContext
<1>2. mask(c) \subseteq load.registers /\ IsFiniteSet(load.registers)
  BY RecorderAssumption DEF RecTypes, LoadOK
<1>3. IsFiniteSet(mask(c))
  BY <1>2, FS_Subset
<1>4. parts(c) \in Seq(mask(c))
  BY <1>3, SetToSeqOnce
<1>5. frame + 1 \in Nat /\ LoadOK
  BY DEF RecTypes, CountsOK
<1> HIDE DEF mask
<1>6. /\ p \in Producers
      /\ Header(p, frame + 1, mask(c), c) \in Events
      /\ \A r \in load.registers : Part(p, frame + 1, r, c[r]) \in Events
  BY <1>2, <1>5, CaptureTypes
<1>7. rest(c) \in Seq(Events)
  <2> HIDE DEF parts
  <2>1. DOMAIN parts(c) = 1..Len(parts(c)) /\ Len(parts(c)) \in Nat
    BY <1>4, LenProperties
  <2>2. \A i \in DOMAIN parts(c) : parts(c)[i] \in load.registers
    BY <1>2, <1>4, <2>1, ElementOfSeq
  <2>3. rest(c) \in [1..Len(parts(c)) -> Events]
    BY <1>6, <2>1, <2>2
  <2> HIDE DEF rest
  <2> QED
    BY <2>1, <2>3, IsASeq
<1> HIDE DEF rest, parts
<1>8. head(c) \in Seq(Events) /\ Len(head(c)) = 1
  BY <1>6
<1> HIDE DEF head
<1>9. head(c) \o rest(c) \in Seq(Events) /\ head(c) \o rest(c) # <<>>
  <2>1. head(c) # <<>>
    BY <1>8, EmptySeq, SMTT(60)
  <2> QED
    BY <1>7, <1>8, <2>1, ConcatProperties, ConcatEqualIffEmpty
<1>10. DOMAIN fields(c) = {"pc", "todo", "slot", "complete", "context"}
       /\ fields(c).pc = "enter" /\ fields(c).todo = head(c) \o rest(c) /\ fields(c).slot = 0
  BY DEF Idle
<1> HIDE DEF fields
<1>11. ProducersOK'
  <2>1. fields(c).todo \in Seq(Events) /\ fields(c).todo # <<>> /\ fields(c).slot \in Nat
    BY <1>9, <1>10
  <2>2. ProducersOK
    BY DEF RecTypes
  <2> QED
    BY <1>1, <1>6, <1>10, <2>1, <2>2, InsideTyped
<1>12. LoadOK'
  BY DEF CaptureContext, RecTypes, LoadOK
<1> QED
  BY <1>1, <1>5, <1>6, <1>10, <1>11, <1>12
     DEF CaptureContext, OnlyProducer, RecTypes, CountsOK, SlabOK, SlotOK, RecOK, DrainOK, FilesOK

\* A thread inside submit goes on with the same event.
LEMMA SameEvent ==
  ASSUME ProducersOK, NEW p \in Producers, producer[p].pc # "idle", NEW fields, Inside(p, fields),
         DOMAIN fields = DOMAIN producer[p], fields.todo = producer[p].todo, fields.slot \in Nat
  PROVE  /\ ProducersOK'
         /\ producer'[p] = fields /\ \A q \in Producers : q # p => producer'[q] = producer[q]
<1>1. DOMAIN fields = {"pc", "todo", "slot", "complete", "context"}
      /\ fields.todo \in Seq(Events) /\ fields.todo # <<>>
  BY DEF ProducersOK, ProducerOK
<1> QED
  BY <1>1, InsideTyped

\* A step of submit moves one thread; only a reservation leads to "publish".
LEMMA SubmitInside ==
  ASSUME ProducersOK, RecOK, NEW p \in Producers, Submits(p)
  PROVE  /\ ProducersOK'
         /\ \A q \in Producers : q # p => producer'[q] = producer[q]
         /\ ~Reserve(p) => producer'[p].pc # "publish"
<1>1. DOMAIN producer[p] = {"pc", "todo", "slot", "complete", "context"}
      /\ producer[p].todo \in Seq(Events) /\ producer[p].slot \in Nat
      /\ (producer[p].pc # "idle" => producer[p].todo # <<>>)
  BY DEF ProducersOK, ProducerOK
<1>2. ASSUME Enter(p) \/ Recheck(p)
      PROVE  ProducersOK' /\ (\A q \in Producers : q # p => producer'[q] = producer[q])
             /\ producer'[p].pc # "publish"
  <2> DEFINE moved == IF producer[p].pc = "enter"
                      THEN IF rec.armed THEN [producer[p] EXCEPT !.pc = "count"]
                           ELSE [producer[p] EXCEPT !.pc = "next", !.complete = FALSE]
                      ELSE IF rec.armed THEN [producer[p] EXCEPT !.pc = "reserve"]
                           ELSE [producer[p] EXCEPT !.pc = "leave", !.complete = FALSE]
  <2>1. Inside(p, moved) /\ producer[p].pc # "idle"
    BY <1>2 DEF Enter, Recheck
  <2>2. DOMAIN moved = DOMAIN producer[p] /\ moved.todo = producer[p].todo
        /\ moved.slot \in Nat /\ moved.pc # "publish"
    BY <1>1
  <2> HIDE DEF moved
  <2> QED
    BY <2>1, <2>2, SameEvent
<1>3. ASSUME NEW pc \in {"recheck", "leave", "next"}, producer[p].pc # "idle",
             Inside(p, [producer[p] EXCEPT !.pc = pc])
      PROVE  ProducersOK' /\ (\A q \in Producers : q # p => producer'[q] = producer[q])
             /\ producer'[p].pc # "publish"
  <2> DEFINE moved == [producer[p] EXCEPT !.pc = pc]
  <2>1. Inside(p, moved)
    BY <1>3
  <2>2. DOMAIN moved = DOMAIN producer[p] /\ moved.todo = producer[p].todo
        /\ moved.slot \in Nat /\ moved.pc # "publish"
    BY <1>1, <1>3
  <2> HIDE DEF moved
  <2> QED
    BY <2>1, <2>2, <1>3, SameEvent
<1>4. ASSUME Reserve(p)
      PROVE  ProducersOK' /\ (\A q \in Producers : q # p => producer'[q] = producer[q])
  <2> DEFINE moved == IF rec.claim - rec.drained >= Capacity
                      THEN [producer[p] EXCEPT !.pc = "leave", !.complete = FALSE]
                      ELSE [producer[p] EXCEPT !.pc = "publish", !.slot = rec.claim]
  <2>1. Inside(p, moved) /\ producer[p].pc # "idle"
    BY <1>4 DEF Reserve
  <2>2. DOMAIN moved = DOMAIN producer[p] /\ moved.todo = producer[p].todo /\ moved.slot \in Nat
    BY <1>1 DEF RecOK
  <2> HIDE DEF moved
  <2> QED
    BY <2>1, <2>2, SameEvent
<1>5. ASSUME NextEvent(p)
      PROVE  ProducersOK' /\ (\A q \in Producers : q # p => producer'[q] = producer[q])
             /\ producer'[p].pc # "publish"
  <2> DEFINE t == producer[p].todo
             again == [producer[p] EXCEPT !.pc = "enter", !.todo = Tail(t)]
             moved == IF Len(t) > 1 THEN again ELSE Idle
  <2>1. Inside(p, moved) /\ producer[p].pc # "idle"
    <3>1. CASE Len(t) > 1
      <4>1. Inside(p, again)
        BY <3>1, <1>5 DEF NextEvent
      <4> HIDE DEF again
      <4> QED
        BY <3>1, <4>1, <1>5 DEF NextEvent
    <3>2. CASE ~(Len(t) > 1)
      BY <3>2, <1>5 DEF NextEvent
    <3> QED
      BY <3>1, <3>2
  <2>2. DOMAIN again = DOMAIN producer[p] /\ again.todo = Tail(t) /\ again.slot = producer[p].slot
        /\ again.pc = "enter"
    <3> HIDE DEF t
    <3> QED
      BY <1>1 DEF again
  <2>3. t # <<>> /\ Len(t) \in Nat /\ Tail(t) \in Seq(Events) /\ Len(Tail(t)) = Len(t) - 1
    BY <1>1, <2>1, HeadTailProperties, LenProperties
  <2>4. Len(t) > 1 => Tail(t) # <<>>
    <3> HIDE DEF t
    <3>1. Tail(t) = <<>> => Len(Tail(t)) = 0
      BY <2>3, EmptySeq
    <3> QED
      BY <2>3, <3>1
  <2>5. DOMAIN Idle = {"pc", "todo", "slot", "complete", "context"} /\ Idle.todo = <<>>
        /\ Idle.slot = 0 /\ Idle.pc = "idle"
    BY DEF Idle
  <2> HIDE DEF again, t
  <2>6. DOMAIN moved = {"pc", "todo", "slot", "complete", "context"} /\ moved.todo \in Seq(Events)
        /\ (moved.pc # "idle" => moved.todo # <<>>) /\ moved.slot \in Nat /\ moved.pc # "publish"
    <3>1. CASE Len(t) > 1
      <4>1. moved = again
        BY <3>1
      <4> HIDE DEF moved
      <4> QED
        BY <3>1, <4>1, <2>2, <2>3, <2>4, <1>1
    <3>2. CASE ~(Len(t) > 1)
      <4>1. <<>> \in Seq(Events) /\ 0 \in Nat
        OBVIOUS
      <4>2. moved = Idle
        BY <3>2
      <4> HIDE DEF moved
      <4> QED
        BY <4>2, <2>5, <4>1
    <3> QED
      BY <3>1, <3>2
  <2> HIDE DEF moved
  <2> QED
    BY <2>1, <2>6, InsideTyped
<1>6. CASE Count(p)
  BY <1>6, <1>3 DEF Count
<1>7. CASE Publish(p)
  BY <1>7, <1>3 DEF Publish
<1>8. CASE Leave(p)
  BY <1>8, <1>3 DEF Leave
<1> QED
  BY <1>2, <1>4, <1>5, <1>6, <1>7, <1>8 DEF Submits

\* What submit does to the session, the slab and the log.
LEMMA SubmitTypes ==
  ASSUME RecTypes, NEW p \in Producers, Submits(p)
  PROVE  RecTypes'
<1>1. ProducersOK'
  BY SubmitInside DEF RecTypes
<1>2. producer[p].pc # "idle" => Head(producer[p].todo) \in Events
  BY HeadTailProperties DEF RecTypes, ProducersOK, ProducerOK
<1>3. UNCHANGED <<load, drain, file, frame, sessions>>
  BY DEF Submits, Enter, Count, Recheck, Reserve, Publish, Leave, NextEvent, OnlyProducer
<1>4. LoadOK' /\ DrainOK' /\ CountsOK'
  BY <1>3 DEF RecTypes, LoadOK, DrainOK, CountsOK
<1>5. RecOK'
  BY DEF RecTypes, RecOK, Submits, Enter, Count, Recheck, Reserve, Publish, Leave, NextEvent
<1>6. FilesOK'
  <2>1. CASE log' = log
    BY <2>1, <1>3 DEF RecTypes, FilesOK
  <2>2. CASE log' # log
    <3>1. Reserve(p) /\ log' = Append(log, Head(producer[p].todo))
      BY <2>2 DEF Submits, Enter, Count, Recheck, Reserve, Publish, Leave, NextEvent
    <3> QED
      BY <3>1, <1>2, <1>3, AppendProperties DEF RecTypes, FilesOK, Reserve
  <2> QED
    BY <2>1, <2>2
<1>7. SlabOK'
  <2>1. CASE slab' = slab
    BY <2>1 DEF RecTypes, SlabOK, SlotOK
  <2>2. CASE slab' # slab
    <3>1. Publish(p)
      BY <2>2 DEF Submits, Enter, Count, Recheck, Reserve, Publish, Leave, NextEvent
    <3> DEFINE put == [tag |-> producer[p].slot + 1, event |-> Head(producer[p].todo)]
               at == producer[p].slot % Capacity
    <3>2. slab' = [slab EXCEPT ![at] = put]
      BY <3>1 DEF Publish
    <3>3. put.tag \in Nat /\ put.event \in Events /\ DOMAIN put = {"tag", "event"}
      BY <3>1, <1>2 DEF Publish, RecTypes, ProducersOK, ProducerOK
    <3> HIDE DEF put, at
    <3> QED
      BY <3>2, <3>3 DEF RecTypes, SlabOK, SlotOK
  <2> QED
    BY <2>1, <2>2
<1> QED
  BY <1>1, <1>4, <1>5, <1>6, <1>7 DEF RecTypes

(***************************************************************************)
(* Producers                                                               *)
(***************************************************************************)

\* The slab says what the log says.
LEMMA SubmitSlab ==
  ASSUME RecTypes, SlabClean, NEW p \in Producers, Submits(p)
  PROVE  SlabClean'
<1>0. Len(log) \in Nat /\ log \in Seq(Events)
  BY LenProperties DEF RecTypes, FilesOK
<1>1. /\ \A q \in Producers : q # p => producer'[q] = producer[q]
      /\ ~Reserve(p) => producer'[p].pc # "publish"
  BY SubmitInside DEF RecTypes
<1>2. /\ DOMAIN rec = {"armed", "done", "failed", "claim", "drained", "dropped", "written", "inflight"}
      /\ rec.claim \in Nat
  BY DEF RecTypes, RecOK
<1>3. DOMAIN producer = Producers
      /\ DOMAIN producer[p] = {"pc", "todo", "slot", "complete", "context"}
      /\ producer[p].todo \in Seq(Events) /\ producer[p].slot \in Nat
      /\ (producer[p].pc # "idle" => producer[p].todo # <<>>)
  BY DEF RecTypes, ProducersOK, ProducerOK
<1>4. CASE Reserve(p) /\ log' # log
  <2> DEFINE e == Head(producer[p].todo)
  <2>1. /\ log' = Append(log, e) /\ slab' = slab
        /\ rec' = [rec EXCEPT !.claim = @ + 1]
        /\ Inside(p, [producer[p] EXCEPT !.pc = "publish", !.slot = rec.claim])
        /\ producer[p].pc # "idle"
    BY <1>4 DEF Reserve
  <2>2. e \in Events
    BY <1>3, <2>1, HeadTailProperties
  <2>3. producer'[p].slot = rec.claim /\ producer'[p].todo = producer[p].todo
    BY <1>3, <2>1 DEF Inside
  <2>4. rec'.claim = rec.claim + 1
    BY <1>2, <2>1
  <2> HIDE DEF e
  <2>5. Len(log') = Len(log) + 1 /\ log'[Len(log) + 1] = e /\ \A n \in 1..Len(log) : log'[n] = log[n]
    BY <1>0, <2>1, <2>2, AppendProperties
  <2>6. \A q \in Producers : producer'[q].pc = "publish" =>
          producer'[q].slot < Len(log') /\ log'[producer'[q].slot + 1] = Head(producer'[q].todo)
    <3> SUFFICES ASSUME NEW q \in Producers, producer'[q].pc = "publish"
                 PROVE  producer'[q].slot < Len(log')
                        /\ log'[producer'[q].slot + 1] = Head(producer'[q].todo)
      OBVIOUS
    <3>1. CASE q = p
      BY <3>1, <1>0, <2>3, <2>5 DEF SlabClean, e
    <3>2. CASE q # p
      <4>1. producer[q].slot < Len(log) /\ producer[q].slot \in Nat
            /\ log[producer[q].slot + 1] = Head(producer[q].todo)
        BY <3>2, <1>1 DEF SlabClean, RecTypes, ProducersOK, ProducerOK
      <4>2. producer[q].slot + 1 \in 1..Len(log)
        BY <4>1, <1>0
      <4> QED
        BY <3>2, <4>1, <4>2, <1>0, <1>1, <2>5
    <3> QED
      BY <3>1, <3>2
  <2>7. \A i \in DOMAIN slab : slab[i].tag # 0 => slab[i].tag <= Len(log') /\ slab[i].event = log'[slab[i].tag]
    <3> SUFFICES ASSUME NEW i \in DOMAIN slab, slab[i].tag # 0
                 PROVE  slab[i].tag <= Len(log') /\ slab[i].event = log'[slab[i].tag]
      OBVIOUS
    <3>1. slab[i].tag \in 1..Len(log) /\ slab[i].event = log[slab[i].tag]
      BY <1>0 DEF SlabClean, RecTypes, SlabOK, SlotOK
    <3> QED
      BY <3>1, <1>0, <2>5
  <2>8. rec'.claim = Len(log')
    BY <2>4, <2>5 DEF SlabClean
  <2> QED
    BY <2>1, <2>6, <2>7, <2>8 DEF SlabClean
<1>5. ASSUME log' = log, producer'[p].pc # "publish"
      PROVE  \A q \in Producers : producer'[q].pc = "publish" =>
               producer'[q].slot < Len(log') /\ log'[producer'[q].slot + 1] = Head(producer'[q].todo)
  BY <1>1, <1>5 DEF SlabClean
<1>6. CASE Reserve(p) /\ log' = log
  <2>1. slab' = slab /\ rec'.claim = rec.claim
    <3>1. (rec' = [rec EXCEPT !.dropped = @ + 1] /\ slab' = slab)
          \/ log' = Append(log, Head(producer[p].todo))
      BY <1>6 DEF Reserve
    <3>2. producer[p].pc # "idle"
      BY <1>6 DEF Reserve
    <3>3. Head(producer[p].todo) \in Events
      BY <1>3, <3>2, HeadTailProperties
    <3>4. Len(Append(log, Head(producer[p].todo))) = Len(log) + 1
      BY <1>0, <3>3, AppendProperties
    <3> QED
      BY <3>1, <3>4, <1>0, <1>2, <1>6
  <2>2. Inside(p, [producer[p] EXCEPT !.pc = "leave", !.complete = FALSE])
        \/ log' = Append(log, Head(producer[p].todo))
    BY <1>6 DEF Reserve
  <2>3. producer[p].pc # "idle"
    BY <1>6 DEF Reserve
  <2>4. Len(Append(log, Head(producer[p].todo))) = Len(log) + 1
    BY <1>0, <1>3, <2>3, HeadTailProperties, AppendProperties
  <2>5. producer'[p].pc # "publish"
    <3>1. Len(log) + 1 # Len(log)
      BY <1>0
    <3>2. Inside(p, [producer[p] EXCEPT !.pc = "leave", !.complete = FALSE])
      BY <2>2, <2>4, <3>1, <1>6
    <3> QED
      BY <3>2, <1>3 DEF Inside
  <2> QED
    BY <1>5, <1>6, <2>1, <2>5 DEF SlabClean
<1>7. CASE Publish(p)
  <2> DEFINE at == producer[p].slot % Capacity
             put == [tag |-> producer[p].slot + 1, event |-> Head(producer[p].todo)]
  <2>1. slab' = [slab EXCEPT ![at] = put] /\ log' = log /\ rec' = rec
    BY <1>7 DEF Publish
  <2>2. put.tag = producer[p].slot + 1 /\ put.event = Head(producer[p].todo)
    OBVIOUS
  <2>3. producer[p].slot < Len(log) /\ log[producer[p].slot + 1] = Head(producer[p].todo)
    BY <1>7 DEF Publish, SlabClean
  <2>4. put.tag <= Len(log) /\ put.event = log[put.tag]
    BY <2>2, <2>3, <1>0, <1>3
  <2> HIDE DEF put, at
  <2>5. \A i \in DOMAIN slab' : slab'[i].tag # 0 => slab'[i].tag <= Len(log) /\ slab'[i].event = log[slab'[i].tag]
    BY <2>1, <2>4 DEF SlabClean
  <2>6. producer'[p].pc # "publish"
    BY <1>1, <1>7 DEF Publish, Reserve
  <2> QED
    BY <1>5, <2>1, <2>5, <2>6 DEF SlabClean
<1>8. CASE ~Reserve(p) /\ ~Publish(p)
  <2>1. slab' = slab /\ log' = log
    BY <1>8 DEF Submits, Enter, Count, Recheck, Leave, NextEvent
  <2>2. rec'.claim = rec.claim
    BY <1>2, <1>8 DEF Submits, Enter, Count, Recheck, Leave, NextEvent
  <2> QED
    BY <1>1, <1>5, <1>8, <2>1, <2>2 DEF SlabClean
<1> QED
  BY <1>4, <1>6, <1>7, <1>8

\* The file says what it said when only the log has grown.
LEMMA SessionKept ==
  ASSUME RecTypes, SessionClean, UNCHANGED <<drain, file, control, sessions>>,
         rec'.done = rec.done, rec'.failed = rec.failed, rec'.written = rec.written,
         log' = log \/ \E e \in Events : log' = Append(log, e)
  PROVE  SessionClean'
<1>0. Len(log) \in Nat /\ log \in Seq(Events) /\ file \in Seq(Records)
  BY LenProperties DEF RecTypes, FilesOK
<1>1. Len(log') \in Nat /\ Len(log) <= Len(log')
  BY <1>0, AppendProperties
<1>2. \A m \in Nat : m <= Len(log) /\ Faithful(file, log, m) => Faithful(file, log', m)
  BY <1>0, FaithfulGrows
<1>3. \A m \in Nat : m <= Len(log) /\ Tells(file, log, m, rec.failed) => Tells(file, log', m, rec.failed)
  BY <1>0, TellsGrows
<1>4. drain.next \in Nat /\ drain.repeats \in Nat /\ rec.written \in Nat
  BY DEF RecTypes, DrainOK, RecOK
<1>5. ASSUME drain.pending # <<>>, drain.next <= Len(log),
             Holding(Head(drain.pending), drain.repeats, drain.next, rec.failed, file, log)
      PROVE  Holding(Head(drain.pending), drain.repeats, drain.next, rec.failed, file, log')
  <2>1. Head(drain.pending) \in Records /\ Head(drain.pending).seq > 0
    BY <1>5 DEF RecTypes, DrainOK
  <2> QED
    BY <2>1, <1>0, <1>4, <1>5, HoldingGrows
<1>6. Draining => Draining'
  <2> SUFFICES ASSUME Draining
               PROVE  Draining'
    OBVIOUS
  <2>1. drain.next <= Len(log')
    BY <1>0, <1>1, <1>4 DEF Draining, FileClean
  <2>2. drain.pc \in {"slot", "gap"} => drain.next < Len(log')
    BY <1>0, <1>1, <1>4 DEF Draining, FileClean
  <2>3. ~drain.broken =>
          IF drain.pending = <<>> \/ drain.pc = "close" THEN Tells(file, log', drain.next, rec.failed)
          ELSE Holding(Head(drain.pending), drain.repeats, drain.next, rec.failed, file, log')
    BY <1>3, <1>4, <1>5 DEF Draining, FileClean
  <2>4. FileClean'
    BY <2>1, <2>2, <2>3 DEF Draining, FileClean
  <2> QED
    BY <2>4 DEF Draining
<1>7. Ended => Ended'
  BY <1>0, <1>1, <1>2, <1>4 DEF Ended
<1>8. Starting => Starting'
  BY DEF Starting
<1> QED
  BY <1>6, <1>7, <1>8 DEF SessionClean

LEMMA SubmitSession ==
  ASSUME RecTypes, SessionClean, NEW p \in Producers, Submits(p)
  PROVE  SessionClean'
<1>1. UNCHANGED <<drain, file, control, sessions>>
  BY DEF Submits, Enter, Count, Recheck, Reserve, Publish, Leave, NextEvent, OnlyProducer
<1>2. rec'.done = rec.done /\ rec'.failed = rec.failed /\ rec'.written = rec.written
  BY DEF RecTypes, RecOK, Submits, Enter, Count, Recheck, Reserve, Publish, Leave, NextEvent
<1>3. producer[p].pc # "idle" => Head(producer[p].todo) \in Events
  BY HeadTailProperties DEF RecTypes, ProducersOK, ProducerOK
<1>4. log' = log \/ \E e \in Events : log' = Append(log, e)
  BY <1>3 DEF Submits, Enter, Count, Recheck, Reserve, Publish, Leave, NextEvent
<1> QED
  BY <1>1, <1>2, <1>4, SessionKept

\* A callback begins: nothing is reserved yet.
LEMMA CaptureClean ==
  ASSUME RecTypes, NEW p \in load.threads, Capture(p) \/ CaptureContext(p)
  PROVE  /\ RecTypes'
         /\ SlabClean => SlabClean'
         /\ SessionClean => SessionClean'
<1>1. RecTypes' /\ \E fields : Inside(p, fields) /\ fields.pc = "enter" /\ p \in Producers
  BY CaptureTyped, CaptureContextTyped
<1>2. PICK fields : Inside(p, fields) /\ fields.pc = "enter" /\ p \in Producers
  BY <1>1
<1>3. UNCHANGED <<rec, slab, log, drain, file, control, sessions>>
  BY DEF Capture, CaptureContext, OnlyProducer
<1>4. producer'[p] = fields /\ \A q \in Producers : q # p => producer'[q] = producer[q]
  BY <1>2 DEF Inside, RecTypes, ProducersOK
<1>5. SlabClean => SlabClean'
  BY <1>2, <1>3, <1>4 DEF SlabClean
<1>6. SessionClean => SessionClean'
  BY <1>3, SessionKept
<1> QED
  BY <1>1, <1>5, <1>6

(***************************************************************************)
(* The drain thread                                                        *)
(***************************************************************************)

LEMMA RunTyped ==
  ASSUME NEW rs \in Seq(Records), NEW first \in Records, first.event \in Events, NEW repeats \in Nat
  PROVE  rs \o Run(first, repeats) \in Seq(Records)
<1> DEFINE r == Written(first.seq + repeats, RepeatOf(first.event), repeats)
<1>1. r \in Records
  <2>1. RepeatOf(first.event) \in FileEvents
    BY DEF FileEvents
  <2>2. first.seq + repeats \in Nat
    BY DEF Records
  <2> QED
    BY <2>1, <2>2 DEF Written, Records
<1> HIDE DEF r
<1>2. <<first>> \in Seq(Records) /\ <<r>> \in Seq(Records) /\ <<>> \in Seq(Records)
  BY <1>1
<1>3. Run(first, repeats) = <<first>> \o <<r>> \/ Run(first, repeats) = <<first>> \o <<>>
  BY DEF Run, r
<1>4. Run(first, repeats) \in Seq(Records)
  BY <1>2, <1>3, ConcatProperties
<1> QED
  BY <1>4, ConcatProperties

\* The drain thread changes its own state, the counters and the file.
LEMMA DrainFrame ==
  ASSUME RecTypes, OnlyDrain, DrainOK', RecOK', file' \in Seq(Records)
  PROVE  RecTypes' /\ (SlabClean /\ rec'.claim = rec.claim => SlabClean')
<1>1. UNCHANGED <<slab, frame, producer, log, sessions, load>>
  BY DEF OnlyDrain
<1>2. RecTypes'
  BY <1>1 DEF RecTypes, LoadOK, CountsOK, ProducersOK, ProducerOK, SlabOK, SlotOK, FilesOK
<1>3. SlabClean /\ rec'.claim = rec.claim => SlabClean'
  BY <1>1 DEF SlabClean
<1> QED
  BY <1>2, <1>3

LEMMA DrainHeld ==
  ASSUME SessionClean, drain.pc # "off", OnlyDrain, Rises(file'),
         drain'.pc # "off" => Draining', rec'.done /\ ~rec'.failed => Ended'
  PROVE  SessionClean'
  BY DEF SessionClean, Starting, OnlyDrain

\* The slot that is next, when it has been published.
LEMMA SlotTyped ==
  ASSUME RecTypes, Slot.tag = drain.next + 1
  PROVE  /\ Slot.event \in Events
         /\ SlabClean => drain.next < Len(log) /\ Slot.event = log[drain.next + 1]
<1>1. drain.next \in Nat /\ Len(log) \in Nat
  BY LenProperties DEF RecTypes, DrainOK, FilesOK
<1>2. drain.next % Capacity \in 0..(Capacity - 1)
  BY <1>1, RecorderAssumption
<1>3. drain.next % Capacity \in DOMAIN slab
  BY <1>2 DEF RecTypes, SlabOK
<1>4. drain.next + 1 # 0
  BY <1>1
<1>5. Slot.event \in Events
  BY <1>3, <1>4 DEF RecTypes, SlabOK, SlotOK, Slot
<1>6. SlabClean => drain.next + 1 <= Len(log) /\ Slot.event = log[drain.next + 1]
  BY <1>3, <1>4 DEF SlabClean, Slot
<1> QED
  BY <1>1, <1>5, <1>6

LEMMA HeaderStep ==
  ASSUME RecTypes, DrainHeader
  PROVE  RecTypes' /\ rec'.claim = rec.claim /\ (SessionClean => SessionClean')
<1> DEFINE first == <<Written(0, Marker("start", 0), 0)>>
<1>1. OnlyDrain /\ drain.pc = "header"
  BY DEF DrainHeader
<1>2. file \in Seq(Records) /\ log \in Seq(Events) /\ Len(log) \in Nat
  BY LenProperties DEF RecTypes, FilesOK
<1>3. RecOK' /\ DrainOK' /\ rec'.claim = rec.claim
  BY ZenonT(60) DEF RecTypes, RecOK, DrainOK, DrainHeader, Drains
<1>4. CASE file' = first /\ Drains([drain EXCEPT !.pc = "look"]) /\ rec' = rec
  <2>1. <<>> \in Seq(Records) /\ DOMAIN <<>> = {} /\ Len(<<>>) = 0
    BY EmptySeq
  <2>2. first = Append(<<>>, Written(0, Marker("start", 0), 0))
    OBVIOUS
  <2>3. Written(0, Marker("start", 0), 0) \in Records
    BY DEF Written, Records, FileEvents
  <2> HIDE DEF first
  <2>4. first \in Seq(Records)
    BY <2>1, <2>2, <2>3, AppendProperties
  <2>5. DOMAIN first = {1} /\ first[1] = Written(0, Marker("start", 0), 0)
    BY DEF first
  <2>6. first[1].seq = 0 /\ first[1].event.kind # "repeat" /\ \A n : ~Carries(first[1], n)
    BY <2>5, MarkerCarries DEF Written
  <2>7. Tells(first, log, 0, rec.failed)
    BY <2>5, <2>6 DEF Tells, Faithful, Rises, Below, Covered
  <2>8. RecTypes'
    BY <1>1, <1>3, <1>4, <2>4, DrainFrame
  <2>9. ASSUME SessionClean
        PROVE  SessionClean'
    <3>1. Draining /\ drain.pending = <<>> /\ drain.next = 0
      BY <1>1, <2>9 DEF SessionClean, Draining, FileClean
    <3>2. /\ drain'.pc = "look" /\ drain'.next = 0 /\ drain'.pending = <<>>
          /\ drain'.broken = drain.broken
      BY <1>4, <3>1 DEF Drains, RecTypes, DrainOK
    <3>3. FileClean'
      BY <1>1, <1>2, <1>4, <2>7, <3>2 DEF FileClean, OnlyDrain, Tells
    <3>4. Draining'
      BY <1>1, <1>4, <3>1, <3>2, <3>3 DEF Draining
    <3>5. ~rec'.done /\ Rises(file')
      BY <1>4, <2>7, <3>1 DEF Draining, Tells
    <3> QED
      BY <1>1, <2>9, <3>4, <3>5, DrainHeld
  <2> QED
    BY <1>3, <2>8, <2>9
<1>5. CASE Drains([drain EXCEPT !.pc = "abort"]) /\ file' = file
           /\ rec' = [rec EXCEPT !.failed = TRUE, !.armed = FALSE]
  <2>1. RecTypes'
    BY <1>1, <1>2, <1>3, <1>5, DrainFrame
  <2>2. ASSUME SessionClean
        PROVE  SessionClean'
    <3>1. Draining /\ drain.pending = <<>> /\ drain.next = 0
      BY <1>1, <2>2 DEF SessionClean, Draining, FileClean
    <3>2. /\ drain'.pc = "abort" /\ drain'.next = 0 /\ drain'.pending = <<>>
          /\ drain'.broken = drain.broken
      BY <1>5, <3>1 DEF Drains, RecTypes, DrainOK
    <3>3. rec'.failed /\ ~rec'.done
      BY <1>5, <3>1 DEF RecTypes, RecOK, Draining
    <3>4. FileClean'
      BY <1>1, <1>2, <1>5, <3>1, <3>2, <3>3 DEF Draining, FileClean, OnlyDrain, Tells
    <3>5. Draining'
      BY <1>1, <3>1, <3>2, <3>3, <3>4 DEF Draining
    <3> QED
      BY <1>1, <1>5, <2>2, <3>3, <3>5, DrainHeld DEF SessionClean
  <2> QED
    BY <1>3, <2>1, <2>2
<1> QED
  BY <1>4, <1>5 DEF DrainHeader

\* The end of a session that failed before it began.
LEMMA AbortStep ==
  ASSUME RecTypes, DrainAbort
  PROVE  RecTypes' /\ rec'.claim = rec.claim /\ (SessionClean => SessionClean')
<1>1. OnlyDrain /\ drain.pc = "abort" /\ drain' = [drain EXCEPT !.pc = "off"] /\ file' = file
  BY DEF DrainAbort, Drains
<1>2. rec'.claim = rec.claim /\ rec'.failed = rec.failed /\ RecOK' /\ DrainOK'
  BY <1>1 DEF DrainAbort, RecTypes, RecOK, DrainOK
<1>3. RecTypes'
  BY <1>1, <1>2, DrainFrame DEF RecTypes, FilesOK
<1>4. ASSUME SessionClean
      PROVE  SessionClean'
  <2>1. rec'.failed /\ Rises(file')
    BY <1>1, <1>2, <1>4 DEF SessionClean, Draining
  <2>2. drain'.pc = "off"
    BY <1>1 DEF RecTypes, DrainOK
  <2> QED
    BY <1>1, <1>4, <2>1, <2>2, DrainHeld
<1> QED
  BY <1>2, <1>3, <1>4

\* Stopped, and nobody inside.
GivesUp == ~rec.armed /\ rec.inflight = 0

\* The thread looks around.
LEMMA LookStep ==
  ASSUME RecTypes, DrainLook \/ DrainGap \/ DrainCaughtUp \/ (DrainGiveUp /\ ~GivesUp)
  PROVE  RecTypes' /\ rec'.claim = rec.claim /\ (SlabClean /\ SessionClean => SessionClean')
<1>0. drain.next \in Nat /\ Len(log) \in Nat /\ drain.pc \in {"look", "slot", "caught_up", "gap"}
  BY LenProperties DEF RecTypes, FilesOK, DrainOK, DrainLook, DrainGap, DrainCaughtUp, DrainGiveUp
<1>1. rec' = rec /\ file' = file /\ OnlyDrain
  BY DEF DrainLook, DrainGap, DrainCaughtUp, DrainGiveUp, GivesUp
<1>2. PICK pc \in {"look", "slot", "gap", "caught_up", "finish"} :
        /\ drain' = [drain EXCEPT !.pc = pc]
        /\ pc = "slot" => drain.next < rec.claim
        /\ pc = "gap" => drain.pc = "slot"
  <2>1. CASE DrainLook
    BY <2>1 DEF DrainLook, Drains
  <2>2. CASE DrainGap
    BY <2>2 DEF DrainGap, Drains
  <2>3. CASE DrainCaughtUp
    BY <2>3 DEF DrainCaughtUp, Drains
  <2>4. CASE DrainGiveUp /\ ~GivesUp
    BY <2>4 DEF DrainGiveUp, Drains, GivesUp
  <2> QED
    BY <2>1, <2>2, <2>3, <2>4
<1>3. DOMAIN drain' = DOMAIN drain /\ drain'.pc = pc /\ drain'.next = drain.next
      /\ drain'.pending = drain.pending /\ drain'.repeats = drain.repeats /\ drain'.broken = drain.broken
  BY <1>2 DEF RecTypes, DrainOK
<1>4. DrainOK' /\ RecOK'
  BY <1>1, <1>3 DEF RecTypes, DrainOK, RecOK
<1>5. RecTypes'
  BY <1>1, <1>4, DrainFrame DEF RecTypes, FilesOK
<1>6. ASSUME SlabClean, SessionClean
      PROVE  SessionClean'
  <2>1. Draining
    BY <1>0, <1>6 DEF SessionClean
  <2>2. pc \in {"slot", "gap"} => drain.next < Len(log)
    BY <1>0, <1>2, <1>6, <2>1 DEF Draining, FileClean, SlabClean
  <2>3. FileClean'
    BY <1>0, <1>1, <1>3, <2>1, <2>2 DEF Draining, FileClean, OnlyDrain
  <2>4. ~drain.broken
    BY <1>0, <2>1 DEF Draining
  <2>5. Draining'
    BY <1>1, <1>3, <2>1, <2>3, <2>4 DEF Draining
  <2> QED
    BY <1>0, <1>1, <1>6, <2>1, <2>5, DrainHeld DEF SessionClean, Draining
<1> QED
  BY <1>1, <1>5, <1>6

\* It gives a slot up: the session has failed from now on.
LEMMA GiveUpStep ==
  ASSUME RecTypes, DrainGiveUp, GivesUp
  PROVE  RecTypes' /\ rec'.claim = rec.claim /\ (SessionClean => SessionClean')
<1>0. /\ drain.next \in Nat /\ drain.repeats \in Nat /\ Len(log) \in Nat /\ file \in Seq(Records)
      /\ rec.failed \in BOOLEAN
  BY LenProperties DEF RecTypes, FilesOK, DrainOK, RecOK
<1>1. /\ OnlyDrain /\ drain.pc = "gap" /\ file' = file
      /\ rec' = [rec EXCEPT !.failed = TRUE, !.dropped = @ + 1, !.drained = drain.next + 1]
      /\ drain' = [drain EXCEPT !.pc = "look", !.next = @ + 1]
  BY DEF DrainGiveUp, Drains, GivesUp
<1>2. DOMAIN rec' = DOMAIN rec /\ rec'.claim = rec.claim /\ rec'.failed /\ rec'.failed = TRUE
      /\ rec'.done = rec.done /\ rec'.written = rec.written
  BY <1>1 DEF RecTypes, RecOK
<1>3. DOMAIN drain' = DOMAIN drain /\ drain'.pc = "look" /\ drain'.next = drain.next + 1
      /\ drain'.pending = drain.pending /\ drain'.repeats = drain.repeats /\ drain'.broken = drain.broken
  BY <1>1 DEF RecTypes, DrainOK
<1>4. DrainOK' /\ RecOK'
  BY <1>2, <1>3 DEF RecTypes, DrainOK, RecOK
<1>5. RecTypes'
  BY <1>0, <1>1, <1>4, DrainFrame
<1>6. ASSUME SessionClean
      PROVE  SessionClean'
  <2>1. Draining /\ drain.next < Len(log)
    BY <1>1, <1>6 DEF SessionClean, Draining, FileClean
  <2>2. Tells(file, log, drain.next, rec.failed) => Tells(file, log, drain.next + 1, TRUE)
    BY <1>0, TellsFails
  <2>3. ASSUME drain.pending # <<>>,
               Holding(Head(drain.pending), drain.repeats, drain.next, rec.failed, file, log)
        PROVE  Holding(Head(drain.pending), drain.repeats, drain.next + 1, TRUE, file, log)
    <3>1. Head(drain.pending).seq \in Nat
      BY <2>3 DEF RecTypes, DrainOK, Records
    <3> QED
      BY <1>0, <2>3, <3>1 DEF Holding, Tells
  <2>4. Below(file, drain.next + 1)
    <3>1. \A i \in DOMAIN file : file[i].seq \in Nat
      <4> TAKE i \in DOMAIN file
      <4>1. file[i] \in Records
        BY <1>0, ElementOfSeq, LenProperties
      <4> QED
        BY <4>1 DEF Records
    <3> QED
      BY <1>0, <2>1, <3>1 DEF Draining, FileClean, Below
  <2>5. FileClean'
    <3>1. drain'.next <= Len(log) /\ Rises(file) /\ log' = log
      BY <1>0, <1>1, <1>3, <2>1 DEF Draining, FileClean, OnlyDrain
    <3>2. ~drain.broken =>
            IF drain.pending = <<>> THEN Tells(file, log, drain.next + 1, TRUE)
            ELSE Holding(Head(drain.pending), drain.repeats, drain.next + 1, TRUE, file, log)
      BY <1>1, <2>1, <2>2, <2>3 DEF Draining, FileClean
    <3> QED
      BY <1>1, <1>2, <1>3, <2>4, <3>1, <3>2 DEF FileClean
  <2>6. Draining'
    BY <1>1, <1>2, <1>3, <2>1, <2>5 DEF Draining
  <2> QED
    BY <1>1, <1>2, <1>6, <2>1, <2>6, DrainHeld DEF SessionClean, Draining
<1> QED
  BY <1>2, <1>5, <1>6

\* A file that tells all before the event, and the event held back.
LEMMA BeginRun ==
  ASSUME NEW rs, NEW l, NEW n \in Nat, NEW e, NEW failed, Tells(rs, l, n, failed), l[n + 1] = e
  PROVE  Holding(Written(n + 1, e, 0), 0, n + 1, failed, rs, l)
<1> DEFINE w == Written(n + 1, e, 0)
<1>1. w.seq = n + 1 /\ w.event = e
  BY DEF Written
<1> HIDE DEF w
<1>2. w.seq - 1 = n /\ w.seq + 0 = n + 1
  BY <1>1
<1>3. \A k \in w.seq..(w.seq + 0) : k = n + 1
  BY <1>1
<1>4. Holding(w, 0, n + 1, failed, rs, l)
  BY <1>1, <1>2, <1>3 DEF Holding
<1> QED
  BY <1>4 DEF w

\* Nothing is held back, the run goes on, or it is written.
LEMMA TakeStep ==
  ASSUME RecTypes, DrainTake
  PROVE  RecTypes' /\ rec'.claim = rec.claim /\ (SlabClean /\ SessionClean => SessionClean')
<1> DEFINE e == Slot.event
           first == Head(drain.pending)
           next == drain.next
<1>0. /\ next \in Nat /\ drain.repeats \in Nat /\ Len(log) \in Nat /\ file \in Seq(Records)
      /\ rec.failed \in BOOLEAN /\ rec.written \in Nat /\ next + 1 \in Nat
  BY LenProperties DEF RecTypes, FilesOK, DrainOK, RecOK
<1>1. OnlyDrain /\ drain.pc = "slot" /\ Slot.tag = next + 1
  BY DEF DrainTake
<1>2. e \in Events /\ (SlabClean => next < Len(log) /\ e = log[next + 1])
  BY <1>1, SlotTyped
<1>3. drain.pending # <<>> => first \in Records /\ first.event \in Events /\ first.seq > 0
  BY DEF RecTypes, DrainOK
<1>4. Written(next + 1, e, 0) \in Records
  BY <1>0, <1>2 DEF Written, Records, FileEvents
<1> DEFINE begun == drain' = [drain EXCEPT !.pc = "look", !.next = next + 1,
                                !.pending = <<Written(next + 1, e, 0)>>, !.repeats = 0]
           counted == rec' = [rec EXCEPT !.written = @ + 1, !.drained = next + 1]
<1>5. \/ drain.pending = <<>> /\ begun /\ counted /\ file' = file
      \/ /\ drain.pending # <<>> /\ Continues(e) /\ counted /\ file' = file
         /\ drain' = [drain EXCEPT !.pc = "look", !.next = next + 1, !.repeats = drain.repeats + 1]
      \/ /\ drain.pending # <<>> /\ begun /\ counted
         /\ file' = file \o Run(first, drain.repeats)
      \/ /\ drain.pending # <<>> /\ file' = file
         /\ drain' = [drain EXCEPT !.pc = "broken", !.pending = <<>>, !.broken = TRUE]
         /\ rec' = [rec EXCEPT !.armed = FALSE]
  BY DEF DrainTake, Drains, RecTypes, DrainOK
<1>6. counted => /\ RecOK' /\ rec'.claim = rec.claim /\ rec'.failed = rec.failed /\ rec'.done = rec.done
                 /\ rec'.written = rec.written + 1
  BY <1>0 DEF RecTypes, RecOK
<1>7. begun => /\ DrainOK' /\ drain'.pc = "look" /\ drain'.next = next + 1 /\ drain'.pending # <<>>
               /\ Head(drain'.pending) = Written(next + 1, e, 0) /\ drain'.repeats = 0
               /\ drain'.broken = drain.broken
  <2> DEFINE w == Written(next + 1, e, 0)
  <2>1. w.seq = next + 1 /\ w.event = e /\ next + 1 > 0
    BY <1>0 DEF Written
  <2> HIDE DEF w, next, e
  <2>2. ASSUME drain' = [drain EXCEPT !.pc = "look", !.next = next + 1, !.pending = <<w>>, !.repeats = 0]
        PROVE  /\ DOMAIN drain' = DOMAIN drain /\ drain'.pc = "look" /\ drain'.next = next + 1
               /\ drain'.pending = <<w>> /\ drain'.repeats = 0 /\ drain'.broken = drain.broken
    BY <2>2 DEF RecTypes, DrainOK
  <2>3. <<w>> # <<>> /\ Head(<<w>>) = w
    OBVIOUS
  <2> QED
    BY <2>1, <2>2, <2>3, <1>0, <1>2, <1>4 DEF RecTypes, DrainOK, w
<1> HIDE DEF begun, counted, e, next, first
<1>8. SessionClean => Draining /\ FileClean /\ ~drain.broken
                      /\ (IF drain.pending = <<>> THEN Tells(file, log, next, rec.failed)
                          ELSE Holding(first, drain.repeats, next, rec.failed, file, log))
  BY <1>1 DEF SessionClean, Draining, FileClean, next, first
<1>9. ASSUME begun, counted, file' \in Seq(Records),
             SlabClean /\ SessionClean => Tells(file', log, next, rec.failed)
      PROVE  RecTypes' /\ rec'.claim = rec.claim /\ (SlabClean /\ SessionClean => SessionClean')
  <2>1. RecTypes'
    BY <1>1, <1>6, <1>7, <1>9, DrainFrame
  <2>2. ASSUME SlabClean, SessionClean
        PROVE  SessionClean'
    <3>1. Holding(Written(next + 1, e, 0), 0, next + 1, rec.failed, file', log)
      BY <1>0, <1>2, <1>9, <2>2, BeginRun
    <3>2. Tells(file', log, next, rec.failed) /\ log' = log
      BY <1>1, <1>9, <2>2 DEF OnlyDrain
    <3>3. Below(file', next + 1)
      <4>1. \A i \in DOMAIN file' : file'[i].seq \in Nat
        <5> TAKE i \in DOMAIN file'
        <5>1. file'[i] \in Records
          BY <1>9, ElementOfSeq, LenProperties
        <5> QED
          BY <5>1 DEF Records
      <4> QED
        BY <1>0, <3>2, <4>1 DEF Tells, Below
    <3>4. next + 1 <= Len(log)
      BY <1>0, <1>2, <2>2
    <3>5. FileClean'
      BY <1>6, <1>7, <1>9, <3>1, <3>2, <3>3, <3>4 DEF FileClean, Tells
    <3>6. Draining'
      BY <1>0, <1>6, <1>7, <1>8, <1>9, <2>2, <3>5 DEF Draining, next
    <3>7. ~rec'.done
      BY <1>6, <1>8, <1>9, <2>2 DEF Draining
    <3> QED
      BY <1>1, <2>2, <3>2, <3>6, <3>7, DrainHeld DEF Tells
  <2> QED
    BY <1>6, <1>9, <2>1, <2>2
<1>10. CASE drain.pending = <<>> /\ begun /\ counted /\ file' = file
  BY <1>0, <1>8, <1>9, <1>10
<1>11. CASE /\ drain.pending # <<>> /\ begun /\ counted
            /\ file' = file \o Run(first, drain.repeats)
  <2>1. file' \in Seq(Records)
    BY <1>0, <1>3, <1>11, RunTyped
  <2>2. SessionClean => Tells(file', log, next, rec.failed)
    BY <1>0, <1>3, <1>8, <1>11, RunTold
  <2> QED
    BY <1>9, <1>11, <2>1, <2>2
<1>12. CASE /\ drain.pending # <<>> /\ Continues(e) /\ counted /\ file' = file
            /\ drain' = [drain EXCEPT !.pc = "look", !.next = next + 1, !.repeats = drain.repeats + 1]
  <2>1. DOMAIN drain' = DOMAIN drain /\ drain'.pc = "look" /\ drain'.next = next + 1
        /\ drain'.pending = drain.pending /\ drain'.repeats = drain.repeats + 1
        /\ drain'.broken = drain.broken
    BY <1>12 DEF RecTypes, DrainOK
  <2>2. DrainOK'
    BY <1>0, <2>1 DEF RecTypes, DrainOK
  <2>3. RecTypes'
    BY <1>0, <1>1, <1>6, <1>12, <2>2, DrainFrame
  <2>4. first.seq + drain.repeats = next /\ first.event = e
    BY <1>12 DEF Continues, SamePayload, first, next
  <2>5. ASSUME SlabClean, SessionClean
        PROVE  SessionClean'
    <3>1. Holding(first, drain.repeats, next, rec.failed, file, log)
      BY <1>8, <1>12, <2>5
    <3>2. first.seq \in Nat
      BY <1>3, <1>12 DEF Records
    <3>3. \A n \in first.seq..(first.seq + (drain.repeats + 1)) :
            n \in first.seq..(first.seq + drain.repeats) \/ n = next + 1
      BY <1>0, <2>4, <3>2
    <3>4. \A n \in first.seq..(first.seq + (drain.repeats + 1)) : log[n] = first.event
      BY <1>2, <2>4, <2>5, <3>1, <3>3 DEF Holding
    <3>5. Holding(first, drain.repeats + 1, next + 1, rec.failed, file, log)
      <4>1. first.seq + (drain.repeats + 1) = next + 1
        BY <1>0, <2>4, <3>2
      <4>2. Tells(file, log, first.seq - 1, rec.failed)
        BY <3>1 DEF Holding
      <4> QED
        BY <1>0, <3>4, <4>1, <4>2 DEF Holding
    <3>6. next + 1 <= Len(log) /\ log' = log
      BY <1>0, <1>1, <1>2, <2>5 DEF OnlyDrain
    <3>7. Below(file, next + 1) /\ Rises(file)
      <4>1. \A i \in DOMAIN file : file[i].seq \in Nat
        <5> TAKE i \in DOMAIN file
        <5>1. file[i] \in Records
          BY <1>0, ElementOfSeq, LenProperties
        <5> QED
          BY <5>1 DEF Records
      <4> QED
        BY <1>0, <1>8, <2>5, <4>1 DEF FileClean, Below, next
    <3>8. FileClean'
      BY <1>6, <1>12, <2>1, <3>5, <3>6, <3>7 DEF FileClean, first
    <3>9. Draining'
      BY <1>0, <1>6, <1>8, <1>12, <2>1, <2>5, <3>8 DEF Draining, next
    <3> QED
      BY <1>1, <1>6, <1>8, <1>12, <2>5, <3>7, <3>9, DrainHeld DEF Draining
  <2> QED
    BY <1>6, <1>12, <2>3, <2>5
<1>13. CASE /\ drain.pending # <<>> /\ file' = file
            /\ drain' = [drain EXCEPT !.pc = "broken", !.pending = <<>>, !.broken = TRUE]
            /\ rec' = [rec EXCEPT !.armed = FALSE]
  <2>1. DOMAIN drain' = DOMAIN drain /\ drain'.pc = "broken" /\ drain'.next = next
        /\ drain'.pending = <<>> /\ drain'.repeats = drain.repeats /\ drain'.broken = TRUE
    BY <1>13 DEF RecTypes, DrainOK, next
  <2>2. DrainOK'
    BY <1>0, <2>1 DEF RecTypes, DrainOK
  <2>3. RecOK' /\ rec'.claim = rec.claim /\ rec'.failed = rec.failed /\ rec'.done = rec.done
        /\ rec'.written = rec.written
    BY <1>13 DEF RecTypes, RecOK
  <2>4. RecTypes'
    BY <1>0, <1>1, <1>13, <2>2, <2>3, DrainFrame
  <2>5. ASSUME SessionClean
        PROVE  SessionClean'
    <3>1. FileClean'
      BY <1>1, <1>8, <1>13, <2>1, <2>5 DEF FileClean, OnlyDrain, next
    <3>2. Draining'
      BY <1>8, <2>1, <2>3, <2>5, <3>1 DEF Draining, next
    <3> QED
      BY <1>1, <1>8, <1>13, <2>3, <2>5, <3>2, DrainHeld DEF Draining, FileClean
  <2> QED
    BY <2>3, <2>4, <2>5
<1> QED
  BY <1>5, <1>10, <1>11, <1>12, <1>13

\* The last run.
LEMMA FinishStep ==
  ASSUME RecTypes, DrainFinish
  PROVE  RecTypes' /\ rec'.claim = rec.claim /\ (SessionClean => SessionClean')
<1> DEFINE first == Head(drain.pending)
<1>0. /\ drain.next \in Nat /\ drain.repeats \in Nat /\ file \in Seq(Records)
      /\ rec.failed \in BOOLEAN
  BY DEF RecTypes, FilesOK, DrainOK, RecOK
<1>1. OnlyDrain /\ drain.pc = "finish" /\ rec' = rec
  BY DEF DrainFinish
<1>2. drain.pending # <<>> => first \in Records /\ first.event \in Events /\ first.seq > 0
  BY DEF RecTypes, DrainOK
<1>3. \/ /\ drain' = [drain EXCEPT !.pc = "close"]
         /\ file' = IF drain.pending = <<>> THEN file ELSE file \o Run(first, drain.repeats)
      \/ drain' = [drain EXCEPT !.pc = "broken", !.broken = TRUE] /\ file' = file
  BY DEF DrainFinish, Drains
<1> HIDE DEF first
<1>4. RecOK'
  BY <1>1 DEF RecTypes, RecOK
<1>5. ASSUME SessionClean
      PROVE  Draining /\ FileClean /\ ~drain.broken
             /\ (IF drain.pending = <<>> THEN Tells(file, log, drain.next, rec.failed)
                 ELSE Holding(first, drain.repeats, drain.next, rec.failed, file, log))
  BY <1>1, <1>5 DEF SessionClean, Draining, FileClean, first
<1>6. CASE /\ drain' = [drain EXCEPT !.pc = "close"]
           /\ file' = IF drain.pending = <<>> THEN file ELSE file \o Run(first, drain.repeats)
  <2>1. DOMAIN drain' = DOMAIN drain /\ drain'.pc = "close" /\ drain'.next = drain.next
        /\ drain'.pending = drain.pending /\ drain'.repeats = drain.repeats
        /\ drain'.broken = drain.broken
    BY <1>6 DEF RecTypes, DrainOK
  <2>2. DrainOK'
    BY <1>0, <2>1 DEF RecTypes, DrainOK
  <2>3. file' \in Seq(Records)
    BY <1>0, <1>2, <1>6, RunTyped
  <2>4. SessionClean => Tells(file', log, drain.next, rec.failed)
    BY <1>0, <1>2, <1>5, <1>6, RunTold
  <2>5. RecTypes'
    BY <1>1, <1>4, <2>2, <2>3, DrainFrame
  <2>6. ASSUME SessionClean
        PROVE  SessionClean'
    <3>1. FileClean'
      BY <1>1, <1>5, <2>1, <2>4, <2>6 DEF FileClean, OnlyDrain, Tells
    <3>2. Draining'
      BY <1>1, <1>5, <2>1, <2>6, <3>1 DEF Draining
    <3> QED
      BY <1>1, <1>5, <2>4, <2>6, <3>2, DrainHeld DEF Draining, Tells
  <2> QED
    BY <1>1, <2>5, <2>6
<1>7. CASE drain' = [drain EXCEPT !.pc = "broken", !.broken = TRUE] /\ file' = file
  <2>1. DOMAIN drain' = DOMAIN drain /\ drain'.pc = "broken" /\ drain'.next = drain.next
        /\ drain'.pending = drain.pending /\ drain'.repeats = drain.repeats
        /\ drain'.broken = TRUE
    BY <1>7 DEF RecTypes, DrainOK
  <2>2. DrainOK'
    BY <1>0, <2>1 DEF RecTypes, DrainOK
  <2>3. RecTypes'
    BY <1>0, <1>1, <1>4, <1>7, <2>2, DrainFrame
  <2>4. ASSUME SessionClean
        PROVE  SessionClean'
    <3>1. FileClean'
      BY <1>1, <1>5, <1>7, <2>1, <2>4 DEF FileClean, OnlyDrain
    <3>2. Draining'
      BY <1>1, <1>5, <2>1, <2>4, <3>1 DEF Draining
    <3> QED
      BY <1>1, <1>5, <1>7, <2>4, <3>2, DrainHeld DEF Draining, FileClean
  <2> QED
    BY <1>1, <2>3, <2>4
<1> QED
  BY <1>3, <1>6, <1>7

\* After a write error.
LEMMA BrokenStep ==
  ASSUME RecTypes, DrainBroken
  PROVE  RecTypes' /\ rec'.claim = rec.claim /\ (SessionClean => SessionClean')
<1>1. /\ OnlyDrain /\ drain.pc = "broken" /\ file' = file /\ file \in Seq(Records)
      /\ drain' = [drain EXCEPT !.pc = "close"]
  BY DEF DrainBroken, Drains, RecTypes, FilesOK
<1>2. /\ DOMAIN rec' = DOMAIN rec /\ rec'.claim = rec.claim /\ rec'.failed = TRUE
      /\ rec'.done = rec.done /\ rec'.written = rec.written
  BY DEF DrainBroken, RecTypes, RecOK
<1>3. DOMAIN drain' = DOMAIN drain /\ drain'.pc = "close" /\ drain'.next = drain.next
      /\ drain'.pending = drain.pending /\ drain'.repeats = drain.repeats
      /\ drain'.broken = drain.broken
  BY <1>1 DEF RecTypes, DrainOK
<1>4. RecOK' /\ DrainOK'
  BY <1>2, <1>3 DEF RecTypes, RecOK, DrainOK
<1>5. RecTypes'
  BY <1>1, <1>4, DrainFrame
<1>6. ASSUME SessionClean
      PROVE  SessionClean'
  <2>1. Draining /\ FileClean /\ drain.broken
    BY <1>1, <1>6 DEF SessionClean, Draining
  <2>2. FileClean'
    BY <1>1, <1>3, <2>1 DEF FileClean, OnlyDrain
  <2>3. Draining'
    BY <1>2, <1>3, <2>1, <2>2 DEF Draining
  <2> QED
    BY <1>1, <1>2, <1>6, <2>1, <2>3, DrainHeld DEF Draining, FileClean
<1> QED
  BY <1>2, <1>5, <1>6

\* The file is closed.
LEMMA CloseStep ==
  ASSUME RecTypes, DrainClose
  PROVE  RecTypes' /\ rec'.claim = rec.claim /\ (SessionClean => SessionClean')
<1> DEFINE stop == Written(drain.next + 1, Marker("stop", rec.written), 0)
<1>0. /\ drain.next \in Nat /\ drain.next + 1 \in Nat /\ drain.next + 1 > drain.next
      /\ file \in Seq(Records) /\ rec.written \in Nat /\ rec.failed \in BOOLEAN
  BY DEF RecTypes, DrainOK, FilesOK, RecOK
<1>1. OnlyDrain /\ drain.pc = "close" /\ drain' = [drain EXCEPT !.pc = "off"]
  BY DEF DrainClose, Drains
<1>2. DOMAIN drain' = DOMAIN drain /\ drain'.pc = "off" /\ drain'.next = drain.next
      /\ drain'.pending = drain.pending /\ drain'.repeats = drain.repeats
      /\ drain'.broken = drain.broken
  BY <1>1 DEF RecTypes, DrainOK
<1>3. DrainOK'
  BY <1>2 DEF RecTypes, DrainOK
<1>4. SessionClean =>
        /\ Rises(file) /\ Below(file, drain.next) /\ drain.next <= Len(log)
        /\ ~rec.failed => rec.written = drain.next /\ Tells(file, log, drain.next, rec.failed)
  BY <1>1 DEF SessionClean, Draining, FileClean
<1>5. CASE file' = Append(file, stop) /\ rec' = [rec EXCEPT !.done = TRUE]
  <2>1. /\ RecOK' /\ rec'.claim = rec.claim /\ rec'.failed = rec.failed
        /\ rec'.written = rec.written
    BY <1>5 DEF RecTypes, RecOK
  <2>2. file' \in Seq(Records)
    <3>1. stop \in Records
      BY <1>0 DEF Written, Records, FileEvents
    <3> HIDE DEF stop
    <3> QED
      BY <1>0, <1>5, <3>1, AppendProperties
  <2>3. RecTypes'
    BY <1>1, <1>3, <2>1, <2>2, DrainFrame
  <2>4. ASSUME SessionClean
        PROVE  SessionClean'
    <3>1. /\ file' # <<>> /\ Last(file').event = Marker("stop", rec.written) /\ Rises(file')
          /\ Faithful(file, log, drain.next) => Faithful(file', log, drain.next)
          /\ Covered(file, drain.next) => Covered(file', drain.next)
      BY <1>0, <1>4, <1>5, <2>4, MarkerTold, SMTT(60)
    <3>2. log' = log
      BY <1>1 DEF OnlyDrain
    <3>3. ~rec'.failed => Ended'
      BY <1>4, <2>1, <2>4, <3>1, <3>2 DEF Ended, Tells
    <3> QED
      BY <1>1, <1>2, <2>4, <3>1, <3>3, DrainHeld
  <2> QED
    BY <2>1, <2>3, <2>4
<1>6. CASE file' = file /\ rec' = [rec EXCEPT !.done = TRUE, !.failed = TRUE]
  <2>1. RecOK' /\ rec'.claim = rec.claim /\ rec'.failed = TRUE
    BY <1>6 DEF RecTypes, RecOK
  <2>2. RecTypes'
    BY <1>0, <1>1, <1>3, <1>6, <2>1, DrainFrame
  <2>3. SessionClean => SessionClean'
    BY <1>1, <1>2, <1>4, <1>6, <2>1, DrainHeld
  <2> QED
    BY <2>1, <2>2, <2>3
<1> QED
  BY <1>5, <1>6 DEF DrainClose

\* Every step of the drain thread.
LEMMA DrainSteps ==
  ASSUME RecTypes, DrainStep
  PROVE  RecTypes' /\ (SlabClean => SlabClean') /\ (SlabClean /\ SessionClean => SessionClean')
<1>1. OnlyDrain
  BY DEF DrainStep, DrainHeader, DrainAbort, DrainLook, DrainTake, DrainGap, DrainGiveUp, DrainCaughtUp,
         DrainFinish, DrainBroken, DrainClose
<1>2. RecTypes' /\ rec'.claim = rec.claim /\ (SlabClean /\ SessionClean => SessionClean')
  BY HeaderStep, AbortStep, LookStep, TakeStep, GiveUpStep, FinishStep, BrokenStep, CloseStep DEF DrainStep
<1>3. SlabClean => SlabClean'
  BY <1>1, <1>2, DrainFrame DEF RecTypes, FilesOK
<1> QED
  BY <1>2, <1>3

(***************************************************************************)
(* Session control                                                         *)
(***************************************************************************)

\* Every slot's tag is cleared; the counters, the file and the log are empty.
LEMMA ResetStep ==
  ASSUME RecTypes, StartReset
  PROVE  RecTypes' /\ (clean' => clean /\ SlabClean' /\ (SessionClean => SessionClean'))
<1>1. /\ rec' = [rec EXCEPT !.claim = 0, !.drained = 0, !.dropped = 0, !.written = 0, !.done = FALSE,
                            !.inflight = 0, !.failed = FALSE]
      /\ slab' = [i \in DOMAIN slab |-> [slab[i] EXCEPT !.tag = 0]]
      /\ file' = <<>> /\ log' = <<>> /\ sessions' = sessions + 1 /\ control' = "arm"
      /\ clean' = (clean /\ \A p \in Producers : producer[p].pc = "idle")
      /\ UNCHANGED <<frame, producer, drain, load>> /\ rec.done
  BY DEF StartReset
<1>2. /\ DOMAIN rec' = DOMAIN rec /\ rec'.claim = 0 /\ rec'.written = 0 /\ rec'.done = FALSE
      /\ rec'.failed = FALSE /\ rec'.done \in BOOLEAN /\ rec'.failed \in BOOLEAN
  BY <1>1 DEF RecTypes, RecOK
<1>3. RecOK'
  BY <1>2 DEF RecTypes, RecOK
<1>4. DOMAIN slab' = DOMAIN slab /\ \A i \in DOMAIN slab : DOMAIN slab'[i] = {"tag", "event"} /\ slab'[i].tag = 0
  BY <1>1 DEF RecTypes, SlabOK, SlotOK
<1>5. SlabOK'
  BY <1>4 DEF RecTypes, SlabOK, SlotOK
<1>6. file' \in Seq(Records) /\ log' \in Seq(Events) /\ Len(log') = 0 /\ DOMAIN file' = {}
  BY <1>1
<1>7. RecTypes'
  BY <1>1, <1>3, <1>5, <1>6
     DEF RecTypes, LoadOK, CountsOK, ProducersOK, ProducerOK, DrainOK, FilesOK
<1>8. clean' => SlabClean'
  <2>1. clean' => \A p \in Producers : producer'[p].pc # "publish"
    BY <1>1
  <2> QED
    BY <1>2, <1>4, <1>6, <2>1 DEF SlabClean
<1>9. ASSUME SessionClean
      PROVE  SessionClean'
  <2>1. drain.pc = "off"
    BY <1>1, <1>9 DEF SessionClean, Draining
  <2>2. Rises(file')
    BY <1>6 DEF Rises
  <2> QED
    BY <1>1, <1>2, <2>1, <2>2 DEF SessionClean, Starting
<1> QED
  BY <1>1, <1>7, <1>8, <1>9

\* The drain thread is spawned, or cannot be.
LEMMA SpawnStep ==
  ASSUME RecTypes, StartArm \/ StartSpawn \/ StartUnspawn
  PROVE  RecTypes' /\ (SlabClean => SlabClean') /\ (SessionClean => SessionClean')
<1>0. UNCHANGED <<slab, frame, producer, file, log, sessions, load>> /\ Len(log) \in Nat
  BY LenProperties DEF StartArm, StartSpawn, StartUnspawn, RecTypes, FilesOK
<1>1. /\ DOMAIN rec' = DOMAIN rec /\ rec'.claim = rec.claim /\ rec'.written = rec.written
      /\ rec'.failed \in BOOLEAN /\ rec'.done \in BOOLEAN
  BY DEF StartArm, StartSpawn, StartUnspawn, RecTypes, RecOK
<1>2. RecOK'
  BY <1>1 DEF RecTypes, RecOK
<1>3. /\ DOMAIN NoDrain = {"pc", "next", "pending", "repeats", "broken"}
      /\ NoDrain.next = 0 /\ NoDrain.pending = <<>> /\ NoDrain.repeats = 0 /\ NoDrain.broken = FALSE
      /\ NoDrain.broken \in BOOLEAN
  BY DEF NoDrain
<1>4. drain' = drain
      \/ /\ DOMAIN drain' = DOMAIN NoDrain /\ drain'.pc = "header" /\ drain'.next = 0
         /\ drain'.pending = <<>> /\ drain'.repeats = 0 /\ drain'.broken = FALSE
         /\ drain'.broken \in BOOLEAN /\ StartSpawn /\ rec' = rec /\ control' = "flush"
  BY <1>3 DEF StartArm, StartSpawn, StartUnspawn
<1>5. DrainOK'
  <2>1. CASE drain' = drain
    BY <2>1 DEF RecTypes, DrainOK
  <2>2. CASE drain' # drain
    BY <2>2, <1>3, <1>4 DEF DrainOK
  <2> QED
    BY <2>1, <2>2
<1>6. RecTypes'
  BY <1>0, <1>2, <1>5
     DEF RecTypes, LoadOK, CountsOK, ProducersOK, ProducerOK, SlabOK, SlotOK, FilesOK
<1>7. SlabClean => SlabClean'
  BY <1>0, <1>1 DEF SlabClean
<1>8. ASSUME SessionClean
      PROVE  SessionClean'
  <2>0. Rises(file')
    BY <1>0, <1>8 DEF SessionClean
  <2>1. CASE StartArm
    <3>1. Starting /\ control' = "spawn" /\ drain' = drain
      BY <1>8, <2>1 DEF StartArm, SessionClean
    <3>2. rec'.done = rec.done
      BY <2>1 DEF StartArm, RecTypes, RecOK
    <3>3. Starting'
      BY <1>0, <1>1, <3>1, <3>2 DEF Starting
    <3> QED
      BY <2>0, <3>1, <3>3 DEF SessionClean, Starting
  <2>2. CASE StartSpawn /\ drain' = drain
    <3>1. Starting /\ control = "spawn"
      BY <1>8, <2>2 DEF StartSpawn, SessionClean
    <3>2. rec' = [rec EXCEPT !.armed = FALSE, !.failed = TRUE] /\ control' = "unspawn"
      BY <1>3, <2>2, <3>1 DEF StartSpawn, Starting, NoDrain
    <3>3. rec'.failed /\ rec'.done = rec.done
      BY <3>2 DEF RecTypes, RecOK
    <3> QED
      BY <2>0, <2>2, <3>1, <3>2, <3>3 DEF SessionClean, Starting
  <2>3. CASE StartSpawn /\ drain' # drain
    <3>1. Starting
      BY <1>8, <2>3 DEF StartSpawn, SessionClean
    <3>2. DOMAIN file' = {} /\ drain'.next = 0 /\ rec' = rec /\ drain'.pending = <<>>
      BY <1>0, <1>4, <2>3, <3>1 DEF Starting
    <3>3. Tells(file', log', 0, rec'.failed)
      BY <3>2 DEF Tells, Faithful, Rises, Below, Covered
    <3>4. FileClean'
      BY <1>0, <1>4, <2>3, <3>2, <3>3 DEF FileClean, Tells
    <3>5. Draining'
      BY <1>4, <2>3, <3>1, <3>2, <3>4 DEF Draining, Starting
    <3> QED
      BY <1>4, <2>0, <2>3, <3>1, <3>2, <3>5 DEF SessionClean, Starting
  <2>4. CASE StartUnspawn
    <3>1. rec.failed /\ drain.pc = "off" /\ control' = "idle" /\ drain' = drain
      BY <1>8, <2>4 DEF StartUnspawn, SessionClean
    <3>2. rec'.failed = rec.failed
      BY <2>4 DEF StartUnspawn, RecTypes, RecOK
    <3> QED
      BY <2>0, <3>1, <3>2 DEF SessionClean
  <2> QED
    BY <2>1, <2>2, <2>3, <2>4
<1> QED
  BY <1>6, <1>7, <1>8

\* The other calls leave the session's file alone; one may fail it.
LEMMA CallStep ==
  ASSUME RecTypes, FlushWindow \/ Extend \/ ExtendMark \/ ExtendEnds \/ Stop
  PROVE  RecTypes' /\ (SlabClean => SlabClean') /\ (SessionClean => SessionClean')
<1>0. UNCHANGED <<slab, frame, drain, file, log, sessions>>
      /\ control' \notin {"arm", "spawn", "unspawn"}
  BY DEF FlushWindow, Extend, ExtendMark, ExtendEnds, Stop
<1>1. /\ DOMAIN rec' = DOMAIN rec /\ rec'.claim = rec.claim /\ rec'.written = rec.written
      /\ rec'.done = rec.done /\ (rec'.failed = rec.failed \/ rec'.failed = TRUE)
  BY DEF FlushWindow, Extend, ExtendMark, ExtendEnds, Stop, RecTypes, RecOK
<1>2. RecOK'
  BY <1>1 DEF RecTypes, RecOK
<1>3. ProducersOK' /\ \A q \in Producers : producer'[q] = producer[q] \/ producer'[q].pc = "enter"
  <2>1. CASE producer' = producer
    BY <2>1 DEF RecTypes, ProducersOK, ProducerOK
  <2>2. CASE ExtendMark
    <3> DEFINE fields == [Idle EXCEPT !.pc = "enter", !.todo = <<Marker("scope", 2)>>]
    <3>1. Marker("scope", 2) \in Events
      BY DEF Events
    <3>2. <<Marker("scope", 2)>> \in Seq(Events) /\ <<Marker("scope", 2)>> # <<>>
      BY <3>1
    <3>3. DOMAIN fields = {"pc", "todo", "slot", "complete", "context"}
          /\ fields.pc = "enter" /\ fields.todo = <<Marker("scope", 2)>> /\ fields.slot = 0
      BY DEF Idle
    <3> HIDE DEF fields
    <3>4. Inside(Control, fields) /\ Control \in Producers /\ ProducersOK
      BY <2>2 DEF ExtendMark, Inside, Producers, RecTypes, fields
    <3>5. fields.todo \in Seq(Events) /\ fields.todo # <<>> /\ fields.slot \in Nat
      BY <3>2, <3>3
    <3>6. ProducersOK' /\ producer'[Control] = fields
          /\ \A q \in Producers : q # Control => producer'[q] = producer[q]
      BY <3>3, <3>4, <3>5, InsideTyped
    <3> QED
      BY <3>3, <3>6
  <2> QED
    BY <2>1, <2>2 DEF FlushWindow, Extend, ExtendEnds, Stop
<1>4. LoadOK'
  <2>1. CASE load' = load
    BY <2>1 DEF RecTypes, LoadOK
  <2>2. CASE Extend
    BY <2>2 DEF Extend, RecTypes, LoadOK
  <2> QED
    BY <2>1, <2>2 DEF FlushWindow, ExtendMark, ExtendEnds, Stop
<1>5. RecTypes'
  BY <1>0, <1>2, <1>3, <1>4 DEF RecTypes, CountsOK, SlabOK, SlotOK, DrainOK, FilesOK
<1>6. SlabClean => SlabClean'
  BY <1>0, <1>1, <1>3 DEF SlabClean
<1>7. ASSUME SessionClean
      PROVE  SessionClean'
  <2>1. ASSUME drain.pc # "off"
        PROVE  Draining'
    <3>1. Draining /\ FileClean
      BY <1>7, <2>1 DEF SessionClean, Draining
    <3>2. FileClean'
      <4>1. CASE rec'.failed = rec.failed
        BY <1>0, <3>1, <4>1 DEF FileClean
      <4>2. CASE rec'.failed = TRUE
        BY <1>0, <3>1, <4>2 DEF FileClean, Tells, Holding
      <4> QED
        BY <1>1, <4>1, <4>2
    <3> QED
      BY <1>0, <1>1, <3>1, <3>2 DEF Draining
  <2>2. ~rec'.failed => rec'.failed = rec.failed
    BY <1>1
  <2>3. rec'.done /\ ~rec'.failed /\ sessions' > 0 => Ended'
    BY <1>0, <1>1, <1>7, <2>2 DEF SessionClean, Ended
  <2> QED
    BY <1>0, <1>7, <2>1, <2>3 DEF SessionClean
<1> QED
  BY <1>5, <1>6, <1>7

(***************************************************************************)
(* The trace is exact                                                      *)
(***************************************************************************)

LEMMA RecorderInit ==
  ASSUME RecInit
  PROVE  RecorderInv
<1>1. load \in Workloads
  BY DEF RecInit
<1>2. LoadOK
  <2>1. load = [threads |-> load.threads, sessions |-> load.sessions, events |-> load.events,
                values |-> load.values, frames |-> load.frames, registers |-> load.registers,
                contexts |-> load.contexts, faults |-> load.faults, adds |-> load.adds,
                readers |-> load.readers]
    BY <1>1, RecorderAssumption
  <2>2. DOMAIN load = {"threads", "sessions", "events", "values", "frames", "registers", "contexts",
                       "faults", "adds", "readers"}
    BY <2>1
  <2> QED
    BY <1>1, <2>2 DEF LoadOK
<1>3. ProducersOK /\ \A p \in Producers : producer[p].pc = "idle"
  <2>1. /\ DOMAIN Idle = {"pc", "todo", "slot", "complete", "context"}
        /\ Idle.pc = "idle" /\ Idle.todo = <<>> /\ Idle.slot = 0
    BY DEF Idle
  <2>2. <<>> \in Seq(Events)
    OBVIOUS
  <2>3. DOMAIN producer = Producers /\ \A p \in Producers : producer[p] = Idle
    BY DEF RecInit
  <2>4. ASSUME NEW p \in Producers
        PROVE  producer[p].pc = "idle" /\ ProducerOK(p)
    <3>1. producer[p] = Idle /\ 0 \in Nat
      BY <2>3
    <3> QED
      BY <2>1, <2>2, <3>1 DEF ProducerOK
  <2> QED
    BY <2>3, <2>4 DEF ProducersOK
<1>4. SlabOK /\ \A i \in DOMAIN slab : slab[i].tag = 0
  BY DEF RecInit, SlabOK, SlotOK
<1>5. RecOK /\ rec.claim = 0
  BY DEF RecInit, RecOK
<1>6. DrainOK /\ drain.pc = "off"
  <2>1. /\ DOMAIN NoDrain = {"pc", "next", "pending", "repeats", "broken"}
        /\ NoDrain.next = 0 /\ NoDrain.pending = <<>> /\ NoDrain.repeats = 0
        /\ NoDrain.broken \in BOOLEAN /\ NoDrain.pc = "off"
    BY DEF NoDrain
  <2>2. drain = NoDrain
    BY DEF RecInit
  <2> QED
    BY <2>1, <2>2 DEF DrainOK
<1>7. FilesOK /\ CountsOK /\ Len(log) = 0 /\ DOMAIN file = {} /\ sessions = 0 /\ control = "idle"
  BY DEF RecInit, FilesOK, CountsOK
<1>8. RecTypes
  BY <1>2, <1>3, <1>4, <1>5, <1>6, <1>7 DEF RecTypes
<1>9. SlabClean
  BY <1>3, <1>4, <1>5, <1>7 DEF SlabClean
<1>10. SessionClean
  BY <1>6, <1>7 DEF SessionClean, Rises
<1> QED
  BY <1>8, <1>9, <1>10 DEF RecorderInv

LEMMA RecorderStep ==
  ASSUME RecorderInv, RecNext
  PROVE  RecorderInv'
<1> USE DEF RecorderInv
<1>1. ASSUME NEW p \in load.threads, Capture(p) \/ CaptureContext(p)
      PROVE  RecorderInv'
  <2>1. clean' = clean
    BY <1>1 DEF Capture, CaptureContext, OnlyProducer
  <2> QED
    BY <1>1, <2>1, CaptureClean
<1>2. ASSUME NEW p \in Producers, Submits(p)
      PROVE  RecorderInv'
  <2>1. clean' = clean
    BY <1>2 DEF Submits, Enter, Count, Recheck, Reserve, Publish, Leave, NextEvent, OnlyProducer
  <2> QED
    BY <1>2, <2>1, SubmitTypes, SubmitSlab, SubmitSession
<1>3. CASE DrainStep
  <2>1. clean' = clean
    BY <1>3 DEF DrainStep, DrainHeader, DrainAbort, DrainLook, DrainTake, DrainGap, DrainGiveUp,
                DrainCaughtUp, DrainFinish, DrainBroken, DrainClose, OnlyDrain
  <2> QED
    BY <1>3, <2>1, DrainSteps
<1>4. CASE StartReset
  BY <1>4, ResetStep
<1>5. CASE StartArm \/ StartSpawn \/ StartUnspawn
  <2>1. clean' = clean
    BY <1>5 DEF StartArm, StartSpawn, StartUnspawn
  <2> QED
    BY <1>5, <2>1, SpawnStep
<1>6. CASE FlushWindow \/ Extend \/ ExtendMark \/ ExtendEnds \/ Stop
  <2>1. clean' = clean
    BY <1>6 DEF FlushWindow, Extend, ExtendMark, ExtendEnds, Stop
  <2> QED
    BY <1>6, <2>1, CallStep
<1> QED
  BY <1>1, <1>2, <1>3, <1>4, <1>5, <1>6 DEF RecNext, ControlStep

LEMMA RecorderKept ==
  ASSUME RecorderInv, UNCHANGED recvars
  PROVE  RecorderInv'
<1>1. RecTypes'
  BY DEF RecorderInv, recvars, RecTypes, LoadOK, CountsOK, ProducersOK, ProducerOK, SlabOK, SlotOK, RecOK,
         DrainOK, FilesOK
<1>2. SlabClean => SlabClean'
  BY DEF recvars, SlabClean
<1>3. SessionClean => SessionClean'
  BY DEF recvars, SessionClean, Draining, FileClean, Starting, Ended
<1> QED
  BY <1>1, <1>2, <1>3 DEF RecorderInv, recvars

LEMMA RecorderAlways == Spec => []RecorderInv
<1>1. Init => RecorderInv
  BY RecorderInit DEF Init
<1>2. RecorderInv /\ [Next]_vars => RecorderInv'
  <2> SUFFICES ASSUME RecorderInv, [Next]_vars
               PROVE  RecorderInv'
    OBVIOUS
  <2>1. CASE Record
    BY <2>1, RecorderStep DEF Record
  <2>2. CASE UNCHANGED recvars
    BY <2>2, RecorderKept
  <2>3. CASE Spill
    BY <2>2, <2>3 DEF Spill
  <2>4. ASSUME NEW r \in Readers, QueryStep(r)
        PROVE  UNCHANGED recvars
    BY <2>4 DEF QueryStep, Stat, Check, OpenTrace, Import, Restat, RemoveStale, Install, Validate, Page,
                Again, OnlyQuery
  <2> QED
    BY <2>1, <2>2, <2>3, <2>4 DEF Next, vars
<1> QED
  BY <1>1, <1>2, PTL DEF Spec

\* For any number of threads, any slab and any faults: while the drain thread
\* works, the file and the run it holds back are, number by number, the events
\* reserved under those numbers, as far as it has taken them; a session that ends
\* well has every event written in the file, under its number, and its stop marker
\* says how many they are (record.rs:1130-1350).  An event reserved behind the last
\* look at the claim counter is not among them.
THEOREM TraceTold == Spec => []TraceExact
<1>1. ASSUME RecorderInv
      PROVE  TraceExact
  <2> SUFFICES ASSUME clean
               PROVE  /\ Rises(file)
                      /\ drain.pc # "off" /\ ~drain.broken => Holds(Expanded(file \o HeldBack), drain.next)
                      /\ SessionState = "complete" =>
                           /\ Last(file).event = Marker("stop", rec.written)
                           /\ Holds(Expanded(file), rec.written)
    BY DEF TraceExact, Rises
  <2>0. /\ log \in Seq(Events) /\ file \in Seq(Records) /\ Len(log) \in Nat
        /\ drain.next \in Nat /\ drain.repeats \in Nat /\ rec.written \in Nat
        /\ rec.failed \in BOOLEAN
    BY <1>1, LenProperties DEF RecorderInv, RecTypes, FilesOK, DrainOK, RecOK
  <2>1. Rises(file)
    BY <1>1 DEF RecorderInv, SessionClean
  <2>2. ASSUME drain.pc # "off", ~drain.broken
        PROVE  Holds(Expanded(file \o HeldBack), drain.next)
    <3>1. FileClean
      BY <1>1, <2>2 DEF RecorderInv, SessionClean, Draining
    <3>2. Tells(file \o HeldBack, log, drain.next, rec.failed)
      <4>1. CASE drain.pending = <<>> \/ drain.pc = "close"
        <5>1. file \o HeldBack = file
          BY <2>0, <4>1, ConcatEmptySeq DEF HeldBack
        <5> QED
          BY <2>2, <3>1, <4>1, <5>1 DEF FileClean
      <4>2. CASE ~(drain.pending = <<>> \/ drain.pc = "close")
        <5>1. HeldBack = Run(Head(drain.pending), drain.repeats)
          BY <4>2 DEF HeldBack
        <5>2. /\ Head(drain.pending) \in Records /\ Head(drain.pending).event \in Events
              /\ Head(drain.pending).seq > 0
          BY <1>1, <4>2 DEF RecorderInv, RecTypes, DrainOK
        <5>3. Holding(Head(drain.pending), drain.repeats, drain.next, rec.failed, file, log)
          BY <2>2, <3>1, <4>2 DEF FileClean
        <5> QED
          BY <2>0, <5>1, <5>2, <5>3, RunTold
      <4> QED
        BY <4>1, <4>2
    <3>3. drain.next <= Len(log)
      BY <3>1 DEF FileClean
    <3> QED
      BY <2>0, <3>2, <3>3, TellsHolds DEF Tells
  <2>3. ASSUME SessionState = "complete"
        PROVE  /\ Last(file).event = Marker("stop", rec.written)
               /\ Holds(Expanded(file), rec.written)
    <3>1. rec.done /\ ~rec.failed /\ sessions > 0
      BY <2>3 DEF SessionState
    <3>2. Ended
      BY <1>1, <3>1 DEF RecorderInv, SessionClean
    <3> QED
      BY <2>0, <3>2, TellsHolds DEF Ended
  <2> QED
    BY <2>1, <2>2, <2>3
<1> QED
  BY <1>1, RecorderAlways, PTL

(***************************************************************************)
(* The frames of registers decode                                          *)
(***************************************************************************)

\* In a log l: the registers shown by the parts of the frame with header i, a
\* frame with all its parts, and the whole frames of p that give register r.
Framed(e) == e.kind \in {"header", "part"}
Shown(l, i) == {l[j].value[1] : j \in {k \in DOMAIN l : l[k].kind = "part" /\ l[k].frame = l[i].frame}}
Whole(l, i) == l[i].kind = "header" /\ Shown(l, i) = l[i].value.mask
Sources(l, p, r) == {j \in DOMAIN l : Whole(l, j) /\ l[j].thread = p /\ r \in l[j].value.mask}

\* The last of them up to i says v.
LastSays(l, p, r, i, v) ==
  \E j \in Sources(l, p, r) :
    j <= i /\ l[j].value.context[r] = v /\ \A k \in Sources(l, p, r) : k <= i => k <= j

\* A whole frame decodes to its context, and a part says what its header's
\* context has.
Decodes(l, p, i, R) == \A r \in R : LastSays(l, p, r, i, l[i].value.context[r])
Decoded(l, R) == \A i \in DOMAIN l : Whole(l, i) => Decodes(l, l[i].thread, i, R)
PartsTrue(l) ==
  \A i, j \in DOMAIN l :
    l[i].kind = "header" /\ l[j].kind = "part" /\ l[i].frame = l[j].frame =>
      l[j].value[2] = l[i].value.context[l[j].value[1]]

\* A thread w inside a frame; whether the fate of its current event is decided;
\* and the registers still to be submitted.
Open(w) == w.pc # "idle" /\ w.context # None
Number(w) == w.todo[1].frame
Settled(w) == w.pc \in {"publish", "leave", "next"}
DueRegisters(w) ==
  {w.todo[k].value[1] : k \in {j \in DOMAIN w.todo : w.todo[j].kind = "part" /\ (j > 1 \/ ~Settled(w))}}
HeaderDue(w) == ~Settled(w) /\ w.todo[1].kind = "header"

\* What it has to submit: the header if it is the first, and one part each.
TodoTrue(w, p) ==
  /\ \A k \in DOMAIN w.todo :
       /\ w.todo[k].thread = p /\ w.todo[k].frame = Number(w)
       /\ w.todo[k].kind = "part" \/ (k = 1 /\ w.todo[k].kind = "header")
       /\ w.todo[k].kind = "part" => w.todo[k].value[2] = w.context[w.todo[k].value[1]]
       /\ \A m \in DOMAIN w.todo :
            w.todo[k].kind = "part" /\ w.todo[m].kind = "part" /\ w.todo[k].value[1] = w.todo[m].value[1]
              => k = m
  /\ w.todo[1].kind = "header" =>
       /\ w.todo[1].value.context = w.context
       /\ w.todo[1].value.mask = {w.todo[k].value[1] : k \in {j \in DOMAIN w.todo : j > 1}}

\* The cached context c[p] has what the mask leaves out.
Agrees(c, p, mask, context, R) ==
  \A r \in R \ mask : p \in DOMAIN c /\ c[p] # None /\ c[p][r] = context[r]

\* Its header is in the log, as the last one of the thread ...
HeaderAt(l, w, p, i) ==
  /\ l[i].kind = "header" /\ l[i].thread = p /\ l[i].frame = Number(w) /\ l[i].value.context = w.context
  /\ \A j \in DOMAIN l :
       l[j].kind = "header" => (l[j].thread = p => j <= i) /\ (l[j].frame = Number(w) => j = i)

\* ... and so are its parts, but for those to come; or one is missing for ever.
PartsAt(l, w, i) ==
  IF w.complete
  THEN Shown(l, i) \union DueRegisters(w) = l[i].value.mask /\ Shown(l, i) \intersect DueRegisters(w) = {}
  ELSE ~(l[i].value.mask \subseteq Shown(l, i) \union DueRegisters(w))

Started(l, w, p, c, i, R) ==
  HeaderAt(l, w, p, i) /\ PartsAt(l, w, i) /\ Agrees(c, p, l[i].value.mask, w.context, R)

NoHeader(l, w) == \A k \in DOMAIN l : l[k].kind = "header" => l[k].frame # Number(w)

FrameTrue(l, w, p, c, R) ==
  /\ TodoTrue(w, p)
  /\ IF HeaderDue(w)
     THEN /\ w.complete /\ Agrees(c, p, w.todo[1].value.mask, w.context, R)
          /\ \A k \in DOMAIN l : Framed(l[k]) => l[k].frame # Number(w)
     ELSE \/ ~w.complete /\ NoHeader(l, w)
          \/ \E i \in DOMAIN l : Started(l, w, p, c, i, R)

\* All its parts are in the log: what is left is to make it the cached context,
\* which until then is what a reader has after the last whole frame.
Finished(l, w) == Open(w) /\ \E i \in DOMAIN l : Whole(l, i) /\ l[i].frame = Number(w)
Based(l, w, p, c, R) ==
  p \in DOMAIN c /\ c[p] # None /\ ~Finished(l, w) => \A r \in R : LastSays(l, p, r, Len(l), c[p][r])

ThreadTrue(l, w, p, c, n, R) ==
  /\ w.pc # "idle" /\ ~Open(w) => \A k \in DOMAIN w.todo : ~Framed(w.todo[k])
  /\ Open(w) => Number(w) <= n /\ FrameTrue(l, w, p, c, R)
  /\ Based(l, w, p, c, R)

\* The frames of a log l, with the threads f, their cached contexts c and the
\* last number n.
FramesTrue(l, f, c, n, R) ==
  /\ Decoded(l, R) /\ PartsTrue(l)
  /\ \A k \in DOMAIN l : Framed(l[k]) => l[k].frame <= n
  /\ \A p \in Producers : ThreadTrue(l, f[p], p, c, n, R)
  /\ \A p, q \in Producers : p # q /\ Open(f[p]) /\ Open(f[q]) => Number(f[p]) # Number(f[q])
FramesClean == FramesTrue(log, producer, cache, frame, load.registers)
SnapshotsInv == RecTypes /\ (clean => FramesClean)

(***************************************************************************)
(* Frames in a growing log                                                 *)
(***************************************************************************)

\* Log m is l with e at its end.
Longer(l, m, e) ==
  /\ Len(l) \in Nat /\ DOMAIN l = 1..Len(l)
  /\ Len(m) = Len(l) + 1 /\ DOMAIN m = 1..(Len(l) + 1)
  /\ \A k \in DOMAIN l : m[k] = l[k]
  /\ m[Len(l) + 1] = e

LEMMA AppendLonger ==
  ASSUME NEW l \in Seq(Events), NEW e \in Events
  PROVE  Longer(l, Append(l, e), e)
<1>1. Len(l) \in Nat /\ DOMAIN l = 1..Len(l)
  BY LenProperties
<1>2. Append(l, e) \in Seq(Events) /\ Len(Append(l, e)) = Len(l) + 1
      /\ \A k \in 1..Len(l) : Append(l, e)[k] = l[k]
  BY AppendProperties
<1>3. Append(l, e)[Len(l) + 1] = e
  BY AppendProperties
<1>4. DOMAIN Append(l, e) = 1..Len(Append(l, e))
  BY <1>2, LenProperties
<1> QED
  BY <1>1, <1>2, <1>3, <1>4 DEF Longer

LEMMA ShownIs ==
  ASSUME NEW l, NEW i, NEW r
  PROVE  r \in Shown(l, i) <=>
           \E k \in DOMAIN l : l[k].kind = "part" /\ l[k].frame = l[i].frame /\ l[k].value[1] = r
  BY DEF Shown

\* A part of another frame, or no part, shows nothing of frame i.
LEMMA ShownKept ==
  ASSUME NEW l, NEW m, NEW e, Longer(l, m, e), NEW i \in DOMAIN l,
         ~(e.kind = "part" /\ e.frame = l[i].frame)
  PROVE  Shown(m, i) = Shown(l, i) /\ (Whole(m, i) <=> Whole(l, i))
<1>1. m[i] = l[i]
  BY DEF Longer
<1>2. \A r : r \in Shown(m, i) <=> r \in Shown(l, i)
  <2> TAKE r
  <2>1. ASSUME NEW k \in DOMAIN m, m[k].kind = "part", m[k].frame = m[i].frame, m[k].value[1] = r
        PROVE  r \in Shown(l, i)
    <3>1. k \in DOMAIN l
      BY <1>1, <2>1 DEF Longer
    <3>2. m[k] = l[k]
      BY <3>1 DEF Longer
    <3> QED
      BY <1>1, <2>1, <3>1, <3>2, ShownIs
  <2>2. ASSUME NEW k \in DOMAIN l, l[k].kind = "part", l[k].frame = l[i].frame, l[k].value[1] = r
        PROVE  r \in Shown(m, i)
    <3>1. k \in DOMAIN m /\ m[k] = l[k]
      BY DEF Longer
    <3> QED
      BY <1>1, <2>2, <3>1, ShownIs
  <2> QED
    BY <2>1, <2>2, ShownIs
<1>3. Shown(m, i) = Shown(l, i)
  BY <1>2
<1> QED
  BY <1>1, <1>3 DEF Whole

\* A part of its frame shows one more register.
LEMMA ShownMore ==
  ASSUME NEW l, NEW m, NEW e, Longer(l, m, e), NEW i \in DOMAIN l,
         e.kind = "part", e.frame = l[i].frame
  PROVE  Shown(m, i) = Shown(l, i) \union {e.value[1]}
<1>1. m[i] = l[i]
  BY DEF Longer
<1>2. \A r : r \in Shown(m, i) <=> r \in Shown(l, i) \/ r = e.value[1]
  <2> TAKE r
  <2>1. ASSUME NEW k \in DOMAIN m, m[k].kind = "part", m[k].frame = m[i].frame, m[k].value[1] = r
        PROVE  r \in Shown(l, i) \/ r = e.value[1]
    <3>1. CASE k \in DOMAIN l
      <4>1. m[k] = l[k]
        BY <3>1 DEF Longer
      <4> QED
        BY <1>1, <2>1, <3>1, <4>1, ShownIs
    <3>2. CASE k \notin DOMAIN l
      <4>1. k = Len(l) + 1
        BY <3>2 DEF Longer
      <4> QED
        BY <2>1, <4>1 DEF Longer
    <3> QED
      BY <3>1, <3>2
  <2>2. ASSUME NEW k \in DOMAIN l, l[k].kind = "part", l[k].frame = l[i].frame, l[k].value[1] = r
        PROVE  r \in Shown(m, i)
    <3>1. k \in DOMAIN m /\ m[k] = l[k]
      BY DEF Longer
    <3> QED
      BY <1>1, <2>2, <3>1, ShownIs
  <2>3. ASSUME r = e.value[1]
        PROVE  r \in Shown(m, i)
    <3> DEFINE t == Len(l) + 1
    <3>1. t \in DOMAIN m /\ m[t] = e
      BY DEF Longer
    <3> HIDE DEF t
    <3> QED
      BY <1>1, <2>3, <3>1, ShownIs
  <2> QED
    BY <2>1, <2>2, <2>3, ShownIs
<1> QED
  BY <1>2

\* A new header has no parts.
LEMMA ShownNone ==
  ASSUME NEW l, NEW m, NEW e, Longer(l, m, e), e.kind = "header",
         \A k \in DOMAIN l : l[k].kind = "part" => l[k].frame # e.frame
  PROVE  Shown(m, Len(l) + 1) = {}
<1> DEFINE t == Len(l) + 1
<1>1. t \in DOMAIN m /\ m[t] = e
  BY DEF Longer
<1>2. ASSUME NEW k \in DOMAIN m, m[k].kind = "part", m[k].frame = e.frame
      PROVE  FALSE
  <2>1. CASE k \in DOMAIN l
    <3>1. m[k] = l[k]
      BY <2>1 DEF Longer
    <3> QED
      BY <1>2, <2>1, <3>1
  <2>2. CASE k \notin DOMAIN l
    <3>1. k = t
      BY <2>2 DEF Longer
    <3> QED
      BY <1>1, <1>2, <3>1
  <2> QED
    BY <2>1, <2>2
<1> HIDE DEF t
<1>3. \A r : r \notin Shown(m, t)
  BY <1>1, <1>2, ShownIs
<1>4. Shown(m, t) = {}
  BY <1>3
<1> QED
  BY <1>4 DEF t

\* The new event makes no frame whole but i.
Touches(l, m, e, i) ==
  /\ Longer(l, m, e)
  /\ i \in DOMAIN m
  /\ \A j \in DOMAIN l : j # i /\ l[j].kind = "header" => ~(e.kind = "part" /\ e.frame = l[j].frame)
  /\ i \in DOMAIN l => ~Whole(l, i) /\ e.kind # "header"

LEMMA SourcesGrow ==
  ASSUME NEW l, NEW m, NEW e, NEW i, Touches(l, m, e, i)
  PROVE  /\ \A j \in DOMAIN m : j # i => (Whole(m, j) <=> j \in DOMAIN l /\ Whole(l, j))
         /\ \A q, r : Sources(l, q, r) = Sources(m, q, r) \ {i}
<1>1. ASSUME NEW j \in DOMAIN m, j # i
      PROVE  Whole(m, j) <=> j \in DOMAIN l /\ Whole(l, j)
  <2>1. CASE j \notin DOMAIN l
    <3>1. m[j] = e
      BY <2>1 DEF Touches, Longer
    <3>2. i \in DOMAIN l
      BY <1>1, <2>1 DEF Touches, Longer
    <3> QED
      BY <2>1, <3>1, <3>2 DEF Touches, Whole
  <2>2. CASE j \in DOMAIN l /\ l[j].kind = "header"
    <3>1. ~(e.kind = "part" /\ e.frame = l[j].frame) /\ Longer(l, m, e)
      BY <1>1, <2>2 DEF Touches
    <3> QED
      BY <2>2, <3>1, ShownKept
  <2>3. CASE j \in DOMAIN l /\ l[j].kind # "header"
    <3>1. m[j] = l[j]
      BY <2>3 DEF Touches, Longer
    <3> QED
      BY <2>3, <3>1 DEF Whole
  <2> QED
    BY <2>1, <2>2, <2>3
<1>2. ASSUME NEW q, NEW r
      PROVE  Sources(l, q, r) = Sources(m, q, r) \ {i}
  <2>1. ASSUME NEW j \in DOMAIN l
        PROVE  j \in DOMAIN m /\ m[j] = l[j]
    BY DEF Touches, Longer
  <2>2. ASSUME NEW j \in Sources(l, q, r)
        PROVE  j \in Sources(m, q, r) /\ j # i
    <3>1. j # i
      BY DEF Sources, Touches
    <3> QED
      BY <1>1, <2>1, <3>1 DEF Sources
  <2>3. ASSUME NEW j \in Sources(m, q, r), j # i
        PROVE  j \in Sources(l, q, r)
    BY <1>1, <2>1, <2>3 DEF Sources
  <2> QED
    BY <2>2, <2>3
<1> QED
  BY <1>1, <1>2

\* What the last source says stays, up to a place with the same sources.
LEMMA LastKept ==
  ASSUME NEW l, NEW m, NEW e, NEW i, Touches(l, m, e, i), NEW q, NEW r, NEW n, NEW n2, NEW v,
         LastSays(l, q, r, n, v),
         i \notin Sources(m, q, r) \/ ~(i <= n2),
         \A k \in Sources(l, q, r) : k <= n <=> k <= n2
  PROVE  LastSays(m, q, r, n2, v)
<1>1. PICK j \in Sources(l, q, r) :
        j <= n /\ l[j].value.context[r] = v /\ \A k \in Sources(l, q, r) : k <= n => k <= j
  BY DEF LastSays
<1>2. Sources(l, q, r) = Sources(m, q, r) \ {i}
  BY SourcesGrow
<1>3. j \in Sources(m, q, r) /\ j <= n2
  BY <1>1, <1>2
<1>4. m[j] = l[j]
  BY DEF Sources, Touches, Longer
<1>5. \A k \in Sources(m, q, r) : k <= n2 => k <= j
  BY <1>1, <1>2
<1> QED
  BY <1>1, <1>3, <1>4, <1>5 DEF LastSays

\* A log in which every whole frame decodes still does when frame i of thread p
\* has become whole: the last source of a register it leaves out says what the
\* cached context has.
LEMMA DecodedGrows ==
  ASSUME NEW l, NEW m, NEW e, NEW i, Touches(l, m, e, i),
         NEW p, NEW w, NEW c, NEW R, Decoded(l, R), Based(l, w, p, c, R),
         m[i].kind = "header" =>
           /\ m[i].thread = p /\ ~Finished(l, w)
           /\ \A j \in DOMAIN m : m[j].kind = "header" /\ m[j].thread = p => j <= i
           /\ Agrees(c, p, m[i].value.mask, m[i].value.context, R)
  PROVE  Decoded(m, R)
<1> SUFFICES ASSUME NEW j \in DOMAIN m, Whole(m, j), NEW r \in R
             PROVE  LastSays(m, m[j].thread, r, j, m[j].value.context[r])
  BY DEF Decoded, Decodes
<1>0. /\ Len(l) \in Nat /\ DOMAIN l = 1..Len(l) /\ DOMAIN m = 1..(Len(l) + 1)
      /\ \A k \in DOMAIN l : m[k] = l[k]
  BY DEF Touches, Longer
<1>1. i \in Nat /\ j \in Nat /\ i \in DOMAIN m
  BY <1>0 DEF Touches
<1>2. CASE j # i
  <2>1. j \in DOMAIN l /\ Whole(l, j) /\ m[j] = l[j]
    BY <1>0, <1>2, SourcesGrow
  <2>2. LastSays(l, m[j].thread, r, j, m[j].value.context[r])
    BY <2>1 DEF Decoded, Decodes
  <2>3. i \notin Sources(m, m[j].thread, r) \/ ~(i <= j)
    <3>1. SUFFICES ASSUME i \in Sources(m, m[j].thread, r)
                   PROVE  ~(i <= j)
      OBVIOUS
    <3>2. m[i].kind = "header" /\ m[i].thread = m[j].thread
      BY <3>1 DEF Sources, Whole
    <3>3. m[j].kind = "header"
      BY DEF Whole
    <3>4. j <= i
      BY <3>2, <3>3
    <3> QED
      BY <1>1, <1>2, <3>4
  <2> QED
    BY <2>2, <2>3, LastKept
<1>3. CASE j = i
  <2>1. /\ m[i].kind = "header" /\ m[i].thread = p /\ ~Finished(l, w)
        /\ \A k \in DOMAIN m : m[k].kind = "header" /\ m[k].thread = p => k <= i
        /\ Agrees(c, p, m[i].value.mask, m[i].value.context, R)
    BY <1>3 DEF Whole
  <2>2. CASE r \in m[i].value.mask
    <3>1. i \in Sources(m, p, r)
      BY <1>1, <1>3, <2>1, <2>2 DEF Sources
    <3>2. i <= i
      BY <1>1
    <3> QED
      BY <1>3, <2>1, <3>1, <3>2 DEF LastSays
  <2>3. CASE r \notin m[i].value.mask
    <3>1. p \in DOMAIN c /\ c[p] # None /\ c[p][r] = m[i].value.context[r]
      BY <2>1, <2>3 DEF Agrees
    <3>2. LastSays(l, p, r, Len(l), c[p][r])
      BY <2>1, <3>1 DEF Based
    <3>3. i \notin Sources(m, p, r)
      BY <2>3 DEF Sources
    <3>4. \A k \in Sources(l, p, r) : k <= Len(l) <=> k <= i
      <4> SUFFICES ASSUME NEW k \in Sources(l, p, r)
                   PROVE  k <= Len(l) /\ k <= i
        OBVIOUS
      <4>1. k \in DOMAIN l /\ m[k] = l[k] /\ l[k].kind = "header" /\ l[k].thread = p
        BY <1>0 DEF Sources, Whole
      <4>2. k \in DOMAIN m
        BY <1>0, <4>1
      <4> QED
        BY <1>0, <2>1, <4>1, <4>2
    <3>5. LastSays(m, p, r, i, c[p][r])
      BY <3>2, <3>3, <3>4, LastKept
    <3> QED
      BY <1>3, <2>1, <3>1, <3>5
  <2> QED
    BY <2>2, <2>3
<1> QED
  BY <1>2, <1>3

\* The cached context of thread q stays the one a reader has.
LEMMA BasedGrows ==
  ASSUME NEW l, NEW m, NEW e, NEW i, Touches(l, m, e, i),
         NEW q, NEW w, NEW v, NEW c, NEW R, Based(l, w, q, c, R),
         Finished(l, w) => Finished(m, v),
         ~Finished(m, v) => \A r \in R : i \notin Sources(m, q, r)
  PROVE  Based(m, v, q, c, R)
<1> SUFFICES ASSUME q \in DOMAIN c, c[q] # None, ~Finished(m, v), NEW r \in R
             PROVE  LastSays(m, q, r, Len(m), c[q][r])
  BY DEF Based
<1>1. LastSays(l, q, r, Len(l), c[q][r])
  BY DEF Based
<1>2. \A k \in Sources(l, q, r) : k <= Len(l) <=> k <= Len(m)
  BY DEF Sources, Touches, Longer
<1> QED
  BY <1>1, <1>2, LastKept

(***************************************************************************)
(* A thread inside a frame                                                 *)
(***************************************************************************)

\* A thread moves inside submit: with the same event, past an event that is
\* dropped or logged, to the next event of its frame.
Goes(w, v) ==
  /\ w.pc # "idle" /\ v.pc # "idle" /\ v.context = w.context
  /\ w.todo \in Seq(Events) /\ w.todo # <<>>
Same(w, v) == Goes(w, v) /\ v.todo = w.todo /\ v.complete = w.complete /\ (Settled(v) <=> Settled(w))
Drops(w, v) == Goes(w, v) /\ v.todo = w.todo /\ ~v.complete /\ ~Settled(w) /\ Settled(v)
Logs(w, v) == Goes(w, v) /\ v.todo = w.todo /\ v.complete = w.complete /\ ~Settled(w) /\ Settled(v)
More(w, v) ==
  /\ Goes(w, v) /\ v.todo = Tail(w.todo) /\ v.complete = w.complete
  /\ Settled(w) /\ ~Settled(v) /\ Len(w.todo) > 1

LEMMA DueIs ==
  ASSUME NEW w, NEW r
  PROVE  r \in DueRegisters(w) <=>
           \E k \in DOMAIN w.todo :
             w.todo[k].kind = "part" /\ (k > 1 \/ ~Settled(w)) /\ w.todo[k].value[1] = r
  BY DEF DueRegisters

LEMMA SameThread ==
  ASSUME NEW l, NEW w, NEW v, NEW p, NEW c, NEW n, NEW R, Same(w, v), ThreadTrue(l, w, p, c, n, R)
  PROVE  ThreadTrue(l, v, p, c, n, R)
<1>1. /\ v.pc # "idle" /\ w.pc # "idle" /\ v.todo = w.todo /\ v.context = w.context
      /\ v.complete = w.complete /\ (Settled(v) <=> Settled(w))
  BY DEF Same, Goes
<1>2. Number(v) = Number(w) /\ (Open(v) <=> Open(w)) /\ (HeaderDue(v) <=> HeaderDue(w))
  BY <1>1 DEF Number, Open, HeaderDue
<1>3. DueRegisters(v) = DueRegisters(w)
  <2>1. ASSUME NEW r PROVE r \in DueRegisters(v) <=> r \in DueRegisters(w)
    BY <1>1, DueIs
  <2> QED
    BY <2>1
<1>4. TodoTrue(w, p) => TodoTrue(v, p)
  BY <1>1, <1>2 DEF TodoTrue
<1>5. NoHeader(l, w) => NoHeader(l, v)
  BY <1>2 DEF NoHeader
<1>6. \A i \in DOMAIN l : Started(l, w, p, c, i, R) => Started(l, v, p, c, i, R)
  BY <1>1, <1>2, <1>3 DEF Started, HeaderAt, PartsAt
<1>7. FrameTrue(l, w, p, c, R) => FrameTrue(l, v, p, c, R)
  BY <1>1, <1>2, <1>4, <1>5, <1>6 DEF FrameTrue
<1>8. Finished(l, v) <=> Finished(l, w)
  BY <1>2 DEF Finished
<1> QED
  BY <1>1, <1>2, <1>7, <1>8 DEF ThreadTrue, Based

\* After an event was decided: the other registers are due.
LEMMA DecidedDue ==
  ASSUME NEW w, NEW v, NEW p, Drops(w, v) \/ Logs(w, v), TodoTrue(w, p)
  PROVE  /\ 1 \in DOMAIN w.todo
         /\ w.todo[1].kind = "part" =>
              /\ w.todo[1].value[1] \in DueRegisters(w)
              /\ DueRegisters(v) = DueRegisters(w) \ {w.todo[1].value[1]}
         /\ w.todo[1].kind = "header" => DueRegisters(v) = w.todo[1].value.mask
<1>1. /\ v.todo = w.todo /\ ~Settled(w) /\ Settled(v)
      /\ w.todo \in Seq(Events) /\ w.todo # <<>>
  BY DEF Drops, Logs, Goes
<1>2. DOMAIN w.todo = 1..Len(w.todo) /\ Len(w.todo) \in Nat /\ Len(w.todo) # 0
  BY <1>1, LenProperties, EmptySeq
<1>3. 1 \in DOMAIN w.todo
  BY <1>2
<1>4. \A k \in DOMAIN w.todo : k # 1 <=> k > 1
  BY <1>2
<1>5. ASSUME w.todo[1].kind = "part"
      PROVE  /\ w.todo[1].value[1] \in DueRegisters(w)
             /\ DueRegisters(v) = DueRegisters(w) \ {w.todo[1].value[1]}
  <2>1. w.todo[1].value[1] \in DueRegisters(w)
    BY <1>1, <1>3, <1>5, DueIs
  <2>2. ASSUME NEW r
        PROVE  r \in DueRegisters(v) <=> r \in DueRegisters(w) /\ r # w.todo[1].value[1]
    <3>1. r \in DueRegisters(v) <=>
            \E k \in DOMAIN w.todo : w.todo[k].kind = "part" /\ k # 1 /\ w.todo[k].value[1] = r
      BY <1>1, <1>4, DueIs
    <3>2. r \in DueRegisters(w) <=>
            \E k \in DOMAIN w.todo : w.todo[k].kind = "part" /\ w.todo[k].value[1] = r
      BY <1>1, DueIs
    <3>3. \A k \in DOMAIN w.todo :
            w.todo[k].kind = "part" => (k = 1 <=> w.todo[k].value[1] = w.todo[1].value[1])
      BY <1>3, <1>5 DEF TodoTrue
    <3> QED
      BY <3>1, <3>2, <3>3
  <2> QED
    BY <2>1, <2>2
<1>6. ASSUME w.todo[1].kind = "header"
      PROVE  DueRegisters(v) = w.todo[1].value.mask
  <2>1. w.todo[1].value.mask = {w.todo[k].value[1] : k \in {j \in DOMAIN w.todo : j > 1}}
    BY <1>6 DEF TodoTrue
  <2>2. \A k \in DOMAIN w.todo : k > 1 => w.todo[k].kind = "part"
    BY <1>2 DEF TodoTrue
  <2>3. ASSUME NEW r
        PROVE  r \in DueRegisters(v) <=> \E k \in DOMAIN w.todo : k > 1 /\ w.todo[k].value[1] = r
    BY <1>1, <2>2, DueIs
  <2> QED
    BY <2>1, <2>3
<1> QED
  BY <1>3, <1>5, <1>6

LEMMA DropThread ==
  ASSUME NEW l, NEW w, NEW v, NEW p, NEW c, NEW n, NEW R, Drops(w, v), ThreadTrue(l, w, p, c, n, R)
  PROVE  ThreadTrue(l, v, p, c, n, R)
<1>1. /\ v.pc # "idle" /\ w.pc # "idle" /\ v.todo = w.todo /\ v.context = w.context
      /\ ~v.complete /\ ~Settled(w) /\ Settled(v)
  BY DEF Drops, Goes
<1>2. Number(v) = Number(w) /\ (Open(v) <=> Open(w)) /\ ~HeaderDue(v)
  BY <1>1 DEF Number, Open, HeaderDue
<1>3. Finished(l, v) <=> Finished(l, w)
  BY <1>2 DEF Finished
<1>4. ASSUME FrameTrue(l, w, p, c, R)
      PROVE  FrameTrue(l, v, p, c, R)
  <2>1. TodoTrue(v, p) /\ TodoTrue(w, p)
    BY <1>1, <1>2, <1>4 DEF TodoTrue, FrameTrue
  <2>2. CASE HeaderDue(w)
    <3>1. NoHeader(l, v)
      BY <1>2, <1>4, <2>2 DEF FrameTrue, NoHeader, Framed
    <3> QED
      BY <1>1, <1>2, <2>1, <3>1 DEF FrameTrue
  <2>3. CASE ~HeaderDue(w) /\ NoHeader(l, w)
    <3>1. NoHeader(l, v)
      BY <1>2, <2>3 DEF NoHeader
    <3> QED
      BY <1>1, <1>2, <2>1, <3>1 DEF FrameTrue
  <2>4. ASSUME ~HeaderDue(w), NEW i \in DOMAIN l, Started(l, w, p, c, i, R)
        PROVE  FrameTrue(l, v, p, c, R)
    <3>1. w.todo[1].kind = "part"
      <4>1. 1 \in DOMAIN w.todo
        BY <2>1, DecidedDue
      <4> QED
        BY <1>1, <2>1, <2>4, <4>1 DEF HeaderDue, TodoTrue
    <3>2. /\ w.todo[1].value[1] \in DueRegisters(w)
          /\ DueRegisters(v) = DueRegisters(w) \ {w.todo[1].value[1]}
      BY <2>1, <3>1, DecidedDue
    <3>3. HeaderAt(l, v, p, i) /\ Agrees(c, p, l[i].value.mask, v.context, R)
      BY <1>1, <1>2, <2>4 DEF Started, HeaderAt
    <3>4. PartsAt(l, v, i)
      <4>1. PartsAt(l, w, i)
        BY <2>4 DEF Started
      <4>2. ~(l[i].value.mask \subseteq Shown(l, i) \union DueRegisters(v))
        BY <3>2, <4>1 DEF PartsAt
      <4> QED
        BY <1>1, <4>2 DEF PartsAt
    <3>5. Started(l, v, p, c, i, R)
      BY <3>3, <3>4 DEF Started
    <3> QED
      BY <1>2, <2>1, <3>5 DEF FrameTrue
  <2> QED
    BY <1>4, <2>2, <2>3, <2>4 DEF FrameTrue
<1> QED
  BY <1>1, <1>2, <1>3, <1>4 DEF ThreadTrue, Based

LEMMA MoreThread ==
  ASSUME NEW l, NEW w, NEW v, NEW p, NEW c, NEW n, NEW R, More(w, v), ThreadTrue(l, w, p, c, n, R)
  PROVE  ThreadTrue(l, v, p, c, n, R) /\ (Open(w) => Number(v) = Number(w))
<1>1. /\ v.pc # "idle" /\ w.pc # "idle" /\ v.todo = Tail(w.todo) /\ v.context = w.context
      /\ v.complete = w.complete /\ Settled(w) /\ ~Settled(v)
      /\ w.todo \in Seq(Events) /\ w.todo # <<>> /\ Len(w.todo) > 1
  BY DEF More, Goes
<1>2. /\ Len(w.todo) \in Nat /\ DOMAIN w.todo = 1..Len(w.todo)
      /\ DOMAIN v.todo = 1..(Len(w.todo) - 1) /\ 1 \in DOMAIN v.todo /\ 2 \in DOMAIN w.todo
      /\ \A k \in DOMAIN v.todo : v.todo[k] = w.todo[k + 1] /\ k + 1 \in DOMAIN w.todo
  <2>1. Len(w.todo) \in Nat /\ DOMAIN w.todo = 1..Len(w.todo)
    BY <1>1, LenProperties
  <2>2. v.todo \in Seq(Events) /\ Len(v.todo) = Len(w.todo) - 1
        /\ \A k \in 1..Len(v.todo) : v.todo[k] = w.todo[k + 1]
    BY <1>1, HeadTailProperties
  <2>3. DOMAIN v.todo = 1..(Len(w.todo) - 1)
    BY <2>2, LenProperties
  <2> QED
    BY <1>1, <2>1, <2>2, <2>3
<1>3. (Open(v) <=> Open(w)) /\ ~HeaderDue(w)
  BY <1>1 DEF Open, HeaderDue
<1>4. ASSUME FrameTrue(l, w, p, c, R)
      PROVE  FrameTrue(l, v, p, c, R) /\ Number(v) = Number(w)
  <2>0. TodoTrue(w, p)
    BY <1>4 DEF FrameTrue
  <2>1. Number(v) = Number(w)
    BY <1>2, <2>0 DEF TodoTrue, Number
  <2>2. \A k \in DOMAIN v.todo : v.todo[k].kind = "part"
    <3> SUFFICES ASSUME NEW k \in DOMAIN v.todo
                 PROVE  v.todo[k].kind = "part"
      OBVIOUS
    <3>1. v.todo[k] = w.todo[k + 1] /\ k + 1 \in DOMAIN w.todo /\ k + 1 # 1
      BY <1>2
    <3> QED
      BY <2>0, <3>1 DEF TodoTrue
  <2>3. TodoTrue(v, p)
    <3>1. ASSUME NEW k \in DOMAIN v.todo
          PROVE  /\ v.todo[k].thread = p /\ v.todo[k].frame = Number(v)
                 /\ v.todo[k].value[2] = v.context[v.todo[k].value[1]]
                 /\ \A m \in DOMAIN v.todo : v.todo[k].value[1] = v.todo[m].value[1] => k = m
      <4>1. v.todo[k] = w.todo[k + 1] /\ k + 1 \in DOMAIN w.todo /\ w.todo[k + 1].kind = "part" /\ k \in Nat
        BY <1>2, <2>2
      <4>2. /\ v.todo[k].thread = p /\ v.todo[k].frame = Number(v)
            /\ v.todo[k].value[2] = v.context[v.todo[k].value[1]]
        BY <1>1, <2>0, <2>1, <4>1 DEF TodoTrue
      <4>3. ASSUME NEW m \in DOMAIN v.todo, v.todo[k].value[1] = v.todo[m].value[1]
            PROVE  k = m
        <5>1. v.todo[m] = w.todo[m + 1] /\ m + 1 \in DOMAIN w.todo /\ w.todo[m + 1].kind = "part" /\ m \in Nat
          BY <1>2, <2>2
        <5>2. k + 1 = m + 1
          BY <2>0, <4>1, <4>3, <5>1 DEF TodoTrue
        <5> QED
          BY <4>1, <5>1, <5>2
      <4> QED
        BY <4>2, <4>3
    <3>2. v.todo[1].kind # "header"
      BY <1>2, <2>2
    <3> QED
      BY <2>2, <3>1, <3>2 DEF TodoTrue
  <2>4. DueRegisters(v) = DueRegisters(w)
    <3> SUFFICES ASSUME NEW r
                 PROVE  r \in DueRegisters(v) <=> r \in DueRegisters(w)
      OBVIOUS
    <3>1. ASSUME NEW k \in DOMAIN v.todo, v.todo[k].value[1] = r
          PROVE  r \in DueRegisters(w)
      <4> DEFINE j == k + 1
      <4>1. j \in DOMAIN w.todo /\ j > 1 /\ w.todo[j] = v.todo[k] /\ w.todo[j].kind = "part"
        BY <1>2, <2>2
      <4> HIDE DEF j
      <4> QED
        BY <3>1, <4>1, DueIs
    <3>2. ASSUME NEW k \in DOMAIN w.todo, k > 1, w.todo[k].value[1] = r
          PROVE  r \in DueRegisters(v)
      <4> DEFINE j == k - 1
      <4>1. j \in DOMAIN v.todo /\ j + 1 = k
        BY <1>2, <3>2
      <4>2. v.todo[j] = w.todo[k] /\ v.todo[j].kind = "part"
        BY <1>2, <2>2, <4>1
      <4> HIDE DEF j
      <4> QED
        BY <1>1, <3>2, <4>1, <4>2, DueIs
    <3> QED
      BY <1>1, <3>1, <3>2, DueIs
  <2>5. ~HeaderDue(v)
    BY <1>2, <2>2 DEF HeaderDue
  <2>6. NoHeader(l, w) => NoHeader(l, v)
    BY <2>1 DEF NoHeader
  <2>7. \A i \in DOMAIN l : Started(l, w, p, c, i, R) => Started(l, v, p, c, i, R)
    BY <1>1, <2>1, <2>4 DEF Started, HeaderAt, PartsAt
  <2>8. FrameTrue(l, v, p, c, R)
    BY <1>1, <1>3, <1>4, <2>3, <2>5, <2>6, <2>7 DEF FrameTrue
  <2> QED
    BY <2>1, <2>8
<1>5. Open(w) => (Finished(l, v) <=> Finished(l, w))
  BY <1>3, <1>4 DEF Finished, ThreadTrue
<1>6. ~Open(w) => ~Finished(l, v) /\ ~Finished(l, w)
  BY <1>3 DEF Finished
<1>7. ~Open(w) => \A k \in DOMAIN v.todo : ~Framed(v.todo[k])
  BY <1>1, <1>2 DEF ThreadTrue
<1>8. Based(l, v, p, c, R)
  BY <1>5, <1>6 DEF ThreadTrue, Based
<1> QED
  BY <1>1, <1>3, <1>4, <1>7, <1>8 DEF ThreadTrue

\* The frame ends: whole, it becomes the cached context.
LEMMA EndThread ==
  ASSUME NEW l, NEW w, NEW v, NEW p, NEW c, NEW d, NEW n, NEW R, ThreadTrue(l, w, p, c, n, R),
         Decoded(l, R), Len(l) \in Nat, DOMAIN l = 1..Len(l),
         Settled(w), w.todo \in Seq(Events), Len(w.todo) = 1, v.pc = "idle",
         IF w.context # None /\ p \in DOMAIN c /\ w.complete
         THEN DOMAIN d = DOMAIN c /\ d[p] = w.context ELSE d = c
  PROVE  ThreadTrue(l, v, p, d, n, R)
<1>1. ~Open(v) /\ ~Finished(l, v)
  BY DEF Open, Finished
<1>2. w.pc # "idle" /\ ~HeaderDue(w)
  BY DEF Settled, HeaderDue
<1>3. DueRegisters(w) = {}
  <2>1. \A k \in DOMAIN w.todo : ~(k > 1)
    BY LenProperties
  <2> QED
    BY <2>1, DueIs
<1>4. CASE Open(w) /\ p \in DOMAIN c /\ w.complete
  <2>1. DOMAIN d = DOMAIN c /\ d[p] = w.context
    BY <1>4 DEF Open
  <2>2. PICK i \in DOMAIN l : Started(l, w, p, c, i, R)
    BY <1>2, <1>4 DEF ThreadTrue, FrameTrue
  <2>3. /\ l[i].kind = "header" /\ l[i].thread = p /\ l[i].value.context = w.context
        /\ \A j \in DOMAIN l : l[j].kind = "header" /\ l[j].thread = p => j <= i
    BY <2>2 DEF Started, HeaderAt
  <2>4. Whole(l, i)
    <3>1. PartsAt(l, w, i)
      BY <2>2 DEF Started
    <3> QED
      BY <1>3, <1>4, <2>3, <3>1 DEF PartsAt, Whole
  <2>5. ASSUME NEW r \in R
        PROVE  LastSays(l, p, r, Len(l), d[p][r])
    <3>1. PICK j \in Sources(l, p, r) :
            j <= i /\ l[j].value.context[r] = w.context[r] /\ \A k \in Sources(l, p, r) : k <= i => k <= j
      BY <2>3, <2>4 DEF Decoded, Decodes, LastSays
    <3>2. \A k \in Sources(l, p, r) : k <= i /\ k <= Len(l)
      BY <2>3 DEF Sources, Whole
    <3> QED
      BY <2>1, <3>1, <3>2 DEF LastSays
  <2> QED
    BY <1>1, <2>5 DEF ThreadTrue, Based, Open
<1>5. CASE ~(Open(w) /\ p \in DOMAIN c /\ w.complete)
  <2>1. d = c
    BY <1>2, <1>5 DEF Open
  <2>2. CASE p \notin DOMAIN c
    BY <1>1, <2>1, <2>2 DEF ThreadTrue, Based, Open
  <2>3. CASE ~Open(w)
    <3>1. ~Finished(l, w)
      BY <2>3 DEF Finished
    <3> QED
      BY <1>1, <2>1, <3>1 DEF ThreadTrue, Based, Open
  <2>4. CASE Open(w) /\ ~w.complete
    <3>1. ~Finished(l, w)
      <4> SUFFICES ASSUME NEW k \in DOMAIN l, Whole(l, k), l[k].frame = Number(w)
                   PROVE  FALSE
        BY DEF Finished
      <4>1. ~NoHeader(l, w)
        BY DEF NoHeader, Whole
      <4>2. PICK i \in DOMAIN l : Started(l, w, p, c, i, R)
        BY <1>2, <2>4, <4>1 DEF ThreadTrue, FrameTrue
      <4>3. k = i
        BY <4>2 DEF Started, HeaderAt, Whole
      <4>4. PartsAt(l, w, i)
        BY <4>2 DEF Started
      <4> QED
        BY <2>4, <4>3, <4>4 DEF PartsAt, Whole
    <3> QED
      BY <1>1, <2>1, <3>1 DEF ThreadTrue, Based, Open
  <2> QED
    BY <1>5, <2>2, <2>3, <2>4
<1> QED
  BY <1>4, <1>5

\* Another thread's event.
LEMMA OtherThread ==
  ASSUME NEW l, NEW m, NEW e, NEW i, Touches(l, m, e, i),
         NEW q, NEW w, NEW c, NEW n, NEW R, ThreadTrue(l, w, q, c, n, R),
         m[i].kind = "header" => m[i].thread # q,
         e.kind = "header" => e.thread # q,
         Framed(e) /\ Open(w) => e.frame # Number(w)
  PROVE  ThreadTrue(m, w, q, c, n, R)
<1>0. /\ Longer(l, m, e) /\ Len(l) \in Nat /\ DOMAIN l = 1..Len(l) /\ DOMAIN m = 1..(Len(l) + 1)
      /\ (\A k \in DOMAIN l : k \in DOMAIN m /\ m[k] = l[k]) /\ m[Len(l) + 1] = e
  BY DEF Touches, Longer
<1>1. \A k \in DOMAIN m : k \in DOMAIN l \/ m[k] = e
  BY <1>0
<1>2. Finished(l, w) => Finished(m, w)
  <2> SUFFICES ASSUME Open(w), NEW k \in DOMAIN l, Whole(l, k), l[k].frame = Number(w)
               PROVE  Finished(m, w)
    BY DEF Finished
  <2>1. k # i
    BY DEF Touches
  <2>2. k \in DOMAIN m /\ m[k] = l[k] /\ Whole(m, k)
    BY <1>0, <2>1, SourcesGrow
  <2> QED
    BY <2>2 DEF Finished
<1>3. \A r \in R : i \notin Sources(m, q, r)
  BY DEF Sources, Whole
<1>4. Based(m, w, q, c, R)
  BY <1>2, <1>3, BasedGrows DEF ThreadTrue
<1>5. ASSUME Open(w)
      PROVE  FrameTrue(m, w, q, c, R)
  <2>1. FrameTrue(l, w, q, c, R) /\ (Framed(e) => e.frame # Number(w))
    BY <1>5 DEF ThreadTrue
  <2>2. CASE HeaderDue(w)
    BY <1>0, <1>1, <2>1, <2>2 DEF FrameTrue
  <2>3. CASE ~HeaderDue(w) /\ ~w.complete /\ NoHeader(l, w)
    <3>1. NoHeader(m, w)
      BY <1>0, <1>1, <2>1, <2>3 DEF NoHeader, Framed
    <3> QED
      BY <2>1, <2>3, <3>1 DEF FrameTrue
  <2>4. ASSUME ~HeaderDue(w), NEW j \in DOMAIN l, Started(l, w, q, c, j, R)
        PROVE  FrameTrue(m, w, q, c, R)
    <3>1. l[j].frame = Number(w) /\ m[j] = l[j] /\ j \in DOMAIN m
      BY <1>0, <2>4 DEF Started, HeaderAt
    <3>2. HeaderAt(m, w, q, j)
      BY <1>0, <1>1, <2>1, <2>4, <3>1 DEF Started, HeaderAt, Framed
    <3>3. Shown(m, j) = Shown(l, j)
      BY <1>0, <2>1, <3>1, ShownKept DEF Framed
    <3>4. PartsAt(m, w, j)
      BY <2>4, <3>1, <3>3 DEF Started, PartsAt
    <3>5. Started(m, w, q, c, j, R)
      BY <2>4, <3>1, <3>2, <3>4 DEF Started
    <3> QED
      BY <2>1, <2>4, <3>1, <3>5 DEF FrameTrue
  <2> QED
    BY <2>1, <2>2, <2>3, <2>4 DEF FrameTrue
<1> QED
  BY <1>4, <1>5 DEF ThreadTrue

\* A thread's event is logged; i is its frame's header, or no header at all.
Logged(l, m, e, i, v, p, c, n, R) ==
  /\ Touches(l, m, e, i) /\ (m[i].kind = "header" => m[i].thread = p)
  /\ Decoded(m, R) /\ PartsTrue(m) /\ ThreadTrue(m, v, p, c, n, R)

LEMMA LoggedBy ==
  ASSUME NEW l, NEW m, NEW e, NEW i, Touches(l, m, e, i),
         NEW w, NEW v, NEW p, NEW c, NEW n, NEW R, Logs(w, v),
         ThreadTrue(l, w, p, c, n, R), Decoded(l, R), PartsTrue(m), ~Finished(l, w),
         Open(w) => FrameTrue(m, v, p, c, R),
         m[i].kind = "header" =>
           /\ m[i].thread = p /\ (Whole(m, i) => Finished(m, v))
           /\ \A j \in DOMAIN m : m[j].kind = "header" /\ m[j].thread = p => j <= i
           /\ Agrees(c, p, m[i].value.mask, m[i].value.context, R)
  PROVE  Logged(l, m, e, i, v, p, c, n, R)
<1>1. Based(l, w, p, c, R)
  BY DEF ThreadTrue
<1>2. Decoded(m, R)
  BY <1>1, DecodedGrows
<1>3. ~Finished(m, v) => \A r \in R : i \notin Sources(m, p, r)
  BY DEF Sources, Whole
<1>4. Based(m, v, p, c, R)
  BY <1>1, <1>3, BasedGrows
<1>5. v.todo = w.todo /\ v.pc # "idle" /\ w.pc # "idle" /\ Number(v) = Number(w) /\ (Open(v) <=> Open(w))
  BY DEF Logs, Goes, Number, Open
<1>6. ThreadTrue(m, v, p, c, n, R)
  BY <1>4, <1>5 DEF ThreadTrue
<1> QED
  BY <1>2, <1>6 DEF Logged

\* Parts of different frames, or none, have no say in each other.
LEMMA PartsGrow ==
  ASSUME NEW l, NEW m, NEW e, Longer(l, m, e), PartsTrue(l),
         e.kind = "header" => \A k \in DOMAIN l : l[k].kind = "part" => l[k].frame # e.frame,
         e.kind = "part" => \A k \in DOMAIN l : l[k].kind = "header" /\ l[k].frame = e.frame =>
                                e.value[2] = l[k].value.context[e.value[1]]
  PROVE  PartsTrue(m)
<1> SUFFICES ASSUME NEW i \in DOMAIN m, NEW j \in DOMAIN m,
                    m[i].kind = "header", m[j].kind = "part", m[i].frame = m[j].frame
             PROVE  m[j].value[2] = m[i].value.context[m[j].value[1]]
  BY DEF PartsTrue
<1>1. \A k \in DOMAIN m : (k \in DOMAIN l /\ m[k] = l[k]) \/ m[k] = e
  BY DEF Longer
<1>2. CASE i \in DOMAIN l /\ m[i] = l[i] /\ j \in DOMAIN l /\ m[j] = l[j]
  BY <1>2 DEF PartsTrue
<1>3. CASE i \in DOMAIN l /\ m[i] = l[i] /\ m[j] = e
  BY <1>3
<1>4. CASE m[i] = e /\ j \in DOMAIN l /\ m[j] = l[j]
  BY <1>4
<1>5. CASE m[i] = e /\ m[j] = e
  BY <1>5
<1> QED
  BY <1>1, <1>2, <1>3, <1>4, <1>5

LEMMA LogThread ==
  ASSUME NEW l, NEW m, NEW e, Longer(l, m, e), NEW w, NEW v, NEW p, NEW c, NEW n, NEW R,
         Logs(w, v), e = w.todo[1], ThreadTrue(l, w, p, c, n, R), Decoded(l, R), PartsTrue(l)
  PROVE  /\ \E i : Logged(l, m, e, i, v, p, c, n, R)
         /\ Framed(e) => Open(w) /\ e.thread = p /\ e.frame = Number(w)
<1> DEFINE t == Len(l) + 1
<1>0. /\ Len(l) \in Nat /\ DOMAIN l = 1..Len(l) /\ DOMAIN m = DOMAIN l \union {t} /\ t \notin DOMAIN l
      /\ (\A k \in DOMAIN l : m[k] = l[k]) /\ m[t] = e /\ (\A k \in DOMAIN m : k <= t)
  BY DEF Longer
<1>1. /\ w.pc # "idle" /\ v.todo = w.todo /\ v.context = w.context /\ v.complete = w.complete
      /\ ~Settled(w) /\ Settled(v) /\ w.todo \in Seq(Events) /\ w.todo # <<>>
  BY DEF Logs, Goes
<1>2. 1 \in DOMAIN w.todo
  BY <1>1, LenProperties, EmptySeq
<1>3. Number(v) = Number(w) /\ (Open(v) <=> Open(w)) /\ ~HeaderDue(v) /\ (HeaderDue(w) <=> e.kind = "header")
  BY <1>1 DEF Number, Open, HeaderDue, Logs, Goes
<1> HIDE DEF t
<1>4. CASE ~Open(w)
  <2>1. ~Framed(e)
    BY <1>1, <1>2, <1>4 DEF ThreadTrue
  <2>2. Touches(l, m, e, t)
    BY <1>0, <2>1 DEF Touches, Framed
  <2>3. PartsTrue(m)
    BY <2>1, PartsGrow DEF Framed
  <2>4. ~Finished(l, w) /\ m[t].kind # "header"
    BY <1>0, <1>4, <2>1 DEF Finished, Framed
  <2>5. Logged(l, m, e, t, v, p, c, n, R)
    BY <1>4, <2>2, <2>3, <2>4, LoggedBy
  <2> QED
    BY <2>1, <2>5
<1>5. CASE Open(w)
  <2>1. FrameTrue(l, w, p, c, R) /\ TodoTrue(w, p)
    BY <1>5 DEF ThreadTrue, FrameTrue
  <2>2. /\ e.thread = p /\ e.frame = Number(w) /\ (e.kind = "part" \/ e.kind = "header")
        /\ e.kind = "part" => e.value[2] = w.context[e.value[1]]
        /\ e.kind = "header" => e.value.context = w.context
    BY <1>2, <2>1 DEF TodoTrue
  <2>3. TodoTrue(v, p)
    BY <1>1, <1>3, <2>1 DEF TodoTrue
  <2>4. CASE e.kind = "header"
    <3>1. /\ w.complete /\ Agrees(c, p, e.value.mask, w.context, R)
          /\ \A k \in DOMAIN l : Framed(l[k]) => l[k].frame # Number(w)
      BY <1>3, <2>1, <2>4 DEF FrameTrue
    <3>2. Touches(l, m, e, t)
      BY <1>0, <2>4 DEF Touches
    <3>3. PartsTrue(m)
      BY <2>2, <2>4, <3>1, PartsGrow DEF Framed
    <3>4. ~Finished(l, w)
      BY <3>1 DEF Finished, Whole, Framed
    <3>5. Shown(m, t) = {}
      BY <2>2, <2>4, <3>1, ShownNone DEF t, Framed
    <3>6. DueRegisters(v) = e.value.mask
      BY <2>1, <2>4, DecidedDue
    <3>7. HeaderAt(m, v, p, t)
      BY <1>0, <1>1, <1>3, <2>2, <2>4, <3>1 DEF HeaderAt, Framed
    <3>8. PartsAt(m, v, t)
      BY <1>0, <1>1, <3>1, <3>5, <3>6 DEF PartsAt
    <3>9. Started(m, v, p, c, t, R)
      BY <1>0, <1>1, <3>1, <3>7, <3>8 DEF Started
    <3>10. FrameTrue(m, v, p, c, R)
      BY <1>0, <1>3, <2>3, <3>9 DEF FrameTrue
    <3>11. m[t].thread = p /\ (\A j \in DOMAIN m : m[j].kind = "header" /\ m[j].thread = p => j <= t)
           /\ Agrees(c, p, m[t].value.mask, m[t].value.context, R)
      BY <1>0, <2>2, <2>4, <3>1
    <3>12. Whole(m, t) => Finished(m, v)
      BY <1>0, <1>3, <1>5, <2>2 DEF Finished
    <3>13. Logged(l, m, e, t, v, p, c, n, R)
      BY <3>2, <3>3, <3>4, <3>10, <3>11, <3>12, LoggedBy
    <3> QED
      BY <1>5, <2>2, <3>13
  <2>5. CASE e.kind = "part" /\ ~w.complete /\ NoHeader(l, w)
    <3>1. Touches(l, m, e, t)
      BY <1>0, <2>2, <2>5 DEF Touches, NoHeader
    <3>2. PartsTrue(m)
      BY <2>2, <2>5, PartsGrow DEF NoHeader
    <3>3. ~Finished(l, w)
      BY <2>5 DEF Finished, Whole, NoHeader
    <3>4. NoHeader(m, v)
      BY <1>0, <1>3, <2>5 DEF NoHeader
    <3>5. FrameTrue(m, v, p, c, R)
      BY <1>1, <1>3, <2>3, <2>5, <3>4 DEF FrameTrue
    <3>6. m[t].kind # "header"
      BY <1>0, <2>5
    <3>7. Logged(l, m, e, t, v, p, c, n, R)
      BY <3>1, <3>2, <3>3, <3>5, <3>6, LoggedBy
    <3> QED
      BY <1>5, <2>2, <3>7
  <2>6. ASSUME e.kind = "part", NEW i \in DOMAIN l, Started(l, w, p, c, i, R)
        PROVE  \E k : Logged(l, m, e, k, v, p, c, n, R)
    <3>1. /\ l[i].kind = "header" /\ l[i].thread = p /\ l[i].frame = Number(w)
          /\ l[i].value.context = w.context
          /\ \A j \in DOMAIN l :
               l[j].kind = "header" => (l[j].thread = p => j <= i) /\ (l[j].frame = Number(w) => j = i)
          /\ PartsAt(l, w, i) /\ Agrees(c, p, l[i].value.mask, w.context, R)
      BY <2>6 DEF Started, HeaderAt
    <3>2. /\ e.value[1] \in DueRegisters(w)
          /\ DueRegisters(v) = DueRegisters(w) \ {e.value[1]}
      BY <2>1, <2>6, DecidedDue
    <3>3. Shown(m, i) = Shown(l, i) \union {e.value[1]}
      BY <2>2, <2>6, <3>1, ShownMore
    <3>4. ~Whole(l, i)
      BY <3>1, <3>2 DEF PartsAt, Whole
    <3>5. Touches(l, m, e, i)
      BY <1>0, <2>2, <2>6, <3>1, <3>4 DEF Touches
    <3>6. PartsTrue(m)
      BY <2>2, <2>6, <3>1, PartsGrow
    <3>7. ~Finished(l, w)
      BY <3>1, <3>4 DEF Finished, Whole
    <3>8. m[i] = l[i] /\ i \in DOMAIN m
      BY <1>0
    <3>9. HeaderAt(m, v, p, i)
      BY <1>0, <1>1, <1>3, <2>6, <3>1, <3>8 DEF HeaderAt
    <3>10. PartsAt(m, v, i)
      <4>1. Shown(m, i) \union DueRegisters(v) = Shown(l, i) \union DueRegisters(w)
        BY <3>2, <3>3
      <4>2. Shown(l, i) \intersect DueRegisters(w) = {} => Shown(m, i) \intersect DueRegisters(v) = {}
        BY <3>2, <3>3
      <4> QED
        BY <1>1, <3>1, <3>8, <4>1, <4>2 DEF PartsAt
    <3>11. Started(m, v, p, c, i, R)
      BY <1>1, <3>1, <3>8, <3>9, <3>10 DEF Started
    <3>12. FrameTrue(m, v, p, c, R)
      BY <1>3, <2>3, <3>8, <3>11 DEF FrameTrue
    <3>13. /\ m[i].thread = p /\ (\A j \in DOMAIN m : m[j].kind = "header" /\ m[j].thread = p => j <= i)
           /\ Agrees(c, p, m[i].value.mask, m[i].value.context, R)
      BY <1>0, <2>6, <3>1, <3>8
    <3>14. Whole(m, i) => Finished(m, v)
      BY <1>3, <1>5, <3>1, <3>8 DEF Finished
    <3>15. Logged(l, m, e, i, v, p, c, n, R)
      BY <3>5, <3>6, <3>7, <3>12, <3>13, <3>14, LoggedBy
    <3> QED
      BY <3>15
  <2>7. e.kind = "part" => (~w.complete /\ NoHeader(l, w)) \/ \E i \in DOMAIN l : Started(l, w, p, c, i, R)
    BY <1>3, <2>1 DEF FrameTrue
  <2> QED
    BY <1>5, <2>2, <2>4, <2>5, <2>6, <2>7
<1> QED
  BY <1>4, <1>5

(***************************************************************************)
(* The threads together                                                    *)
(***************************************************************************)

\* A step of submit.
Ends(w, v) == Settled(w) /\ w.todo \in Seq(Events) /\ Len(w.todo) = 1 /\ v.pc = "idle"

LEMMA SubmitMoves ==
  ASSUME ProducersOK, NEW p \in Producers, Submits(p)
  PROVE  LET w == producer[p]
             v == producer'[p]
         IN  /\ UNCHANGED <<frame, load, clean>>
             /\ \/ (Same(w, v) \/ Drops(w, v) \/ More(w, v)) /\ UNCHANGED <<log, cache>>
                \/ Logs(w, v) /\ log' = Append(log, w.todo[1]) /\ UNCHANGED cache
                \/ /\ Ends(w, v) /\ UNCHANGED log
                   /\ cache' = IF w.context # None /\ p \in DOMAIN cache /\ w.complete
                               THEN [cache EXCEPT ![p] = w.context] ELSE cache
<1> DEFINE w == producer[p]
           v == producer'[p]
<1>0. /\ DOMAIN w = {"pc", "todo", "slot", "complete", "context"}
      /\ w.todo \in Seq(Events) /\ (w.pc # "idle" => w.todo # <<>>) /\ p \in DOMAIN producer
  BY DEF ProducersOK, ProducerOK
<1>1. UNCHANGED <<frame, load, clean>>
  BY DEF Submits, Enter, Count, Recheck, Reserve, Publish, Leave, NextEvent, OnlyProducer
<1>2. \A fields : Inside(p, fields) => v = fields
  BY <1>0 DEF Inside
<1> HIDE DEF v, w
<1>3. ASSUME NEW pc \in {"count", "recheck", "reserve"}, w.pc \in {"enter", "count", "recheck"},
             v = [w EXCEPT !.pc = pc]
      PROVE  Same(w, v)
  BY <1>0, <1>3 DEF Same, Goes, Settled
<1>4. ASSUME NEW pc \in {"leave", "next"}, w.pc \in {"publish", "leave"}, v = [w EXCEPT !.pc = pc]
      PROVE  Same(w, v)
  BY <1>0, <1>4 DEF Same, Goes, Settled
<1>5. ASSUME NEW pc \in {"leave", "next"}, w.pc \in {"enter", "recheck", "reserve"},
             v = [w EXCEPT !.pc = pc, !.complete = FALSE]
      PROVE  Drops(w, v)
  BY <1>0, <1>5 DEF Drops, Goes, Settled
<1>6. ASSUME Enter(p) \/ Count(p) \/ Recheck(p) \/ Publish(p) \/ Leave(p)
      PROVE  (Same(w, v) \/ Drops(w, v)) /\ UNCHANGED <<log, cache>>
  BY <1>2, <1>3, <1>4, <1>5, <1>6 DEF Enter, Count, Recheck, Publish, Leave, w
<1>7. ASSUME Reserve(p)
      PROVE  \/ Drops(w, v) /\ UNCHANGED <<log, cache>>
             \/ Logs(w, v) /\ log' = Append(log, w.todo[1]) /\ UNCHANGED cache
  <2>1. CASE rec.claim - rec.drained >= Capacity
    BY <1>2, <1>5, <1>7, <2>1 DEF Reserve, w
  <2>2. CASE ~(rec.claim - rec.drained >= Capacity)
    <3>1. /\ v = [w EXCEPT !.pc = "publish", !.slot = rec.claim] /\ w.pc = "reserve"
          /\ log' = Append(log, Head(w.todo)) /\ UNCHANGED cache
      BY <1>2, <1>7, <2>2 DEF Reserve, w
    <3>2. Logs(w, v)
      BY <1>0, <3>1 DEF Logs, Goes, Settled
    <3>3. Head(w.todo) = w.todo[1]
      BY <1>0, <3>1
    <3> QED
      BY <3>1, <3>2, <3>3
  <2> QED
    BY <2>1, <2>2
<1>8. ASSUME NextEvent(p)
      PROVE  \/ More(w, v) /\ UNCHANGED <<log, cache>>
             \/ /\ Ends(w, v) /\ UNCHANGED log
                /\ cache' = IF w.context # None /\ p \in DOMAIN cache /\ w.complete
                            THEN [cache EXCEPT ![p] = w.context] ELSE cache
  <2>0. w.pc = "next" /\ Len(w.todo) \in Nat /\ Len(w.todo) # 0
    BY <1>0, <1>8, LenProperties, EmptySeq DEF NextEvent, w
  <2>1. CASE Len(w.todo) > 1
    <3> DEFINE t == Tail(w.todo)
    <3>1. Inside(p, [w EXCEPT !.pc = "enter", !.todo = t]) /\ UNCHANGED <<log, cache>>
      BY <1>8, <2>1 DEF NextEvent, w
    <3>2. v = [w EXCEPT !.pc = "enter", !.todo = t]
      BY <1>2, <3>1
    <3> HIDE DEF t
    <3>3. v.pc = "enter" /\ v.todo = t /\ v.complete = w.complete /\ v.context = w.context
      BY <1>0, <3>2
    <3>4. More(w, v)
      BY <1>0, <2>0, <2>1, <3>3 DEF More, Goes, Settled, t
    <3> QED
      BY <3>1, <3>4
  <2>2. CASE ~(Len(w.todo) > 1)
    <3>1. v = Idle /\ UNCHANGED log
          /\ cache' = IF w.context # None /\ p \in DOMAIN cache /\ w.complete
                      THEN [cache EXCEPT ![p] = w.context] ELSE cache
      BY <1>2, <1>8, <2>2 DEF NextEvent, Commits, w
    <3>2. Idle.pc = "idle"
      BY DEF Idle
    <3>3. Len(w.todo) = 1
      <4>1. \A k \in Nat : k # 0 /\ ~(k > 1) => k = 1
        OBVIOUS
      <4> QED
        BY <2>0, <2>2, <4>1
    <3>4. Ends(w, v)
      BY <1>0, <2>0, <3>1, <3>2, <3>3 DEF Ends, Settled
    <3> QED
      BY <3>1, <3>4
  <2> QED
    BY <2>1, <2>2
<1>9. \/ (Same(w, v) \/ Drops(w, v) \/ More(w, v)) /\ UNCHANGED <<log, cache>>
      \/ Logs(w, v) /\ log' = Append(log, w.todo[1]) /\ UNCHANGED cache
      \/ /\ Ends(w, v) /\ UNCHANGED log
         /\ cache' = IF w.context # None /\ p \in DOMAIN cache /\ w.complete
                     THEN [cache EXCEPT ![p] = w.context] ELSE cache
  BY <1>6, <1>7, <1>8 DEF Submits
<1> QED
  BY <1>1, <1>9 DEF w, v

\* The number of a thread's frame.
LEMMA NumberTyped ==
  ASSUME NEW w, w.todo \in Seq(Events), w.todo # <<>>
  PROVE  w.todo[1] \in Events /\ Number(w) \in Nat
<1>1. w.todo[1] \in Events
  BY LenProperties, EmptySeq, ElementOfSeq
<1>2. \A e \in Events : e.frame \in Nat
  BY DEF Events, Captures, Marker
<1> QED
  BY <1>1, <1>2 DEF Number

\* The cached context of another thread changes, and the last number.
LEMMA CacheThread ==
  ASSUME NEW l, NEW w, NEW q, NEW c, NEW d, NEW n \in Nat, NEW n2 \in Nat, n <= n2, NEW R,
         ThreadTrue(l, w, q, c, n, R), Open(w) => Number(w) \in Nat,
         q \in DOMAIN c <=> q \in DOMAIN d, q \in DOMAIN c => d[q] = c[q]
  PROVE  ThreadTrue(l, w, q, d, n2, R)
<1>1. Open(w) => Number(w) <= n2
  BY DEF ThreadTrue
<1>2. \A mask, context : Agrees(c, q, mask, context, R) => Agrees(d, q, mask, context, R)
  BY DEF Agrees
<1>3. FrameTrue(l, w, q, c, R) => FrameTrue(l, w, q, d, R)
  <2>1. \A i \in DOMAIN l : Started(l, w, q, c, i, R) => Started(l, w, q, d, i, R)
    BY <1>2 DEF Started
  <2> QED
    BY <1>2, <2>1 DEF FrameTrue
<1>4. Based(l, w, q, d, R)
  BY DEF ThreadTrue, Based
<1> QED
  BY <1>1, <1>3, <1>4 DEF ThreadTrue

\* What a callback submits for a frame.
FrameTodo(t, p, n, mask, context) ==
  /\ DOMAIN t = 1..Len(t) /\ Len(t) \in Nat \ {0}
  /\ t[1] = Header(p, n, mask, context)
  /\ \A k \in DOMAIN t : k > 1 => \E r \in mask : t[k] = Part(p, n, r, context[r])
  /\ \A j, k \in DOMAIN t : j > 1 /\ k > 1 /\ t[j].value[1] = t[k].value[1] => j = k
  /\ \A r \in mask : \E k \in DOMAIN t : k > 1 /\ t[k].value[1] = r

LEMMA FrameTodoIs ==
  ASSUME NEW mask, IsFiniteSet(mask), NEW p, NEW n, NEW context
  PROVE  LET parts == SetToSeq(mask)
         IN  FrameTodo(<<Header(p, n, mask, context)>>
                         \o [i \in DOMAIN parts |-> Part(p, n, parts[i], context[parts[i]])],
                       p, n, mask, context)
<1> DEFINE s == SetToSeq(mask)
           head == Header(p, n, mask, context)
           rest == [i \in DOMAIN s |-> Part(p, n, s[i], context[s[i]])]
           t == <<head>> \o rest
<1>1. /\ s \in Seq(mask) /\ \A j, k \in DOMAIN s : s[j] = s[k] => j = k
      /\ \A x \in mask : \E k \in DOMAIN s : s[k] = x
  BY SetToSeqOnce
<1> HIDE DEF s
<1>2. DOMAIN s = 1..Len(s) /\ Len(s) \in Nat /\ \A i \in DOMAIN s : s[i] \in mask
  BY <1>1, LenProperties, ElementOfSeq
<1> DEFINE E == {head} \union {Part(p, n, r, context[r]) : r \in mask}
<1> HIDE DEF head
<1>3. rest \in Seq(E) /\ Len(rest) = Len(s)
  <2>1. rest \in [1..Len(s) -> E]
    BY <1>2
  <2> HIDE DEF rest, E
  <2>2. rest \in Seq(E)
    BY <1>2, <2>1, IsASeq
  <2> QED
    BY <1>2, <2>1, <2>2, LenProperties
<1>4. <<head>> \in Seq(E) /\ Len(<<head>>) = 1 /\ <<head>>[1] = head
  OBVIOUS
<1>5. \A i \in DOMAIN s : rest[i] = Part(p, n, s[i], context[s[i]])
  OBVIOUS
<1> HIDE DEF rest, E
<1>6. /\ t \in Seq(E) /\ Len(t) = 1 + Len(s)
      /\ \A i \in 1..Len(t) : t[i] = IF i <= 1 THEN <<head>>[i] ELSE rest[i - 1]
  BY <1>3, <1>4, ConcatProperties, SMTT(30)
<1>7. DOMAIN t = 1..Len(t)
  BY <1>6, LenProperties
<1> HIDE DEF t
<1>8. t[1] = head
  BY <1>2, <1>4, <1>6
<1>9. \A k \in DOMAIN t : k > 1 =>
        k - 1 \in DOMAIN s /\ t[k] = Part(p, n, s[k - 1], context[s[k - 1]])
  BY <1>2, <1>5, <1>6, <1>7
<1>10. \A k \in DOMAIN t : k > 1 => t[k].value[1] = s[k - 1]
  BY <1>9 DEF Part
<1>11. \A k \in DOMAIN t : k > 1 => \E r \in mask : t[k] = Part(p, n, r, context[r])
  BY <1>2, <1>9
<1>12. ASSUME NEW j \in DOMAIN t, NEW k \in DOMAIN t, j > 1, k > 1, t[j].value[1] = t[k].value[1]
       PROVE  j = k
  <2>1. j - 1 = k - 1
    BY <1>1, <1>9, <1>10, <1>12
  <2>2. j \in Nat /\ k \in Nat
    BY <1>6, <1>7
  <2> QED
    BY <2>1, <2>2
<1>13. ASSUME NEW r \in mask
       PROVE  \E k \in DOMAIN t : k > 1 /\ t[k].value[1] = r
  <2>1. PICK i \in DOMAIN s : s[i] = r
    BY <1>1
  <2> DEFINE k == i + 1
  <2>2. k \in DOMAIN t /\ k > 1 /\ k - 1 = i
    BY <1>2, <1>6, <1>7
  <2> HIDE DEF k
  <2> QED
    BY <1>10, <2>1, <2>2
<1>14. Len(t) \in Nat \ {0}
  BY <1>2, <1>6
<1>15. FrameTodo(t, p, n, mask, context)
  BY <1>7, <1>8, <1>11, <1>12, <1>13, <1>14 DEF FrameTodo, head
<1> QED
  BY <1>15 DEF t, s, rest, head

\* A callback begins a frame: nothing of it is in the log.
Starts(l, v, p, c, d, n, mask, R) ==
  /\ v.pc = "enter" /\ v.complete = TRUE /\ v.context # None
  /\ FrameTodo(v.todo, p, n + 1, mask, v.context) /\ Agrees(d, p, mask, v.context, R)
  /\ \A k \in DOMAIN l : Framed(l[k]) => l[k].frame \in Nat /\ l[k].frame <= n
  /\ p \in DOMAIN d /\ d[p] # None => p \in DOMAIN c /\ c[p] = d[p]

LEMMA StartThread ==
  ASSUME NEW l, NEW w, NEW v, NEW p, NEW c, NEW d, NEW n \in Nat, NEW R, NEW mask,
         ThreadTrue(l, w, p, c, n, R), w.pc = "idle", Starts(l, v, p, c, d, n, mask, R)
  PROVE  ThreadTrue(l, v, p, d, n + 1, R) /\ Open(v) /\ Number(v) = n + 1
<1> USE DEF Starts
<1> DEFINE t == v.todo
<1>1. /\ DOMAIN t = 1..Len(t) /\ Len(t) \in Nat \ {0}
      /\ t[1] = Header(p, n + 1, mask, v.context)
      /\ \A k \in DOMAIN t : k > 1 => \E r \in mask : t[k] = Part(p, n + 1, r, v.context[r])
      /\ \A j, k \in DOMAIN t : j > 1 /\ k > 1 /\ t[j].value[1] = t[k].value[1] => j = k
      /\ \A r \in mask : \E k \in DOMAIN t : k > 1 /\ t[k].value[1] = r
  BY DEF FrameTodo
<1>2. /\ t[1].kind = "header" /\ t[1].thread = p /\ t[1].frame = n + 1
      /\ t[1].value.mask = mask /\ t[1].value.context = v.context
  BY <1>1 DEF Header
<1>3. ASSUME NEW k \in DOMAIN t, k > 1
      PROVE  /\ t[k].kind = "part" /\ t[k].thread = p /\ t[k].frame = n + 1
             /\ t[k].value[1] \in mask /\ t[k].value[2] = v.context[t[k].value[1]]
  <2>1. PICK r \in mask : t[k] = Part(p, n + 1, r, v.context[r])
    BY <1>1, <1>3
  <2>2. t[k].value = <<r, v.context[r]>>
    BY <2>1 DEF Part
  <2>3. t[k].kind = "part" /\ t[k].thread = p /\ t[k].frame = n + 1
    BY <2>1 DEF Part
  <2>4. t[k].value[1] = r /\ t[k].value[2] = v.context[r]
    BY <2>2
  <2> QED
    BY <2>3, <2>4
<1>4. \A k \in DOMAIN t : k = 1 \/ k > 1
  BY <1>1
<1>5. ~Settled(v) /\ v.pc # "idle" /\ Open(v) /\ Number(v) = n + 1 /\ HeaderDue(v)
  BY <1>2 DEF Settled, Open, Number, HeaderDue
<1>6. mask = {t[k].value[1] : k \in {j \in DOMAIN t : j > 1}}
  <2>1. ASSUME NEW r
        PROVE  r \in mask <=> \E k \in DOMAIN t : k > 1 /\ t[k].value[1] = r
    BY <1>1, <1>3
  <2>2. ASSUME NEW r
        PROVE  r \in {t[k].value[1] : k \in {j \in DOMAIN t : j > 1}}
                 <=> \E k \in DOMAIN t : k > 1 /\ t[k].value[1] = r
    OBVIOUS
  <2> QED
    BY <2>1, <2>2
<1>7. TodoTrue(v, p)
  <2>1. ASSUME NEW k \in DOMAIN t
        PROVE  /\ t[k].thread = p /\ t[k].frame = Number(v)
               /\ (t[k].kind = "part" \/ (k = 1 /\ t[k].kind = "header"))
               /\ t[k].kind = "part" => t[k].value[2] = v.context[t[k].value[1]]
               /\ \A m \in DOMAIN t :
                    t[k].kind = "part" /\ t[m].kind = "part" /\ t[k].value[1] = t[m].value[1] => k = m
    <3>1. CASE k = 1
      BY <1>2, <1>5, <3>1
    <3>2. CASE k > 1
      <4>1. \A m \in DOMAIN t : t[m].kind = "part" => m > 1
        BY <1>2, <1>4
      <4> QED
        BY <1>1, <1>3, <1>5, <3>2, <4>1
    <3> QED
      BY <1>4, <3>1, <3>2
  <2> QED
    BY <1>2, <1>6, <2>1 DEF TodoTrue
<1>8. \A k \in DOMAIN l : Framed(l[k]) => l[k].frame # Number(v)
  <2>1. \A a \in Nat : a <= n => a # n + 1
    OBVIOUS
  <2> QED
    BY <1>5, <2>1
<1>9. FrameTrue(l, v, p, d, R)
  BY <1>2, <1>5, <1>7, <1>8 DEF FrameTrue
<1>10. ~Finished(l, w)
  BY DEF Finished, Open
<1>11. Based(l, v, p, d, R)
  BY <1>10 DEF ThreadTrue, Based
<1>12. Number(v) <= n + 1
  BY <1>5
<1> QED
  BY <1>5, <1>9, <1>11, <1>12 DEF ThreadTrue

\* It begins another event.
LEMMA PlainThread ==
  ASSUME NEW l, NEW w, NEW v, NEW p, NEW c, NEW n, NEW R, ThreadTrue(l, w, p, c, n, R), w.pc = "idle",
         v.context = None, \A k \in DOMAIN v.todo : ~Framed(v.todo[k])
  PROVE  ThreadTrue(l, v, p, c, n, R) /\ ~Open(v)
  BY DEF ThreadTrue, Open, Based, Finished

\* One thread goes on; the log stays.
GoesOn(l, f, g, c, d, n, n2, p) ==
  /\ n \in Nat /\ n2 \in Nat /\ n <= n2
  /\ \A q \in Producers : q # p =>
       /\ g[q] = f[q] /\ (Open(f[q]) => Number(f[q]) \in Nat)
       /\ (q \in DOMAIN c <=> q \in DOMAIN d) /\ (q \in DOMAIN c => d[q] = c[q])
  /\ \A k \in DOMAIN l : Framed(l[k]) => l[k].frame \in Nat
  /\ Open(g[p]) => \/ Open(f[p]) /\ Number(g[p]) = Number(f[p])
                   \/ Number(g[p]) \in Nat /\ Number(g[p]) > n

LEMMA ThreadKeeps ==
  ASSUME NEW l, NEW f, NEW g, NEW c, NEW d, NEW n, NEW n2, NEW R, NEW p \in Producers,
         FramesTrue(l, f, c, n, R), GoesOn(l, f, g, c, d, n, n2, p), ThreadTrue(l, g[p], p, d, n2, R)
  PROVE  FramesTrue(l, g, d, n2, R)
<1> USE DEF GoesOn
<1>1. Decoded(l, R) /\ PartsTrue(l) /\ \A k \in DOMAIN l : Framed(l[k]) => l[k].frame <= n2
  BY DEF FramesTrue
<1>2. ASSUME NEW q \in Producers
      PROVE  ThreadTrue(l, g[q], q, d, n2, R)
  <2>1. CASE q # p
    <3>1. ThreadTrue(l, f[q], q, c, n, R) /\ g[q] = f[q]
      BY <2>1 DEF FramesTrue
    <3> QED
      BY <2>1, <3>1, CacheThread
  <2> QED
    BY <2>1
<1>3. ASSUME NEW q \in Producers, q # p, Open(g[p]), Open(g[q])
      PROVE  Number(g[p]) # Number(g[q])
  <2>1. g[q] = f[q] /\ Number(f[q]) \in Nat /\ Number(f[q]) <= n
    BY <1>3 DEF FramesTrue, ThreadTrue
  <2>2. CASE Open(f[p]) /\ Number(g[p]) = Number(f[p])
    BY <1>3, <2>1, <2>2 DEF FramesTrue
  <2>3. CASE Number(g[p]) \in Nat /\ Number(g[p]) > n
    BY <2>1, <2>3
  <2> QED
    BY <1>3, <2>2, <2>3
<1>4. \A q, s \in Producers : q # s /\ Open(g[q]) /\ Open(g[s]) => Number(g[q]) # Number(g[s])
  <2> SUFFICES ASSUME NEW q \in Producers, NEW s \in Producers, q # s, Open(g[q]), Open(g[s])
               PROVE  Number(g[q]) # Number(g[s])
    OBVIOUS
  <2>1. CASE q = p
    BY <1>3, <2>1
  <2>2. CASE s = p
    BY <1>3, <2>2
  <2>3. CASE q # p /\ s # p
    BY <2>3 DEF FramesTrue
  <2> QED
    BY <2>1, <2>2, <2>3
<1> QED
  BY <1>1, <1>2, <1>4 DEF FramesTrue

\* One thread's event is logged.
LEMMA ThreadLogs ==
  ASSUME NEW l, NEW m, NEW e, Longer(l, m, e), NEW f, NEW g, NEW c, NEW n, NEW R,
         FramesTrue(l, f, c, n, R), NEW p \in Producers,
         \A q \in Producers : q # p => g[q] = f[q],
         Logs(f[p], g[p]), e = f[p].todo[1]
  PROVE  FramesTrue(m, g, c, n, R)
<1>1. ThreadTrue(l, f[p], p, c, n, R) /\ Decoded(l, R) /\ PartsTrue(l)
  BY DEF FramesTrue
<1>2. /\ \E i : Logged(l, m, e, i, g[p], p, c, n, R)
      /\ Framed(e) => Open(f[p]) /\ e.thread = p /\ e.frame = Number(f[p])
  BY <1>1, LogThread
<1>3. PICK i : Logged(l, m, e, i, g[p], p, c, n, R)
  BY <1>2
<1>4. /\ Touches(l, m, e, i) /\ (m[i].kind = "header" => m[i].thread = p)
      /\ Decoded(m, R) /\ PartsTrue(m) /\ ThreadTrue(m, g[p], p, c, n, R)
  BY <1>3 DEF Logged
<1>5. (Open(g[p]) <=> Open(f[p])) /\ Number(g[p]) = Number(f[p])
  BY DEF Logs, Goes, Open, Number
<1>6. ASSUME NEW q \in Producers
      PROVE  ThreadTrue(m, g[q], q, c, n, R)
  <2>1. CASE q # p
    <3>1. ThreadTrue(l, f[q], q, c, n, R) /\ g[q] = f[q]
      BY <2>1 DEF FramesTrue
    <3>2. m[i].kind = "header" => m[i].thread # q
      BY <1>4, <2>1
    <3>3. e.kind = "header" => e.thread # q
      BY <1>2, <2>1 DEF Framed
    <3>4. Framed(e) /\ Open(f[q]) => e.frame # Number(f[q])
      BY <1>2, <2>1 DEF FramesTrue
    <3>5. ThreadTrue(m, f[q], q, c, n, R)
      BY <1>4, <3>1, <3>2, <3>3, <3>4, OtherThread
    <3> QED
      BY <3>1, <3>5
  <2> QED
    BY <1>4, <2>1
<1>7. \A k \in DOMAIN m : Framed(m[k]) => m[k].frame <= n
  <2>1. Framed(e) => e.frame <= n
    BY <1>1, <1>2 DEF ThreadTrue
  <2>2. \A k \in DOMAIN m : (k \in DOMAIN l /\ m[k] = l[k]) \/ m[k] = e
    BY DEF Longer
  <2> QED
    BY <2>1, <2>2 DEF FramesTrue
<1>8. \A q, s \in Producers : q # s /\ Open(g[q]) /\ Open(g[s]) => Number(g[q]) # Number(g[s])
  <2>1. \A q \in Producers : (Open(g[q]) <=> Open(f[q])) /\ Number(g[q]) = Number(f[q])
    BY <1>5
  <2> QED
    BY <2>1 DEF FramesTrue
<1> QED
  BY <1>4, <1>6, <1>7, <1>8 DEF FramesTrue

\* The frames of the log have numbers.
LEMMA FramesNumbered ==
  ASSUME NEW l \in Seq(Events)
  PROVE  DOMAIN l = 1..Len(l) /\ Len(l) \in Nat /\ \A k \in DOMAIN l : l[k].frame \in Nat
<1>1. DOMAIN l = 1..Len(l) /\ Len(l) \in Nat /\ \A k \in DOMAIN l : l[k] \in Events
  BY LenProperties, ElementOfSeq
<1>2. \A e \in Events : e.frame \in Nat
  BY DEF Events, Captures, Marker
<1> QED
  BY <1>1, <1>2

LEMMA OpenNumbered ==
  ASSUME ProducersOK, NEW q \in Producers
  PROVE  Open(producer[q]) => Number(producer[q]) \in Nat
  BY NumberTyped DEF ProducersOK, ProducerOK, Open

\* A step of submit.
LEMMA SubmitFrames ==
  ASSUME RecTypes, FramesClean, NEW p \in Producers, Submits(p)
  PROVE  FramesClean'
<1> DEFINE f == producer
           g == producer'
           R == load.registers
<1>1. /\ f[p] = producer[p] /\ ProducersOK /\ RecOK /\ log \in Seq(Events) /\ frame \in Nat
  BY DEF RecTypes, FilesOK, CountsOK
<1>2. \A q \in Producers : q # p => g[q] = f[q]
  BY <1>1, SubmitInside
<1>3. UNCHANGED <<frame, load>>
  BY <1>1, SubmitMoves
<1>4. FramesTrue(log, f, cache, frame, R)
  BY DEF FramesClean
<1>5. ThreadTrue(log, f[p], p, cache, frame, R) /\ Decoded(log, R)
  BY <1>4 DEF FramesTrue
<1>6. \A q \in Producers : Open(f[q]) => Number(f[q]) \in Nat
  BY <1>1, OpenNumbered
<1>7. /\ DOMAIN log = 1..Len(log) /\ Len(log) \in Nat
      /\ \A k \in DOMAIN log : Framed(log[k]) => log[k].frame \in Nat
  BY <1>1, FramesNumbered
<1>8. frame <= frame
  BY <1>1
<1>9. \/ (Same(f[p], g[p]) \/ Drops(f[p], g[p]) \/ More(f[p], g[p])) /\ UNCHANGED <<log, cache>>
      \/ Logs(f[p], g[p]) /\ log' = Append(log, f[p].todo[1]) /\ UNCHANGED cache
      \/ /\ Ends(f[p], g[p]) /\ UNCHANGED log
         /\ cache' = IF f[p].context # None /\ p \in DOMAIN cache /\ f[p].complete
                     THEN [cache EXCEPT ![p] = f[p].context] ELSE cache
  BY <1>1, SubmitMoves
<1> HIDE DEF f, g, R
<1>10. CASE (Same(f[p], g[p]) \/ Drops(f[p], g[p]) \/ More(f[p], g[p])) /\ UNCHANGED <<log, cache>>
  <2>1. ThreadTrue(log, g[p], p, cache, frame, R)
    BY <1>5, <1>10, SameThread, DropThread, MoreThread
  <2>2. Open(g[p]) => Open(f[p]) /\ Number(g[p]) = Number(f[p])
    <3>1. CASE ~More(f[p], g[p])
      BY <1>10, <3>1 DEF Same, Drops, Goes, Open, Number
    <3>2. CASE More(f[p], g[p])
      <4>1. Open(f[p]) <=> Open(g[p])
        BY <3>2 DEF More, Goes, Open
      <4> QED
        BY <1>5, <3>2, <4>1, MoreThread
    <3> QED
      BY <3>1, <3>2
  <2>3. GoesOn(log, f, g, cache, cache, frame, frame, p)
    BY <1>1, <1>2, <1>6, <1>7, <1>8, <2>2 DEF GoesOn
  <2>4. FramesTrue(log, g, cache, frame, R)
    BY <1>4, <2>1, <2>3, ThreadKeeps
  <2> QED
    BY <1>3, <1>10, <2>4 DEF FramesClean, g, R
<1>11. CASE Logs(f[p], g[p]) /\ log' = Append(log, f[p].todo[1]) /\ UNCHANGED cache
  <2>1. f[p].todo[1] \in Events
    BY <1>11, NumberTyped DEF Logs, Goes
  <2>2. Longer(log, log', f[p].todo[1])
    BY <1>1, <1>11, <2>1, AppendLonger
  <2>3. FramesTrue(log', g, cache, frame, R)
    BY <1>2, <1>4, <1>11, <2>2, ThreadLogs
  <2> QED
    BY <1>3, <1>11, <2>3 DEF FramesClean, g, R
<1>12. CASE /\ Ends(f[p], g[p]) /\ UNCHANGED log
            /\ cache' = IF f[p].context # None /\ p \in DOMAIN cache /\ f[p].complete
                        THEN [cache EXCEPT ![p] = f[p].context] ELSE cache
  <2>1. IF f[p].context # None /\ p \in DOMAIN cache /\ f[p].complete
        THEN DOMAIN cache' = DOMAIN cache /\ cache'[p] = f[p].context ELSE cache' = cache
    BY <1>12
  <2>2. \A q \in Producers : q # p =>
          (q \in DOMAIN cache <=> q \in DOMAIN cache') /\ (q \in DOMAIN cache => cache'[q] = cache[q])
    BY <1>12
  <2>3. /\ Settled(f[p]) /\ f[p].todo \in Seq(Events) /\ Len(f[p].todo) = 1 /\ g[p].pc = "idle"
    BY <1>12 DEF Ends
  <2>4. ThreadTrue(log, g[p], p, cache', frame, R)
    BY <1>5, <1>7, <2>1, <2>3, EndThread
  <2>5. ~Open(g[p])
    BY <2>3 DEF Open
  <2>6. GoesOn(log, f, g, cache, cache', frame, frame, p)
    BY <1>1, <1>2, <1>6, <1>7, <1>8, <2>2, <2>5 DEF GoesOn
  <2>7. FramesTrue(log, g, cache', frame, R)
    BY <1>4, <2>4, <2>6, ThreadKeeps
  <2> QED
    BY <1>3, <1>12, <2>7 DEF FramesClean, g, R
<1> QED
  BY <1>9, <1>10, <1>11, <1>12

\* A callback begins.
LEMMA CaptureFrames ==
  ASSUME RecTypes, FramesClean, NEW p \in Producers, NEW fields, Inside(p, fields),
         producer[p].pc = "idle", fields.context = None,
         \A k \in DOMAIN fields.todo : ~Framed(fields.todo[k]),
         UNCHANGED <<log, cache, frame>>, load'.registers = load.registers
  PROVE  FramesClean'
<1> DEFINE f == producer
           g == producer'
           R == load.registers
<1>1. ProducersOK /\ log \in Seq(Events) /\ frame \in Nat
  BY DEF RecTypes, FilesOK, CountsOK
<1>2. g[p] = fields /\ \A q \in Producers : q # p => g[q] = f[q]
  BY <1>1 DEF Inside, ProducersOK
<1>3. FramesTrue(log, f, cache, frame, R) /\ f[p].pc = "idle"
  BY DEF FramesClean
<1>4. \A q \in Producers : Open(f[q]) => Number(f[q]) \in Nat
  BY <1>1, OpenNumbered
<1> HIDE DEF f, g, R
<1>5. ThreadTrue(log, g[p], p, cache, frame, R) /\ ~Open(g[p])
  BY <1>2, <1>3, PlainThread DEF FramesTrue
<1>6. \A k \in DOMAIN log : Framed(log[k]) => log[k].frame \in Nat
  BY <1>1, FramesNumbered
<1>7. frame <= frame
  BY <1>1
<1>8. GoesOn(log, f, g, cache, cache, frame, frame, p)
  BY <1>1, <1>2, <1>4, <1>5, <1>6, <1>7 DEF GoesOn
<1>9. FramesTrue(log, g, cache, frame, R)
  BY <1>3, <1>5, <1>8, ThreadKeeps
<1> QED
  BY <1>9 DEF FramesClean, g, R

LEMMA CaptureContextFrames ==
  ASSUME RecTypes, FramesClean, NEW p \in load.threads, CaptureContext(p)
  PROVE  FramesClean'
<1> DEFINE f == producer
           g == producer'
           R == load.registers
           mask(x) == IF Baseline(p) THEN R ELSE {r \in R : cache[p][r] # x[r]}
           parts(x) == SetToSeq(mask(x))
           todo(x) == <<Header(p, frame + 1, mask(x), x)>>
                      \o [i \in DOMAIN parts(x) |-> Part(p, frame + 1, parts(x)[i], x[parts(x)[i]])]
<1>1. ProducersOK /\ log \in Seq(Events) /\ frame \in Nat /\ LoadOK
  BY DEF RecTypes, FilesOK, CountsOK
<1>2. PICK x \in load.contexts :
        /\ Inside(p, [Idle EXCEPT !.pc = "enter", !.context = x, !.todo = todo(x)])
        /\ cache' = IF HasSlot(p) /\ p \notin DOMAIN cache
                    THEN [q \in DOMAIN cache \union {p} |-> IF q = p THEN None ELSE cache[q]]
                    ELSE cache
  BY DEF CaptureContext
<1>3. p \in Producers /\ IsFiniteSet(R) /\ x # None
  BY <1>1, <1>2, RecorderAssumption DEF LoadOK, Producers
<1>4. FrameTodo(todo(x), p, frame + 1, mask(x), x)
  <2>1. mask(x) \subseteq R
    OBVIOUS
  <2>2. IsFiniteSet(mask(x))
    BY <1>3, <2>1, FS_Subset
  <2> HIDE DEF mask
  <2> QED
    BY <2>2, FrameTodoIs
<1> DEFINE fields == [Idle EXCEPT !.pc = "enter", !.context = x, !.todo = todo(x)]
<1>5. producer[p].pc = "idle" /\ frame' = frame + 1 /\ UNCHANGED log /\ load'.registers = R
  BY <1>1 DEF CaptureContext, LoadOK
<1> HIDE DEF todo
<1>6. fields.pc = "enter" /\ fields.complete = TRUE /\ fields.context = x /\ fields.todo = todo(x)
  BY DEF Idle
<1>7. Inside(p, fields)
  BY <1>2
<1> HIDE DEF fields
<1>8. g[p] = fields /\ \A q \in Producers : q # p => g[q] = f[q]
  BY <1>1, <1>3, <1>7 DEF Inside, ProducersOK
<1>9. FramesTrue(log, f, cache, frame, R) /\ f[p].pc = "idle" /\ ThreadTrue(log, f[p], p, cache, frame, R)
  BY <1>3, <1>5 DEF FramesClean, FramesTrue
<1>10. \A q \in Producers : Open(f[q]) => Number(f[q]) \in Nat
  BY <1>1, OpenNumbered
<1>11. \A k \in DOMAIN log : Framed(log[k]) => log[k].frame \in Nat /\ log[k].frame <= frame
  BY <1>1, <1>9, FramesNumbered DEF FramesTrue
<1>12. /\ \A q \in Producers : q # p =>
            (q \in DOMAIN cache <=> q \in DOMAIN cache') /\ (q \in DOMAIN cache => cache'[q] = cache[q])
       /\ p \in DOMAIN cache' /\ cache'[p] # None => p \in DOMAIN cache /\ cache[p] = cache'[p]
       /\ ~Baseline(p) => cache' = cache
  BY <1>2 DEF Baseline
<1>13. Agrees(cache', p, mask(x), x, R)
  <2>1. CASE Baseline(p)
    BY <2>1 DEF Agrees
  <2>2. CASE ~Baseline(p)
    BY <1>12, <2>2 DEF Agrees, Baseline
  <2> QED
    BY <2>1, <2>2
<1> HIDE DEF f, g, R, mask
<1>14. Starts(log, g[p], p, cache, cache', frame, mask(x), R)
  BY <1>3, <1>4, <1>6, <1>8, <1>11, <1>12, <1>13 DEF Starts
<1>15. ThreadTrue(log, g[p], p, cache', frame + 1, R) /\ Open(g[p]) /\ Number(g[p]) = frame + 1
  BY <1>1, <1>9, <1>14, StartThread
<1>16. frame + 1 \in Nat /\ frame <= frame + 1 /\ frame + 1 > frame
  BY <1>1
<1>17. GoesOn(log, f, g, cache, cache', frame, frame + 1, p)
  BY <1>1, <1>8, <1>10, <1>11, <1>12, <1>15, <1>16 DEF GoesOn
<1>18. FramesTrue(log, g, cache', frame + 1, R)
  BY <1>3, <1>9, <1>15, <1>17, ThreadKeeps
<1> QED
  BY <1>5, <1>18 DEF FramesClean, g, R

\* A new session, with nobody inside.
LEMMA FramesNone ==
  ASSUME NEW l, NEW f, NEW c, NEW n, NEW R, DOMAIN l = {}, DOMAIN c = {},
         \A p \in Producers : f[p].pc = "idle"
  PROVE  FramesTrue(l, f, c, n, R)
  BY DEF FramesTrue, Decoded, PartsTrue, ThreadTrue, Based, Open

LEMMA SnapshotsInit ==
  ASSUME RecInit
  PROVE  SnapshotsInv
<1>1. RecTypes
  BY RecorderInit DEF RecorderInv
<1>2. Idle.pc = "idle"
  BY DEF Idle
<1>3. DOMAIN log = {} /\ DOMAIN cache = {} /\ \A p \in Producers : producer[p].pc = "idle"
  BY <1>2 DEF RecInit
<1> QED
  BY <1>1, <1>3, FramesNone DEF SnapshotsInv, FramesClean

LEMMA SnapshotsStep ==
  ASSUME RecorderInv, RecorderInv', SnapshotsInv, RecNext
  PROVE  SnapshotsInv'
<1>0. RecTypes /\ RecTypes' /\ (clean => FramesClean)
  BY DEF RecorderInv, SnapshotsInv
<1> SUFFICES ASSUME clean'
             PROVE  FramesClean'
  BY <1>0 DEF SnapshotsInv
<1>1. ASSUME NEW p \in load.threads, Capture(p)
      PROVE  FramesClean'
  <2>1. PICK a \in {1, 2}, x \in load.values :
          Inside(p, [Idle EXCEPT !.pc = "enter", !.todo = <<Exec(p, a, x)>>])
    BY <1>1 DEF Capture
  <2> DEFINE fields == [Idle EXCEPT !.pc = "enter", !.todo = <<Exec(p, a, x)>>]
  <2>2. fields.context = None /\ fields.todo = <<Exec(p, a, x)>>
    BY DEF Idle
  <2>3. Inside(p, fields)
    BY <2>1
  <2> HIDE DEF fields
  <2>4. ~Framed(Exec(p, a, x))
    BY DEF Framed, Exec
  <2>5. \A k \in DOMAIN fields.todo : ~Framed(fields.todo[k])
    BY <2>2, <2>4
  <2>6. /\ p \in Producers /\ producer[p].pc = "idle" /\ UNCHANGED <<log, cache, frame, clean>>
        /\ load'.registers = load.registers
    BY <1>0, <1>1, RecorderAssumption DEF Capture, OnlyProducer, RecTypes, LoadOK, Producers
  <2> QED
    BY <1>0, <2>2, <2>3, <2>5, <2>6, CaptureFrames
<1>2. ASSUME NEW p \in load.threads, CaptureContext(p)
      PROVE  FramesClean'
  <2>1. clean' = clean
    BY <1>2 DEF CaptureContext, OnlyProducer
  <2> QED
    BY <1>0, <1>2, <2>1, CaptureContextFrames
<1>3. ASSUME NEW p \in Producers, Submits(p)
      PROVE  FramesClean'
  <2>1. clean' = clean
    BY <1>3 DEF Submits, Enter, Count, Recheck, Reserve, Publish, Leave, NextEvent, OnlyProducer
  <2> QED
    BY <1>0, <1>3, <2>1, SubmitFrames
<1>4. CASE UNCHANGED <<log, cache, frame, producer, clean>> /\ load'.registers = load.registers
  BY <1>0, <1>4 DEF FramesClean
<1>5. CASE DrainStep
  <2>1. OnlyDrain
    BY <1>5 DEF DrainStep, DrainHeader, DrainAbort, DrainLook, DrainTake, DrainGap, DrainGiveUp,
                DrainCaughtUp, DrainFinish, DrainBroken, DrainClose
  <2> QED
    BY <1>4, <2>1 DEF OnlyDrain
<1>6. CASE StartReset
  <2>1. /\ log' = <<>> /\ cache' = <<>> /\ UNCHANGED producer
        /\ clean' = (clean /\ \A p \in Producers : producer[p].pc = "idle")
    BY <1>6 DEF StartReset
  <2>2. \A p \in Producers : producer'[p].pc = "idle"
    BY <2>1
  <2>3. DOMAIN log' = {} /\ DOMAIN cache' = {}
    BY <2>1
  <2> QED
    BY <2>2, <2>3, FramesNone DEF FramesClean
<1>7. CASE StartArm \/ StartSpawn \/ StartUnspawn \/ FlushWindow \/ Extend \/ ExtendEnds \/ Stop
  <2>1. UNCHANGED <<log, cache, frame, producer, clean>> /\ load'.registers = load.registers
    BY <1>0, <1>7 DEF StartArm, StartSpawn, StartUnspawn, FlushWindow, Extend, ExtendEnds, Stop,
                      RecTypes, LoadOK
  <2> QED
    BY <1>4, <2>1
<1>8. CASE ExtendMark
  <2> DEFINE fields == [Idle EXCEPT !.pc = "enter", !.todo = <<Marker("scope", 2)>>]
  <2>1. fields.context = None /\ fields.todo = <<Marker("scope", 2)>>
    BY DEF Idle
  <2>2. Inside(Control, fields) /\ Control \in Producers
    BY <1>8 DEF ExtendMark, Inside, Producers
  <2> HIDE DEF fields
  <2>3. ~Framed(Marker("scope", 2))
    BY DEF Framed, Marker
  <2>4. \A k \in DOMAIN fields.todo : ~Framed(fields.todo[k])
    BY <2>1, <2>3
  <2>5. /\ producer[Control].pc = "idle" /\ UNCHANGED <<log, cache, frame, clean>>
        /\ load'.registers = load.registers
    BY <1>8 DEF ExtendMark
  <2> QED
    BY <1>0, <2>1, <2>2, <2>4, <2>5, CaptureFrames
<1> QED
  BY <1>1, <1>2, <1>3, <1>5, <1>6, <1>7, <1>8 DEF RecNext, ControlStep

LEMMA SnapshotsAlways == Spec => []SnapshotsInv
<1>1. Init => SnapshotsInv
  BY SnapshotsInit DEF Init
<1>2. RecorderInv /\ RecorderInv' /\ SnapshotsInv /\ [Next]_vars => SnapshotsInv'
  <2> SUFFICES ASSUME RecorderInv, RecorderInv', SnapshotsInv, [Next]_vars
               PROVE  SnapshotsInv'
    OBVIOUS
  <2>1. CASE Record
    BY <2>1, SnapshotsStep DEF Record
  <2>2. CASE UNCHANGED recvars
    BY <2>2 DEF recvars, SnapshotsInv, FramesClean, RecorderInv
  <2>3. CASE Spill
    BY <2>2, <2>3 DEF Spill
  <2>4. ASSUME NEW r \in Readers, QueryStep(r)
        PROVE  UNCHANGED recvars
    BY <2>4 DEF QueryStep, Stat, Check, OpenTrace, Import, Restat, RemoveStale, Install, Validate, Page,
                Again, OnlyQuery
  <2> QED
    BY <2>1, <2>2, <2>3, <2>4 DEF Next, vars
<1> QED
  BY <1>1, <1>2, RecorderAlways, PTL DEF Spec

\* For any number of threads, registers and contexts, any slab and any loss of
\* events: a reader of a session's log that skips the frames with a part
\* missing and applies the others in order has, after each of them, the
\* registers the thread had (record.rs:413-546).
THEOREM SnapshotsTrue == Spec => []SnapshotsDecode
<1>1. ASSUME SnapshotsInv
      PROVE  SnapshotsDecode
  <2> SUFFICES ASSUME clean, NEW p \in Threads, NEW i \in Frames(p), Complete(i),
                      NEW r \in load.registers
               PROVE  LET sources == {j \in Frames(p) : j <= i /\ Complete(j) /\ r \in log[j].value.mask}
                      IN  sources # {} /\ PartValue(Max(sources), r) = log[i].value.context[r]
    BY DEF SnapshotsDecode
  <2> DEFINE sources == {j \in Frames(p) : j <= i /\ Complete(j) /\ r \in log[j].value.mask}
  <2>0. FramesTrue(log, producer, cache, frame, load.registers) /\ log \in Seq(Events)
    BY <1>1 DEF SnapshotsInv, FramesClean, RecTypes, FilesOK
  <2>1. DOMAIN log = 1..Len(log) /\ Len(log) \in Nat
    BY <2>0, FramesNumbered
  <2>2. \A j \in DOMAIN log : PartsOf(j) = Shown(log, j)
    BY DEF PartsOf, Shown
  <2>3. \A j : j \in sources <=> j <= i /\ j \in Sources(log, p, r)
    BY <2>2 DEF Frames, Complete, Sources, Whole
  <2>4. i \in DOMAIN log /\ Whole(log, i) /\ log[i].thread = p
    BY <2>2 DEF Frames, Complete, Whole
  <2>5. LastSays(log, p, r, i, log[i].value.context[r])
    BY <2>0, <2>4 DEF FramesTrue, Decoded, Decodes
  <2>6. PICK j \in Sources(log, p, r) :
          /\ j <= i /\ log[j].value.context[r] = log[i].value.context[r]
          /\ \A k \in Sources(log, p, r) : k <= i => k <= j
    BY <2>5 DEF LastSays
  <2>7. j \in sources /\ \A k \in sources : k <= j /\ k \in Nat
    BY <2>1, <2>3, <2>6 DEF Sources
  <2> HIDE DEF sources
  <2>8. Max(sources) = j
    <3>1. Max(sources) = CHOOSE x \in sources : \A y \in sources : x >= y
      BY DEF Max
    <3>2. \A y \in sources : j >= y
      BY <2>7
    <3>3. \A x \in sources : (\A y \in sources : x >= y) => x = j
      BY <2>7
    <3> QED
      BY <2>7, <3>1, <3>2, <3>3
  <2>9. PartValue(j, r) = log[j].value.context[r]
    <3> DEFINE k0 == CHOOSE k \in DOMAIN log : log[k].kind = "part" /\ log[k].frame = log[j].frame
                                               /\ log[k].value[1] = r
    <3>1. j \in DOMAIN log /\ log[j].kind = "header" /\ r \in Shown(log, j)
      BY <2>6 DEF Sources, Whole
    <3>2. \E k \in DOMAIN log : log[k].kind = "part" /\ log[k].frame = log[j].frame
                                /\ log[k].value[1] = r
      BY <3>1, ShownIs
    <3>3. k0 \in DOMAIN log /\ log[k0].kind = "part" /\ log[k0].frame = log[j].frame
          /\ log[k0].value[1] = r
      BY <3>2
    <3>4. PartValue(j, r) = log[k0].value[2]
      BY DEF PartValue
    <3> HIDE DEF k0
    <3>5. PartsTrue(log)
      BY <2>0 DEF FramesTrue
    <3> QED
      BY <3>1, <3>3, <3>4, <3>5 DEF PartsTrue
  <2>10. sources # {} /\ PartValue(Max(sources), r) = log[i].value.context[r]
    BY <2>6, <2>7, <2>8, <2>9
  <2> QED
    BY <2>10 DEF sources
<1> QED
  BY <1>1, SnapshotsAlways, PTL

(***************************************************************************)
(* The database is whole                                                   *)
(***************************************************************************)

\* The rows that were imported are the beginning of a version.
Begins(rows, v) == Len(rows) <= Len(v) /\ \A i \in 1..Len(rows) : rows[i] = v[i]

\* An import that still finds its version there has a part of it, at the second
\* look all of it; what passed that look is the version it is named after.
ReaderOK(r) ==
  /\ DOMAIN reader[r] = {"pc", "stamp", "rows", "before", "got", "served"}
  /\ reader[r].rows \in Seq(Records)
  /\ reader[r].stamp \in 0..Now
  /\ reader[r].pc \in {"check", "header"} => reader[r].rows = <<>>
  /\ reader[r].pc \in {"check", "header", "read", "restat", "remove", "rename"} => reader[r].stamp > 0
  /\ reader[r].pc = "read" /\ Now = reader[r].stamp => Begins(reader[r].rows, OnDisk)
  /\ reader[r].pc = "restat" /\ Now = reader[r].stamp => reader[r].rows = OnDisk
  /\ reader[r].pc \in {"remove", "rename"} => reader[r].rows = versions[reader[r].stamp]

SidecarOK == sidecar # None => sidecar.stamp \in 1..Now /\ SidecarWhole

IndexInv ==
  /\ versions \in Seq(Seq(Records))
  /\ DOMAIN reader = Readers /\ \A r \in Readers : ReaderOK(r)
  /\ SidecarOK

\* A new version changes none of the old ones.
LEMMA VersionsGrow ==
  ASSUME IndexInv, NEW v \in Seq(Records), versions' = Append(versions, v), UNCHANGED <<sidecar, reader>>
  PROVE  IndexInv'
<1>1. Now \in Nat /\ versions \in Seq(Seq(Records))
  BY LenProperties DEF IndexInv, Now
<1>2. /\ versions' \in Seq(Seq(Records)) /\ Now' = Now + 1
      /\ \A n \in 1..Now : versions'[n] = versions[n]
  BY <1>1, AppendProperties DEF Now
<1>3. ASSUME NEW r \in Readers
      PROVE  ReaderOK(r)'
  <2>1. ReaderOK(r) /\ reader'[r] = reader[r]
    BY DEF IndexInv
  <2>2. reader[r].stamp \in 0..Now' /\ Now' # reader[r].stamp
    BY <1>1, <1>2, <2>1 DEF ReaderOK
  <2>3. reader[r].pc \in {"remove", "rename"} => reader[r].rows = versions'[reader[r].stamp]
    <3>1. reader[r].pc \in {"remove", "rename"} => reader[r].stamp \in 1..Now
      BY <1>1, <2>1 DEF ReaderOK
    <3> QED
      BY <1>2, <2>1, <3>1 DEF ReaderOK
  <2> QED
    BY <2>1, <2>2, <2>3 DEF ReaderOK
<1>4. SidecarOK'
  <2>1. sidecar # None => sidecar.stamp \in 1..Now /\ sidecar.rows = versions[sidecar.stamp]
    BY DEF IndexInv, SidecarOK, SidecarWhole
  <2>2. 1..Now \subseteq 1..Now'
    BY <1>1, <1>2
  <2> QED
    BY <1>2, <2>1, <2>2 DEF SidecarOK, SidecarWhole
<1> QED
  BY <1>2, <1>3, <1>4 DEF IndexInv

\* Another query.
LEMMA QueryMoved ==
  ASSUME IndexInv, NEW r \in Readers, NEW fields, Query(r, fields), versions' = versions,
         DOMAIN fields = {"pc", "stamp", "rows", "before", "got", "served"},
         fields.rows \in Seq(Records), fields.stamp \in 0..Now,
         fields.pc \in {"check", "header"} => fields.rows = <<>>,
         fields.pc \in {"check", "header", "read", "restat", "remove", "rename"} => fields.stamp > 0,
         fields.pc = "read" /\ Now = fields.stamp => Begins(fields.rows, OnDisk),
         fields.pc = "restat" /\ Now = fields.stamp => fields.rows = OnDisk,
         fields.pc \in {"remove", "rename"} => fields.rows = versions[fields.stamp],
         SidecarOK'
  PROVE  IndexInv'
<1>1. DOMAIN reader' = Readers /\ reader'[r] = fields /\ \A q \in Readers : q # r => reader'[q] = reader[q]
  BY DEF IndexInv, Query
<1>2. Now' = Now /\ OnDisk' = OnDisk
  BY DEF Now, OnDisk
<1>3. ASSUME NEW q \in Readers
      PROVE  ReaderOK(q)'
  <2>1. CASE q = r
    BY <1>1, <1>2, <2>1 DEF ReaderOK
  <2>2. CASE q # r
    BY <1>1, <1>2, <2>2 DEF IndexInv, ReaderOK
  <2> QED
    BY <2>1, <2>2
<1> QED
  BY <1>1, <1>3 DEF IndexInv

LEMMA QueryStepKept ==
  ASSUME IndexInv, NEW r \in Readers, QueryStep(r)
  PROVE  IndexInv'
<1> DEFINE q == reader[r]
<1>0. /\ ReaderOK(r) /\ versions' = versions /\ Now \in Nat /\ versions \in Seq(Seq(Records))
      /\ \A n \in 1..Now : versions[n] \in Seq(Records)
  <2>1. versions' = versions
    BY DEF QueryStep, Stat, Check, OpenTrace, Import, Restat, RemoveStale, Install, Validate, Page, Again,
           OnlyQuery
  <2>2. versions \in Seq(Seq(Records)) /\ ReaderOK(r)
    BY DEF IndexInv
  <2> QED
    BY <2>1, <2>2, LenProperties, ElementOfSeq DEF Now
<1>1. /\ DOMAIN q = {"pc", "stamp", "rows", "before", "got", "served"}
      /\ q.rows \in Seq(Records) /\ q.stamp \in 0..Now
  BY <1>0 DEF ReaderOK
<1>2. sidecar' = sidecar => SidecarOK'
  BY <1>0 DEF IndexInv, SidecarOK, SidecarWhole, Now
<1>3. ASSUME Fails(r), sidecar' = sidecar
      PROVE  IndexInv'
  <2>1. /\ DOMAIN NoQuery = {"pc", "stamp", "rows", "before", "got", "served"}
        /\ NoQuery.pc = "idle" /\ NoQuery.rows = <<>> /\ NoQuery.stamp = 0
    BY DEF NoQuery
  <2>2. <<>> \in Seq(Records) /\ 0 \in 0..Now
    BY <1>0
  <2>3. Query(r, NoQuery)
    BY <1>3 DEF Fails
  <2> QED
    BY <1>0, <1>2, <1>3, <2>1, <2>2, <2>3, QueryMoved
\* A step that takes the query where nothing is known of its rows.
<1>4. ASSUME NEW pc \in {"open", "validate"}, Query(r, [q EXCEPT !.pc = pc]), SidecarOK'
      PROVE  IndexInv'
  <2> DEFINE fields == [q EXCEPT !.pc = pc]
  <2>1. DOMAIN fields = DOMAIN q /\ fields.pc = pc /\ fields.rows = q.rows /\ fields.stamp = q.stamp
    BY <1>1
  <2>2. Query(r, fields)
    BY <1>4
  <2> HIDE DEF fields, q
  <2> QED
    BY <1>0, <1>1, <1>4, <2>1, <2>2, QueryMoved
<1>5. CASE Stat(r)
  <2> DEFINE fields == [q EXCEPT !.pc = "check", !.stamp = Now, !.rows = <<>>]
  <2>1. Query(r, fields) /\ Now > 0 /\ sidecar' = sidecar
    BY <1>5 DEF Stat
  <2>2. DOMAIN fields = DOMAIN q /\ fields.pc = "check" /\ fields.rows = <<>> /\ fields.stamp = Now
    BY <1>1
  <2>3. <<>> \in Seq(Records) /\ Now \in 0..Now
    BY <1>0
  <2> HIDE DEF fields, q
  <2> QED
    BY <1>0, <1>1, <1>2, <2>1, <2>2, <2>3, QueryMoved
<1>6. CASE Check(r)
  <2>1. /\ Query(r, [q EXCEPT !.pc = "open"]) \/ Query(r, [q EXCEPT !.pc = "header"])
        /\ q.pc = "check" /\ sidecar' = sidecar
    BY <1>6 DEF Check
  <2>2. CASE Query(r, [q EXCEPT !.pc = "header"])
    <3> DEFINE fields == [q EXCEPT !.pc = "header"]
    <3>1. DOMAIN fields = DOMAIN q /\ fields.pc = "header" /\ fields.rows = q.rows /\ fields.stamp = q.stamp
      BY <1>1
    <3>2. Query(r, fields) /\ q.rows = <<>> /\ q.stamp > 0
      BY <1>0, <2>1, <2>2 DEF ReaderOK
    <3> HIDE DEF fields, q
    <3> QED
      BY <1>0, <1>1, <1>2, <2>1, <3>1, <3>2, QueryMoved
  <2> QED
    BY <1>2, <1>4, <2>1, <2>2
<1>7. CASE OpenTrace(r)
  <2>1. sidecar' = sidecar /\ q.pc = "header" /\ (Fails(r) \/ Query(r, [q EXCEPT !.pc = "read"]))
    BY <1>7 DEF OpenTrace
  <2>2. CASE Query(r, [q EXCEPT !.pc = "read"])
    <3> DEFINE fields == [q EXCEPT !.pc = "read"]
    <3>1. DOMAIN fields = DOMAIN q /\ fields.pc = "read" /\ fields.rows = q.rows /\ fields.stamp = q.stamp
      BY <1>1
    <3>2. Query(r, fields) /\ q.rows = <<>> /\ q.stamp > 0
      BY <1>0, <2>1, <2>2 DEF ReaderOK
    <3>3. Now = q.stamp => Begins(<<>>, OnDisk)
      <4>1. Now = q.stamp => OnDisk \in Seq(Records)
        BY <1>0, <3>2 DEF OnDisk
      <4> QED
        BY <4>1, LenProperties DEF Begins
    <3> HIDE DEF fields, q
    <3> QED
      BY <1>0, <1>1, <1>2, <2>1, <3>1, <3>2, <3>3, QueryMoved
  <2> QED
    BY <1>3, <2>1, <2>2
<1>8. CASE Import(r)
  <2>1. q.pc = "read" /\ q.stamp > 0 /\ sidecar' = sidecar
    BY <1>0, <1>8 DEF Import, ReaderOK
  <2>2. Now \in 1..Now /\ OnDisk \in Seq(Records) /\ Len(OnDisk) \in Nat /\ Len(q.rows) \in Nat
    <3>1. Now \in 1..Now
      BY <1>0, <1>1, <2>1
    <3> QED
      BY <1>0, <1>1, <3>1, LenProperties DEF OnDisk
  <2>3. Now = q.stamp => Begins(q.rows, OnDisk)
    BY <1>0, <2>1 DEF ReaderOK
  <2>4. CASE Len(q.rows) >= Len(OnDisk)
    <3> DEFINE fields == [q EXCEPT !.pc = "restat"]
    <3>1. DOMAIN fields = DOMAIN q /\ fields.pc = "restat" /\ fields.rows = q.rows /\ fields.stamp = q.stamp
      BY <1>1
    <3>2. Query(r, fields)
      BY <1>8, <2>4 DEF Import
    <3> HIDE DEF q
    <3>3. Begins(q.rows, OnDisk) => q.rows = OnDisk
      BY <1>1, <2>2, <2>4, SeqEqual DEF Begins
    <3> HIDE DEF fields
    <3> QED
      BY <1>0, <1>1, <1>2, <2>1, <2>3, <3>1, <3>2, <3>3, QueryMoved
  <2>5. CASE ~(Len(q.rows) >= Len(OnDisk)) /\ ~Fails(r)
    <3> DEFINE row == OnDisk[Len(q.rows) + 1]
               fields == [q EXCEPT !.rows = Append(q.rows, row)]
    <3>1. Query(r, fields)
      BY <1>8, <2>5 DEF Import
    <3>2. DOMAIN fields = DOMAIN q /\ fields.pc = q.pc /\ fields.rows = Append(q.rows, row)
          /\ fields.stamp = q.stamp
      BY <1>1
    <3> HIDE DEF q, fields
    <3>3. row \in Records
      BY <2>2, <2>5, ElementOfSeq
    <3>4. /\ Append(q.rows, row) \in Seq(Records) /\ Len(Append(q.rows, row)) = Len(q.rows) + 1
          /\ \A i \in 1..Len(q.rows) : Append(q.rows, row)[i] = q.rows[i]
          /\ Append(q.rows, row)[Len(q.rows) + 1] = row
      BY <1>1, <3>3, AppendProperties
    <3>5. Begins(q.rows, OnDisk) => Begins(Append(q.rows, row), OnDisk)
      BY <2>2, <2>5, <3>4 DEF Begins
    <3> HIDE DEF row
    <3> QED
      BY <1>0, <1>1, <1>2, <2>1, <2>3, <3>1, <3>2, <3>4, <3>5, QueryMoved
  <2> QED
    BY <1>3, <2>1, <2>4, <2>5
<1>9. CASE Restat(r)
  <2>1. sidecar' = sidecar /\ q.pc = "restat"
        /\ (Fails(r) \/ (Now = q.stamp /\ Query(r, [q EXCEPT !.pc = "remove"])))
    BY <1>9 DEF Restat
  <2>2. CASE (Now = q.stamp /\ Query(r, [q EXCEPT !.pc = "remove"]))
    <3> DEFINE fields == [q EXCEPT !.pc = "remove"]
    <3>1. DOMAIN fields = DOMAIN q /\ fields.pc = "remove" /\ fields.rows = q.rows /\ fields.stamp = q.stamp
      BY <1>1
    <3>2. Query(r, fields) /\ q.rows = versions[q.stamp] /\ q.stamp > 0
      BY <1>0, <2>1, <2>2 DEF ReaderOK, OnDisk
    <3> HIDE DEF fields, q
    <3> QED
      BY <1>0, <1>1, <1>2, <2>1, <3>1, <3>2, QueryMoved
  <2> QED
    BY <1>3, <2>1, <2>2
<1>10. CASE RemoveStale(r)
  <2> DEFINE fields == [q EXCEPT !.pc = "rename"]
  <2>1. Query(r, fields) /\ q.pc = "remove" /\ sidecar' = None
    BY <1>10 DEF RemoveStale
  <2>2. DOMAIN fields = DOMAIN q /\ fields.pc = "rename" /\ fields.rows = q.rows /\ fields.stamp = q.stamp
    BY <1>1
  <2>3. q.rows = versions[q.stamp] /\ q.stamp > 0
    BY <1>0, <2>1 DEF ReaderOK
  <2>4. SidecarOK'
    BY <2>1 DEF SidecarOK
  <2> HIDE DEF fields, q
  <2> QED
    BY <1>0, <1>1, <2>1, <2>2, <2>3, <2>4, QueryMoved
<1>11. CASE Install(r)
  <2>1. /\ Query(r, [q EXCEPT !.pc = "validate"]) /\ q.pc = "rename"
        /\ sidecar' = [stamp |-> q.stamp, rows |-> q.rows]
    BY <1>11 DEF Install
  <2>2. q.rows = versions[q.stamp] /\ q.stamp > 0
    BY <1>0, <2>1 DEF ReaderOK
  <2>3. sidecar'.stamp = q.stamp /\ sidecar'.rows = q.rows
    BY <2>1
  <2>4. q.stamp \in 1..Now /\ Now' = Now
    BY <1>0, <1>1, <2>2 DEF Now
  <2>5. SidecarOK'
    BY <1>0, <2>2, <2>3, <2>4 DEF SidecarOK, SidecarWhole
  <2> QED
    BY <1>4, <2>1, <2>5
<1>12. CASE Validate(r)
  <2>1. sidecar' = sidecar /\ (Fails(r) \/ Query(r, [q EXCEPT !.pc = "open"]))
    BY <1>12 DEF Validate
  <2> QED
    BY <1>2, <1>3, <1>4, <2>1
<1>13. CASE Page(r)
  <2>1. sidecar' = sidecar
    BY <1>13 DEF Page
  <2>2. CASE ~Fails(r)
    <3>0. PICK pc \in {"more", "done"} : \E before, got, served :
            Query(r, [q EXCEPT !.pc = pc, !.before = before, !.got = got, !.served = served])
      BY <1>13, <2>2 DEF Page
    <3>1. PICK before, got, served :
            Query(r, [q EXCEPT !.pc = pc, !.before = before, !.got = got, !.served = served])
      BY <3>0
    <3> DEFINE fields == [q EXCEPT !.pc = pc, !.before = before, !.got = got, !.served = served]
    <3>2. DOMAIN fields = DOMAIN q /\ fields.pc = pc /\ fields.rows = q.rows /\ fields.stamp = q.stamp
      BY <1>1
    <3>3. Query(r, fields)
      BY <3>1
    <3> HIDE DEF fields, q
    <3> QED
      BY <1>0, <1>1, <1>2, <2>1, <3>2, <3>3, QueryMoved
  <2> QED
    BY <1>3, <2>1, <2>2
<1>14. CASE Again(r)
  BY <1>3, <1>14 DEF Again
<1> QED
  BY <1>5, <1>6, <1>7, <1>8, <1>9, <1>10, <1>11, <1>12, <1>13, <1>14 DEF QueryStep

\* Whatever the agent writes meanwhile and however many connections build,
\* remove and replace it, the database next to a trace holds one version of the
\* file, whole (trace_query.rs:202-375).
THEOREM DatabaseWhole == Spec => []SidecarWhole
<1>1. Init => IndexInv
  <2> SUFFICES ASSUME Init
               PROVE  IndexInv
    OBVIOUS
  <2>1. versions \in Seq(Seq(Records)) /\ Now = 0
    BY DEF Init, Now
  <2>2. /\ DOMAIN NoQuery = {"pc", "stamp", "rows", "before", "got", "served"}
        /\ NoQuery.pc = "idle" /\ NoQuery.rows = <<>> /\ NoQuery.stamp = 0
    BY DEF NoQuery
  <2>3. <<>> \in Seq(Records) /\ 0 \in 0..Now
    BY <2>1
  <2>4. DOMAIN reader = Readers /\ \A r \in Readers : reader[r] = NoQuery
    BY DEF Init
  <2>5. \A r \in Readers : ReaderOK(r)
    BY <2>2, <2>3, <2>4 DEF ReaderOK
  <2>6. SidecarOK
    BY DEF Init, SidecarOK
  <2> QED
    BY <2>1, <2>4, <2>5, <2>6 DEF IndexInv
<1>2. IndexInv /\ RecorderInv /\ RecorderInv' /\ [Next]_vars => IndexInv'
  <2> SUFFICES ASSUME IndexInv, RecorderInv, RecorderInv', [Next]_vars
               PROVE  IndexInv'
    OBVIOUS
  <2>1. file \in Seq(Records) /\ file' \in Seq(Records) /\ <<>> \in Seq(Records)
    BY DEF RecorderInv, RecTypes, FilesOK
  <2>2. ASSUME UNCHANGED ivars
        PROVE  IndexInv'
    BY <2>2 DEF ivars, IndexInv, ReaderOK, SidecarOK, SidecarWhole, Now, OnDisk, Begins
  <2>3. CASE Record
    BY <2>1, <2>2, <2>3, VersionsGrow DEF Record, Disk, ivars
  <2>4. CASE Spill
    BY <2>1, <2>4, VersionsGrow DEF Spill
  <2>5. ASSUME NEW r \in Readers, QueryStep(r)
        PROVE  IndexInv'
    BY <2>5, QueryStepKept
  <2> QED
    BY <2>2, <2>3, <2>4, <2>5 DEF Next, vars
<1>3. IndexInv => SidecarWhole
  BY DEF IndexInv, SidecarOK, SidecarWhole
<1> QED
  BY <1>1, <1>2, <1>3, RecorderAlways, PTL DEF Spec
=============================================================================
