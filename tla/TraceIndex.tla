------------------------------ MODULE TraceIndex ------------------------------
(***************************************************************************)
(* The hub's queries of a trace file (trace_query.rs), against the agent   *)
(* that may still be writing it (Recorder).  A query makes sure of a       *)
(* sidecar database for the file as it is now and reads pages from it;     *)
(* several connections do so at once, without a lock.                      *)
(*                                                                         *)
(* A version of the file is named by its size and modification time, which *)
(* are taken to tell versions apart.                                       *)
(***************************************************************************)
EXTENDS Recorder

CONSTANTS
  Readers,      \* hub connections that query
  Limit,        \* rows of a page
  MaxVersions   \* bound: versions of the file

VARIABLES
  versions,   \* the contents the file has had on disk; the last one is there now
  sidecar,    \* the database next to it: [stamp, rows], or None
  reader      \* the queries

ivars == <<versions, sidecar, reader>>
vars == <<recvars, ivars>>

NoQuery == [pc |-> "idle", stamp |-> 0, rows |-> <<>>, before |-> 0, got |-> <<>>, served |-> {}]

Init ==
  /\ RecInit
  /\ versions = <<>> /\ sidecar = None
  /\ reader = [r \in Readers |-> NoQuery]

Now == Len(versions)
OnDisk == versions[Now]

\* A step of the agent.  The file is created empty, the buffered writer spills
\* what it holds when it is full, and everything is on disk before DRAIN_DONE.
Disk ==
  /\ versions' = IF sessions' # sessions THEN Append(versions, <<>>)
                 ELSE IF rec'.done /\ ~rec.done THEN Append(versions, file') ELSE versions
  /\ UNCHANGED <<sidecar, reader>>

Record == RecNext /\ Disk

Spill ==
  /\ load.readers # {} /\ Now \in 1..(MaxVersions - 1) /\ OnDisk # file /\ ~rec.done
  /\ versions' = Append(versions, file)
  /\ UNCHANGED <<recvars, sidecar, reader>>

Query(r, fields) == reader' = [reader EXCEPT ![r] = fields]
Fails(r) == Query(r, NoQuery)
OnlyQuery == UNCHANGED <<recvars, versions>>

\* ensure_database: size and time of the file.
Stat(r) ==
  /\ reader[r].pc \in {"idle", "more"} /\ Now > 0
  /\ r \in load.readers
  /\ Query(r, [reader[r] EXCEPT !.pc = "check", !.stamp = Now, !.rows = <<>>])
  /\ UNCHANGED <<recvars, versions, sidecar>>

\* database_info: a sidecar of this version is used as it is.
Check(r) ==
  /\ reader[r].pc = "check"
  /\ Query(r, [reader[r] EXCEPT !.pc =
       IF sidecar # None /\ sidecar.stamp = reader[r].stamp THEN "open" ELSE "header"])
  /\ UNCHANGED sidecar /\ OnlyQuery

\* open_trace: a file without its header is refused.
OpenTrace(r) ==
  /\ reader[r].pc = "header"
  /\ IF OnDisk = <<>> THEN Fails(r) ELSE Query(r, [reader[r] EXCEPT !.pc = "read"])
  /\ UNCHANGED sidecar /\ OnlyQuery

\* build_database: record by record from the file as it is by then; a number
\* that is already there fails the import.
Import(r) ==
  /\ reader[r].pc = "read"
  /\ LET got == reader[r].rows
     IN  IF Len(got) >= Len(OnDisk) THEN Query(r, [reader[r] EXCEPT !.pc = "restat"])
         ELSE IF \E i \in DOMAIN got : got[i].seq = OnDisk[Len(got) + 1].seq THEN Fails(r)
         ELSE Query(r, [reader[r] EXCEPT !.rows = Append(@, OnDisk[Len(got) + 1])])
  /\ UNCHANGED sidecar /\ OnlyQuery

\* Mutant: the import is trusted without a second look at the file.
RestatSkipped(r) ==
  /\ reader[r].pc = "restat"
  /\ Query(r, [reader[r] EXCEPT !.pc = "remove"])
  /\ UNCHANGED sidecar /\ OnlyQuery

\* A file that has changed meanwhile fails the query.
Restat(r) ==
  /\ reader[r].pc = "restat"
  /\ IF Now = reader[r].stamp THEN Query(r, [reader[r] EXCEPT !.pc = "remove"]) ELSE Fails(r)
  /\ UNCHANGED sidecar /\ OnlyQuery

\* The stale database is removed, the new one renamed into its place.
RemoveStale(r) ==
  /\ reader[r].pc = "remove"
  /\ sidecar' = None
  /\ Query(r, [reader[r] EXCEPT !.pc = "rename"]) /\ OnlyQuery

Install(r) ==
  /\ reader[r].pc = "rename"
  /\ sidecar' = [stamp |-> reader[r].stamp, rows |-> reader[r].rows]
  /\ Query(r, [reader[r] EXCEPT !.pc = "validate"]) /\ OnlyQuery

Validate(r) ==
  /\ reader[r].pc = "validate"
  /\ IF sidecar # None /\ sidecar.stamp = reader[r].stamp
     THEN Query(r, [reader[r] EXCEPT !.pc = "open"]) ELSE Fails(r)
  /\ UNCHANGED sidecar /\ OnlyQuery

\* Predicate: the rows of the kind asked for.
Matching(rows) == SelectSeq(rows, LAMBDA row : row.event.kind \in {"exec", "repeat"})

Eligible(rows, before) == SelectSeq(Matching(rows), LAMBDA row : before = 0 \/ row.seq < before)

\* query: the newest rows before the position; more of them are announced.
Page(r) ==
  /\ reader[r].pc = "open"
  /\ IF sidecar = None THEN Fails(r)   \* SQLite finds, or makes, an empty database
     ELSE LET all == Eligible(sidecar.rows, reader[r].before)
              page == SubSeq(all, Max({1, Len(all) - Limit + 1}), Len(all))
              older == Len(all) > Len(page)
          IN  Query(r, [reader[r] EXCEPT
                !.pc = IF older THEN "more" ELSE "done",
                !.before = IF older THEN page[1].seq ELSE 0,
                !.got = page \o @, !.served = @ \union {sidecar.stamp}])
  /\ UNCHANGED sidecar /\ OnlyQuery

Again(r) ==
  /\ reader[r].pc = "done"
  /\ Fails(r) /\ UNCHANGED sidecar /\ OnlyQuery

QueryStep(r) ==
  \/ Stat(r) \/ Check(r) \/ OpenTrace(r) \/ Import(r) \/ Restat(r)
  \/ RemoveStale(r) \/ Install(r) \/ Validate(r) \/ Page(r) \/ Again(r)

Next == Record \/ Spill \/ \E r \in Readers : QueryStep(r)

\* Callbacks end, the drain thread runs, a call of the query server goes on.
Fairness ==
  /\ \A p \in Producers : WF_vars(Submits(p) /\ Disk)
  /\ WF_vars(DrainStep /\ Disk)
  /\ WF_vars((StartArm \/ StartSpawn \/ StartUnspawn \/ FlushWindow \/ ExtendMark \/ ExtendEnds) /\ Disk)

Spec == Init /\ [][Next]_vars /\ Fairness

(***************************************************************************)
(* Properties                                                              *)
(***************************************************************************)

\* Whoever builds, removes and replaces it meanwhile, the database holds one
\* version of the file, whole (trace_query.rs:202-375).
SidecarWhole == sidecar # None => sidecar.rows = versions[sidecar.stamp]

\* So it does, and a walk served from one database returns every matching record
\* of its version once, in order (trace_query.rs:30-105, 202-375).
AnswersWhole ==
  /\ SidecarWhole
  /\ \A r \in Readers :
       reader[r].pc = "done" =>
         \A k \in reader[r].served :
           reader[r].served = {k} => reader[r].got = Matching(versions[k])
=============================================================================
