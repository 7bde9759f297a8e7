-------------------------- MODULE ExactStopProofs ---------------------------
(***************************************************************************)
(* Proofs about ExactStop.  BaseInv: types, what an index may refer to,    *)
(* and who may be in the stub.  Placed: what brings a thread back onto its *)
(* instruction through redirect and rewind.  FreshInv: which slots the     *)
(* compiled callbacks refer to.  All three hold for all constants: edits   *)
(* while the application runs, steps and the entry's one-shot included.    *)
(***************************************************************************)
EXTENDS ExactStop, WellFoundedInduction, FiniteSetTheorems, TLAPS

\* A nonempty set of naturals has a first element.
LEMMA FirstIn ==
  ASSUME NEW S, S \subseteq Nat, S # {}
  PROVE  First(S) \in S
<1>1. \E x \in S : \A y \in S : ~(<<y, x>> \in OpToRel(<, Nat))
  BY NatLessThanWellFounded, WFMin
<1>2. PICK x \in S : \A y \in S : ~(<<y, x>> \in OpToRel(<, Nat))
  BY <1>1
<1>3. \A y \in S : x <= y
  <2>1. SUFFICES ASSUME NEW y \in S PROVE x <= y
    OBVIOUS
  <2>2. x \in Nat /\ y \in Nat
    BY <1>2
  <2>3. ~(y < x)
    BY <1>2, <2>2 DEF OpToRel
  <2> QED BY <2>2, <2>3
<1> QED BY <1>2, <1>3 DEF First

-----------------------------------------------------------------------------
\* What the compiled indices refer to.
Indexed ==
  /\ \A a \in Addrs :
       /\ cache[a].kind = "none" => cache[a] = NotCached
       /\ cache[a].kind = "bp" => cache[a].index \in SlotIndex
       /\ cache[a].kind = "step" => cache[a].index \in CandidateIndex
  /\ \A t \in Threads :
       /\ tpc[t] = "onHit" => tindex[t] \in SlotIndex
       /\ tpc[t] = "onStepHit" => tindex[t] \in CandidateIndex
       /\ tpc[t] # "run" => ip[t] \in Addrs

\* Where a rewind can lead.
Addressed ==
  /\ \A i \in SlotIndex : slots[i].active => slots[i].addr \in Addrs
  /\ \A t \in Threads : tpc[t] = "stopping" => taddr[t] \in Addrs
  /\ redirectTid # None => redirectAddr \in Addrs

\* Who may be in the stub.
StubOwned ==
  /\ \A t \in Threads : tpc[t] = "armed" \/ ip[t] = Stub => redirectTid = t
  /\ \A t \in Threads : ip[t] = Stub => tpc[t] = "run" /\ ~stopped
  /\ stopped => \A t \in Threads : tpc[t] = "run"
  /\ spc = "resume" => stopped

SlotRecords ==
  [used : BOOLEAN, id : Nat, addr : Addrs \cup {NoAddr}, active : BOOLEAN,
   oneShot : BOOLEAN]

SlotType ==
  slots \in [SlotIndex -> SlotRecords]

Flags == stopped \in BOOLEAN /\ stepping \in BOOLEAN /\ replay \in BOOLEAN

DataType ==
  /\ activeCount \in Int
  /\ nextId \in Nat
  /\ cache \in [Addrs -> [kind : {"none", "plain", "bp", "step"},
                          index : Nat]]
  /\ ip \in [Threads -> Positions]
  /\ at \in [Threads -> Addrs]
  /\ misled \subseteq Threads
  /\ tpc \in [Threads -> {"run", "onHit", "onStepHit", "stopping", "armed",
                          "exec"}]
  /\ tindex \in [Threads -> Nat]
  /\ taddr \in [Threads -> Addrs \cup {NoAddr}]
  /\ redirectTid \in Threads \cup {None}
  /\ redirectAddr \in Addrs \cup {NoAddr}
  /\ lastHit \in HitRecords
  /\ resumeSkip \in HitRecords
  /\ stepTid \in Threads \cup {None}
  /\ stepStart \in Addrs \cup {NoAddr}
  /\ candidates \in [CandidateIndex -> Addrs \cup {NoAddr}]
  /\ steps \in Nat
  /\ spc \in {"idle", "flush", "resume", "resumed"}
  /\ flushing \in Addrs \cup {NoAddr}

LEMMA TypeParts == TypeOK <=> SlotType /\ Flags /\ DataType
BY DEF TypeOK, SlotType, SlotRecords, Flags, DataType

LEMMA TypePartsNext == SlotType' /\ Flags' /\ DataType' => TypeOK'
BY DEF TypeOK, SlotType, SlotRecords, Flags, DataType

BaseInv == TypeOK /\ Indexed /\ Addressed /\ StubOwned

LEMMA Constants ==
  /\ Stub \notin Addrs /\ NoAddr \notin Addrs
  /\ SlotIndex \subseteq Nat /\ CandidateIndex \subseteq Nat
  /\ 0 \in Nat
BY ExactStopAssumption DEF Stub, NoAddr, SlotIndex, CandidateIndex

LEMMA InsType ==
  ASSUME TypeOK, NEW a \in Addrs
  PROVE  /\ OnIns(a) \in [kind : {"none", "plain", "bp", "step"}, index : Nat]
         /\ OnIns(a).kind # "none"
         /\ OnIns(a).kind = "bp" => OnIns(a).index \in LiveAt(a)
         /\ OnIns(a).kind = "step" => OnIns(a).index \in CandidatesAt(a)
<1>1. LiveAt(a) # {} => First(LiveAt(a)) \in LiveAt(a)
  BY FirstIn, Constants DEF LiveAt
<1>2. CandidatesAt(a) # {} => First(CandidatesAt(a)) \in CandidatesAt(a)
  BY FirstIn, Constants DEF CandidatesAt
<1> QED BY <1>1, <1>2, Constants DEF OnIns, Plain, LiveAt, CandidatesAt

LEMMA FlushType ==
  ASSUME TypeOK, NEW S, Flush(S)
  PROVE  /\ cache' \in [Addrs -> [kind : {"none", "plain", "bp", "step"},
                                  index : Nat]]
         /\ \A a \in Addrs : cache'[a] \in {cache[a], NotCached}
         /\ \A a \in Addrs \cap S : cache'[a] = NotCached
BY ExactStopAssumption DEF TypeOK, Flush, NotCached

LEMMA ReplaceSlot ==
  ASSUME SlotType, NEW i, NEW r \in SlotRecords
  PROVE  [slots EXCEPT ![i] = r] \in [SlotIndex -> SlotRecords]
BY DEF SlotType

LEMMA DeactivateSlot ==
  ASSUME SlotType, NEW i \in SlotIndex, NEW b \in BOOLEAN
  PROVE  [slots EXCEPT ![i].active = b] \in [SlotIndex -> SlotRecords]
BY DEF SlotType, SlotRecords

LEMMA BaseInit == Init => BaseInv
<1> SUFFICES ASSUME Init PROVE BaseInv
  OBVIOUS
<1> USE ExactStopAssumption, Constants
<1>1. SlotType
  BY DEF Init, SlotType, SlotRecords, EmptySlot, SlotIndex, NoAddr
<1>2. Flags
  BY Zenon DEF Init, Flags
<1>3. DataType
  BY DEF Init, DataType, NotCached, NoHit, Hit, HitRecords, Positions, NoAddr
<1>4. Indexed /\ Addressed /\ StubOwned
  BY DEF Init, Indexed, Addressed, StubOwned, EmptySlot, NotCached
<1> QED BY <1>1, <1>2, <1>3, <1>4, TypeParts DEF BaseInv

LEMMA BaseInstrument ==
  ASSUME NEW t \in Threads, BaseInv, Instrument(t)
  PROVE  BaseInv'
<1> USE Constants DEF vars, tableVars, threadVars, redirectVars, hitVars,
          stepVars, serverVars
<1>0. /\ SlotType /\ Flags /\ DataType /\ TypeOK
      /\ Indexed /\ Addressed /\ StubOwned
  BY TypeParts DEF BaseInv
<1>1. SlotType'
  BY <1>0, InsType DEF Instrument, SlotType
<1>2. Flags'
  BY <1>0, Zenon DEF Instrument, Flags
<1>3. DataType'
  BY <1>0, InsType DEF Instrument, DataType
<1>4. Indexed'
  BY <1>0, InsType DEF Instrument, LiveAt, CandidatesAt, Positions, Indexed,
     DataType, NotCached, Positions
<1>5. Addressed'
  BY <1>0, InsType DEF Instrument, Addressed
<1>6. StubOwned'
  BY <1>0, InsType DEF Instrument, StubOwned
<1> QED BY <1>1, <1>2, <1>3, <1>4, <1>5, <1>6, TypePartsNext DEF BaseInv

LEMMA BaseFetch ==
  ASSUME NEW t \in Threads, BaseInv, Fetch(t)
  PROVE  BaseInv'
<1> USE Constants DEF vars, tableVars, threadVars, redirectVars, hitVars,
          stepVars, serverVars
<1>0. /\ SlotType /\ Flags /\ DataType /\ TypeOK
      /\ Indexed /\ Addressed /\ StubOwned
  BY TypeParts DEF BaseInv
<1>a. ip[t] \in Addrs
  BY <1>0 DEF Fetch, DataType, Positions
<1>b. cache[ip[t]].kind \in {"plain", "bp", "step"} /\ cache[ip[t]].index \in Nat
  BY <1>0, <1>a DEF Fetch, DataType, Indexed
<1>c. /\ cache[ip[t]].kind = "plain" => Callback[cache[ip[t]].kind] = "exec"
      /\ cache[ip[t]].kind = "bp" => Callback[cache[ip[t]].kind] = "onHit"
      /\ cache[ip[t]].kind = "step" => Callback[cache[ip[t]].kind] = "onStepHit"
  BY <1>b DEF Callback
<1>1. SlotType'
  BY <1>0, <1>a, <1>b, <1>c DEF Fetch, Goto, SlotType
<1>2. Flags'
  BY <1>0, Zenon DEF Fetch, Goto, Flags
<1>3. DataType'
  BY <1>0, <1>a, <1>b, <1>c DEF Fetch, Goto, DataType
<1>4. Indexed'
  BY <1>0, <1>a, <1>b, <1>c DEF Fetch, Goto, Indexed, DataType
<1>5. Addressed'
  BY <1>0, <1>a, <1>b, <1>c DEF Fetch, Goto, Addressed
<1>6. StubOwned'
  BY <1>0, <1>a, <1>b, <1>c DEF Fetch, Goto, StubOwned
<1> QED BY <1>1, <1>2, <1>3, <1>4, <1>5, <1>6, TypePartsNext DEF BaseInv

LEMMA BaseExecute ==
  ASSUME NEW t \in Threads, BaseInv, Execute(t)
  PROVE  BaseInv'
<1> USE Constants DEF vars, tableVars, threadVars, redirectVars, hitVars,
          stepVars, serverVars
<1>0. /\ SlotType /\ Flags /\ DataType /\ TypeOK
      /\ Indexed /\ Addressed /\ StubOwned
  BY TypeParts DEF BaseInv
<1>1. SlotType'
  BY <1>0, ExactStopAssumption DEF Execute, Goto, SlotType
<1>2. Flags'
  BY <1>0, Zenon DEF Execute, Goto, Flags
<1>3. DataType'
  BY <1>0, ExactStopAssumption DEF Execute, Goto, Positions, DataType,
     SlotType, SlotRecords, Indexed, Addressed, StubOwned, NoAddr
<1>4. Indexed'
  BY <1>0, ExactStopAssumption DEF Execute, Goto, Indexed
<1>5. Addressed'
  BY <1>0, ExactStopAssumption DEF Execute, Goto, Addressed
<1>6. StubOwned'
  BY <1>0, ExactStopAssumption DEF Execute, Goto, StubOwned, Indexed
<1> QED BY <1>1, <1>2, <1>3, <1>4, <1>5, <1>6, TypePartsNext DEF BaseInv

LEMMA BaseOnHitInactive ==
  ASSUME NEW t \in Threads, BaseInv, OnHitInactive(t)
  PROVE  BaseInv'
<1> USE Constants DEF vars, tableVars, threadVars, redirectVars, hitVars,
          stepVars, serverVars
<1>0. /\ SlotType /\ Flags /\ DataType /\ TypeOK
      /\ Indexed /\ Addressed /\ StubOwned
  BY TypeParts DEF BaseInv
<1>1. SlotType'
  BY <1>0 DEF OnHitInactive, Leave, Goto, SlotType
<1>2. Flags'
  BY <1>0, Zenon DEF OnHitInactive, Leave, Goto, Flags
<1>3. DataType'
  BY <1>0 DEF OnHitInactive, Leave, Goto, DataType
<1>4. Indexed'
  BY <1>0 DEF OnHitInactive, Leave, Goto, Indexed, DataType
<1>5. Addressed'
  BY <1>0 DEF OnHitInactive, Leave, Goto, Addressed
<1>6. StubOwned'
  BY <1>0 DEF OnHitInactive, Leave, Goto, StubOwned
<1> QED BY <1>1, <1>2, <1>3, <1>4, <1>5, <1>6, TypePartsNext DEF BaseInv

LEMMA BaseOnHitStartReplay ==
  ASSUME NEW t \in Threads, BaseInv, OnHitStartReplay(t)
  PROVE  BaseInv'
<1> USE Constants DEF vars, tableVars, threadVars, redirectVars, hitVars,
          stepVars, serverVars
<1>0. /\ SlotType /\ Flags /\ DataType /\ TypeOK
      /\ Indexed /\ Addressed /\ StubOwned
  BY TypeParts DEF BaseInv
<1>1. SlotType'
  BY <1>0 DEF OnHitStartReplay, Leave, Goto, SlotType
<1>2. Flags'
  BY <1>0, Zenon DEF OnHitStartReplay, Leave, Goto, Flags
<1>3. DataType'
  BY <1>0 DEF OnHitStartReplay, Leave, Goto, DataType
<1>4. Indexed'
  BY <1>0 DEF OnHitStartReplay, Leave, Goto, Indexed, DataType
<1>5. Addressed'
  BY <1>0 DEF OnHitStartReplay, Leave, Goto, Addressed
<1>6. StubOwned'
  BY <1>0 DEF OnHitStartReplay, Leave, Goto, StubOwned
<1> QED BY <1>1, <1>2, <1>3, <1>4, <1>5, <1>6, TypePartsNext DEF BaseInv

LEMMA BaseOnHitResumeReplay ==
  ASSUME NEW t \in Threads, BaseInv, OnHitResumeReplay(t)
  PROVE  BaseInv'
<1> USE Constants DEF vars, tableVars, threadVars, redirectVars, hitVars,
          stepVars, serverVars
<1>0. /\ SlotType /\ Flags /\ DataType /\ TypeOK
      /\ Indexed /\ Addressed /\ StubOwned
  BY TypeParts DEF BaseInv
<1>1. SlotType'
  BY <1>0 DEF OnHitResumeReplay, Leave, Goto, SlotType
<1>2. Flags'
  BY <1>0, Zenon DEF OnHitResumeReplay, Leave, Goto, Flags
<1>3. DataType'
  BY <1>0 DEF OnHitResumeReplay, Leave, Goto, NoHit, Hit, HitRecords,
     DataType, SlotType, SlotRecords, Indexed, Addressed, StubOwned, NoAddr
<1>4. Indexed'
  BY <1>0 DEF OnHitResumeReplay, Leave, Goto, Indexed, DataType
<1>5. Addressed'
  BY <1>0 DEF OnHitResumeReplay, Leave, Goto, Addressed
<1>6. StubOwned'
  BY <1>0 DEF OnHitResumeReplay, Leave, Goto, StubOwned
<1> QED BY <1>1, <1>2, <1>3, <1>4, <1>5, <1>6, TypePartsNext DEF BaseInv

LEMMA BaseOnHit ==
  ASSUME NEW t \in Threads, BaseInv, OnHit(t)
  PROVE  BaseInv'
<1> USE Constants DEF vars, tableVars, threadVars, redirectVars, hitVars,
          stepVars, serverVars
<1>0. /\ SlotType /\ Flags /\ DataType /\ TypeOK
      /\ Indexed /\ Addressed /\ StubOwned
  BY TypeParts DEF BaseInv
<1>a. tindex[t] \in SlotIndex /\ (~slots[tindex[t]].oneShot) \in BOOLEAN
  BY <1>0 DEF OnHit, Indexed
<1>b. misled' \subseteq Threads
  BY <1>0 DEF OnHit, Misled, DataType
<1>1. SlotType'
  BY <1>0, <1>a, DeactivateSlot DEF OnHit, SlotType
<1>2. Flags'
  BY <1>0, Zenon DEF OnHit, Leave, Goto, Flags
<1>3. DataType'
  BY <1>0, <1>a, <1>b DEF OnHit, Leave, Goto, NoHit, Hit, HitRecords, DataType,
     SlotType, SlotRecords, Indexed, Addressed, StubOwned, NoAddr
<1>4. Indexed'
  BY <1>0, <1>a DEF OnHit, Leave, Goto, Indexed, DataType
<1>5. Addressed'
  BY <1>0, <1>a DEF OnHit, Leave, Goto, Addressed, DataType
<1>6. StubOwned'
  BY <1>0, <1>a DEF OnHit, Leave, Goto, StubOwned
<1> QED BY <1>1, <1>2, <1>3, <1>4, <1>5, <1>6, TypePartsNext DEF BaseInv

LEMMA BaseOnStepHit ==
  ASSUME NEW t \in Threads, BaseInv, OnStepHit(t)
  PROVE  BaseInv'
<1> USE Constants DEF vars, tableVars, threadVars, redirectVars, hitVars,
          stepVars, serverVars
<1>0. /\ SlotType /\ Flags /\ DataType /\ TypeOK
      /\ Indexed /\ Addressed /\ StubOwned
  BY TypeParts DEF BaseInv
<1>b. misled' \subseteq Threads
  BY <1>0 DEF OnStepHit, Misled, DataType
<1>1. SlotType'
  BY <1>0 DEF OnStepHit, Leave, Goto, SlotType
<1>2. Flags'
  BY <1>0, Zenon DEF OnStepHit, Leave, Goto, Flags
<1>3. DataType'
  BY <1>0, <1>b DEF OnStepHit, Leave, Goto, Hit, HitRecords, DataType, SlotType,
     SlotRecords, Indexed, Addressed, StubOwned, NoAddr
<1>4. Indexed'
  BY <1>0 DEF OnStepHit, Leave, Goto, Indexed, DataType
<1>5. Addressed'
  BY <1>0 DEF OnStepHit, Leave, Goto, Hit, HitRecords, Addressed, Indexed,
     DataType, SlotType, SlotRecords
<1>6. StubOwned'
  BY <1>0 DEF OnStepHit, Leave, Goto, StubOwned
<1> QED BY <1>1, <1>2, <1>3, <1>4, <1>5, <1>6, TypePartsNext DEF BaseInv

LEMMA BaseRedirectArm ==
  ASSUME NEW t \in Threads, BaseInv, RedirectArm(t)
  PROVE  BaseInv'
<1> USE Constants DEF vars, tableVars, threadVars, redirectVars, hitVars,
          stepVars, serverVars
<1>0. /\ SlotType /\ Flags /\ DataType /\ TypeOK
      /\ Indexed /\ Addressed /\ StubOwned
  BY TypeParts DEF BaseInv
<1>1. SlotType'
  BY <1>0 DEF RedirectArm, Goto, SlotType
<1>2. Flags'
  BY <1>0, Zenon DEF RedirectArm, Goto, Flags
<1>3. DataType'
  BY <1>0, SMTT(30) DEF RedirectArm, Goto, DataType
<1>4. Indexed'
  BY <1>0 DEF RedirectArm, Goto, Indexed, DataType
<1>5. Addressed'
  BY <1>0 DEF RedirectArm, Goto, Addressed, DataType
<1>6. StubOwned'
  BY <1>0, ExactStopAssumption DEF RedirectArm, Goto, StubOwned, DataType
<1> QED BY <1>1, <1>2, <1>3, <1>4, <1>5, <1>6, TypePartsNext DEF BaseInv

LEMMA BaseExecuteAt ==
  ASSUME NEW t \in Threads, BaseInv, ExecuteAt(t)
  PROVE  BaseInv'
<1> USE Constants DEF vars, tableVars, threadVars, redirectVars, hitVars,
          stepVars, serverVars
<1>0. /\ SlotType /\ Flags /\ DataType /\ TypeOK
      /\ Indexed /\ Addressed /\ StubOwned
  BY TypeParts DEF BaseInv
<1>1. SlotType'
  BY <1>0 DEF ExecuteAt, Goto, SlotType
<1>2. Flags'
  BY <1>0, Zenon DEF ExecuteAt, Goto, Flags
<1>3. DataType'
  BY <1>0 DEF ExecuteAt, Goto, Positions, DataType
<1>4. Indexed'
  BY <1>0 DEF ExecuteAt, Goto, Indexed, DataType
<1>5. Addressed'
  BY <1>0 DEF ExecuteAt, Goto, Addressed, DataType
<1>6. StubOwned'
  BY <1>0 DEF ExecuteAt, Goto, StubOwned, DataType
<1> QED BY <1>1, <1>2, <1>3, <1>4, <1>5, <1>6, TypePartsNext DEF BaseInv

LEMMA BaseStopWorld ==
  ASSUME BaseInv, StopWorld
  PROVE  BaseInv'
<1> USE Constants DEF vars, tableVars, threadVars, redirectVars, hitVars,
          stepVars, serverVars
<1>0. /\ SlotType /\ Flags /\ DataType /\ TypeOK
      /\ Indexed /\ Addressed /\ StubOwned
  BY TypeParts DEF BaseInv
<1>1. SlotType'
  BY <1>0, ExactStopAssumption DEF StopWorld, SlotType
<1>2. Flags'
  BY <1>0, Zenon DEF StopWorld, CancelStep, Flags
<1>3. DataType'
  BY <1>0, ExactStopAssumption DEF StopWorld, Rewind, CancelStep, Positions,
     DataType, SlotType, SlotRecords, Indexed, Addressed, StubOwned, NoAddr
<1>4. Indexed'
  BY <1>0, ExactStopAssumption DEF StopWorld, Indexed
<1>5. Addressed'
  BY <1>0, ExactStopAssumption DEF StopWorld, Addressed
<1>6. StubOwned'
  BY <1>0, ExactStopAssumption DEF StopWorld, Rewind, CancelStep, Positions,
     StubOwned, Addressed, Indexed, DataType
<1> QED BY <1>1, <1>2, <1>3, <1>4, <1>5, <1>6, TypePartsNext DEF BaseInv

LEMMA BaseResumeWorld ==
  ASSUME BaseInv, ResumeWorld
  PROVE  BaseInv'
<1> USE Constants DEF vars, tableVars, threadVars, redirectVars, hitVars,
          stepVars, serverVars
<1>0. /\ SlotType /\ Flags /\ DataType /\ TypeOK
      /\ Indexed /\ Addressed /\ StubOwned
  BY TypeParts DEF BaseInv
<1>1. SlotType'
  BY <1>0 DEF ResumeWorld, SlotType
<1>2. Flags'
  BY <1>0, Zenon DEF ResumeWorld, Flags
<1>3. DataType'
  BY <1>0 DEF ResumeWorld, DataType
<1>4. Indexed'
  BY <1>0 DEF ResumeWorld, Indexed
<1>5. Addressed'
  BY <1>0 DEF ResumeWorld, Addressed
<1>6. StubOwned'
  BY <1>0 DEF ResumeWorld, StubOwned
<1> QED BY <1>1, <1>2, <1>3, <1>4, <1>5, <1>6, TypePartsNext DEF BaseInv

LEMMA BaseForgetHit ==
  ASSUME BaseInv, ForgetHit
  PROVE  BaseInv'
<1> USE Constants DEF vars, tableVars, threadVars, redirectVars, hitVars,
          stepVars, serverVars
<1>0. /\ SlotType /\ Flags /\ DataType /\ TypeOK
      /\ Indexed /\ Addressed /\ StubOwned
  BY TypeParts DEF BaseInv
<1>1. SlotType'
  BY <1>0 DEF ForgetHit, SlotType
<1>2. Flags'
  BY <1>0, Zenon DEF ForgetHit, Flags
<1>3. DataType'
  BY <1>0 DEF ForgetHit, NoHit, Hit, HitRecords, DataType, SlotType,
     SlotRecords, Indexed, Addressed, StubOwned, NoAddr
<1>4. Indexed'
  BY <1>0 DEF ForgetHit, Indexed
<1>5. Addressed'
  BY <1>0 DEF ForgetHit, Addressed
<1>6. StubOwned'
  BY <1>0 DEF ForgetHit, StubOwned
<1> QED BY <1>1, <1>2, <1>3, <1>4, <1>5, <1>6, TypePartsNext DEF BaseInv

LEMMA BaseHandleResume ==
  ASSUME BaseInv, HandleResume
  PROVE  BaseInv'
<1> USE Constants DEF vars, tableVars, threadVars, redirectVars, hitVars,
          stepVars, serverVars
<1>0. /\ SlotType /\ Flags /\ DataType /\ TypeOK
      /\ Indexed /\ Addressed /\ StubOwned
  BY TypeParts DEF BaseInv
<1>1. SlotType'
  BY <1>0 DEF HandleResume, SlotType
<1>2. Flags'
  BY <1>0, Zenon DEF HandleResume, Flags
<1>3. DataType'
  BY <1>0 DEF HandleResume, NoHit, Hit, HitRecords, DataType, SlotType,
     SlotRecords, Indexed, Addressed, StubOwned, NoAddr
<1>4. Indexed'
  BY <1>0 DEF HandleResume, Indexed
<1>5. Addressed'
  BY <1>0 DEF HandleResume, Addressed
<1>6. StubOwned'
  BY <1>0 DEF HandleResume, StubOwned
<1> QED BY <1>1, <1>2, <1>3, <1>4, <1>5, <1>6, TypePartsNext DEF BaseInv

LEMMA BaseHandleStep ==
  ASSUME NEW t \in Threads, NEW over \in BOOLEAN, BaseInv, HandleStep(t, over)
  PROVE  BaseInv'
<1> USE Constants DEF vars, tableVars, threadVars, redirectVars, hitVars,
          stepVars, serverVars
<1>0. /\ SlotType /\ Flags /\ DataType /\ TypeOK
      /\ Indexed /\ Addressed /\ StubOwned
  BY TypeParts DEF BaseInv
<1>1. SlotType'
  BY <1>0, FlushType DEF HandleStep, SlotType
<1>2. Flags'
  BY <1>0, Zenon DEF HandleStep, Flags
<1>3. DataType'
  BY <1>0, FlushType DEF HandleStep, Positions, DataType, SlotType,
     SlotRecords, Indexed, Addressed, StubOwned, NoAddr
<1>4. Indexed'
  BY <1>0, FlushType DEF HandleStep, Indexed, NotCached
<1>5. Addressed'
  BY <1>0, FlushType DEF HandleStep, Addressed
<1>6. StubOwned'
  BY <1>0, FlushType DEF HandleStep, StubOwned
<1> QED BY <1>1, <1>2, <1>3, <1>4, <1>5, <1>6, TypePartsNext DEF BaseInv

LEMMA BaseSetBreakpoint ==
  ASSUME NEW a \in Addrs, BaseInv, SetBreakpoint(a)
  PROVE  BaseInv'
<1> USE Constants DEF vars, tableVars, threadVars, redirectVars, hitVars,
          stepVars, serverVars
<1>0. /\ SlotType /\ Flags /\ DataType /\ TypeOK
      /\ Indexed /\ Addressed /\ StubOwned
  BY TypeParts DEF BaseInv
<1>a. [used |-> TRUE, id |-> nextId, addr |-> a, active |-> TRUE,
       oneShot |-> FALSE] \in SlotRecords
  BY <1>0 DEF DataType, SlotRecords
<1>1. SlotType'
  BY <1>0, <1>a, ReplaceSlot DEF SetBreakpoint, SlotType
<1>2. Flags'
  BY <1>0, Zenon DEF SetBreakpoint, Flags
<1>3. DataType'
  BY <1>0, <1>a, FirstIn DEF SetBreakpoint, DataType
<1>4. Indexed'
  BY <1>0, <1>a, FirstIn DEF SetBreakpoint, Indexed
<1>5. Addressed'
  BY <1>0, <1>a, FirstIn DEF SetBreakpoint, Addressed, SlotType
<1>6. StubOwned'
  BY <1>0, <1>a, FirstIn DEF SetBreakpoint, StubOwned
<1> QED BY <1>1, <1>2, <1>3, <1>4, <1>5, <1>6, TypePartsNext DEF BaseInv

LEMMA BaseFlushBreakpoint ==
  ASSUME BaseInv, FlushBreakpoint
  PROVE  BaseInv'
<1> USE Constants DEF vars, tableVars, threadVars, redirectVars, hitVars,
          stepVars, serverVars
<1>0. /\ SlotType /\ Flags /\ DataType /\ TypeOK
      /\ Indexed /\ Addressed /\ StubOwned
  BY TypeParts DEF BaseInv
<1>1. SlotType'
  BY <1>0, FlushType DEF FlushBreakpoint, SlotType
<1>2. Flags'
  BY <1>0, Zenon DEF FlushBreakpoint, Flags
<1>3. DataType'
  BY <1>0, FlushType DEF FlushBreakpoint, DataType
<1>4. Indexed'
  BY <1>0, FlushType DEF FlushBreakpoint, Indexed, NotCached
<1>5. Addressed'
  BY <1>0, FlushType DEF FlushBreakpoint, Addressed
<1>6. StubOwned'
  BY <1>0, FlushType DEF FlushBreakpoint, StubOwned
<1> QED BY <1>1, <1>2, <1>3, <1>4, <1>5, <1>6, TypePartsNext DEF BaseInv

LEMMA BaseRemoveBreakpoint ==
  ASSUME NEW i \in SlotIndex, BaseInv, RemoveBreakpoint(i)
  PROVE  BaseInv'
<1> USE Constants DEF vars, tableVars, threadVars, redirectVars, hitVars,
          stepVars, serverVars
<1>0. /\ SlotType /\ Flags /\ DataType /\ TypeOK
      /\ Indexed /\ Addressed /\ StubOwned
  BY TypeParts DEF BaseInv
<1>1. SlotType'
  BY <1>0, FlushType DEF RemoveBreakpoint, SlotType, SlotRecords
<1>2. Flags'
  BY <1>0, Zenon DEF RemoveBreakpoint, Flags
<1>3. DataType'
  BY <1>0, FlushType DEF RemoveBreakpoint, DataType
<1>4. Indexed'
  BY <1>0, FlushType DEF RemoveBreakpoint, Indexed, NotCached
<1>5. Addressed'
  BY <1>0, FlushType DEF RemoveBreakpoint, Addressed, SlotType
<1>6. StubOwned'
  BY <1>0, FlushType DEF RemoveBreakpoint, StubOwned
<1> QED BY <1>1, <1>2, <1>3, <1>4, <1>5, <1>6, TypePartsNext DEF BaseInv

LEMMA BaseNext ==
  ASSUME BaseInv, [Next]_vars
  PROVE  BaseInv'
<1>1. CASE UNCHANGED vars
  BY <1>1, TypeParts DEF BaseInv, TypeOK, Indexed, Addressed, StubOwned,
     LiveAt, vars, tableVars, threadVars, redirectVars, hitVars, stepVars,
     serverVars
<1>2. CASE \E t \in Threads : Instrument(t)
  BY <1>2, BaseInstrument
<1>3. CASE \E t \in Threads : Fetch(t)
  BY <1>3, BaseFetch
<1>4. CASE \E t \in Threads : Execute(t)
  BY <1>4, BaseExecute
<1>5. CASE \E t \in Threads : OnHitInactive(t)
  BY <1>5, BaseOnHitInactive
<1>6. CASE \E t \in Threads : OnHitStartReplay(t)
  BY <1>6, BaseOnHitStartReplay
<1>7. CASE \E t \in Threads : OnHitResumeReplay(t)
  BY <1>7, BaseOnHitResumeReplay
<1>8. CASE \E t \in Threads : OnHit(t)
  BY <1>8, BaseOnHit
<1>9. CASE \E t \in Threads : OnStepHit(t)
  BY <1>9, BaseOnStepHit
<1>10. CASE \E t \in Threads : RedirectArm(t)
  BY <1>10, BaseRedirectArm
<1>11. CASE \E t \in Threads : ExecuteAt(t)
  BY <1>11, BaseExecuteAt
<1>12. CASE StopWorld
  BY <1>12, BaseStopWorld
<1>13. CASE ResumeWorld
  BY <1>13, BaseResumeWorld
<1>14. CASE ForgetHit
  BY <1>14, BaseForgetHit
<1>15. CASE HandleResume
  BY <1>15, BaseHandleResume
<1>16. CASE \E t \in Threads, over \in BOOLEAN : HandleStep(t, over)
  BY <1>16, BaseHandleStep
<1>17. CASE \E a \in Addrs : SetBreakpoint(a)
  BY <1>17, BaseSetBreakpoint
<1>18. CASE FlushBreakpoint
  BY <1>18, BaseFlushBreakpoint
<1>19. CASE \E i \in SlotIndex : RemoveBreakpoint(i)
  BY <1>19, BaseRemoveBreakpoint
<1> QED
  BY <1>1, <1>2, <1>3, <1>4, <1>5, <1>6, <1>7, <1>8, <1>9, <1>10, <1>11,
      <1>12, <1>13, <1>14, <1>15, <1>16, <1>17, <1>18, <1>19 DEF Next,
      ThreadNext, ServerNext

LEMMA BaseAlways == Spec => []BaseInv
BY BaseInit, BaseNext, PTL DEF Spec

\* The type invariant: an index compiled into the code cache always refers to
\* a slot or a candidate, and a context is only ever put on an instruction.
THEOREM TypeCorrect == Spec => []TypeOK
BY BaseAlways, PTL DEF BaseInv

\* For every program, table size and client: the park stub (redirect_arm,
\* rewind_redirected, release_redirect) holds only the thread that owns the
\* redirect, so no stop or resume leaves a thread spinning in it.
THEOREM StubHasNoStraggler == Spec => []StubRewound
<1>1. BaseInv => StubRewound
  BY DEF BaseInv, StubOwned, StubRewound
<1> QED BY <1>1, BaseAlways, PTL

-----------------------------------------------------------------------------
(* Why a stop is exact: from the hit to the rewind, the address a thread is *)
(* put back on is the one of the instruction it has yet to execute, unless *)
(* its callback read another one's.                                        *)

Placed ==
  \A t \in Threads :
    /\ redirectTid = t /\ ~stopped => tpc[t] = "armed" \/ ip[t] = Stub
    /\ t \notin misled =>
         /\ ip[t] # Stub => ip[t] = at[t]
         /\ tpc[t] = "stopping" => taddr[t] = ip[t]
         /\ tpc[t] = "armed" => redirectAddr = ip[t]
         /\ ip[t] = Stub => redirectAddr = at[t]

LEMMA PlacedInit == Init => Placed
<1> SUFFICES ASSUME Init PROVE Placed
  OBVIOUS
<1>1. /\ ip \in [Threads -> Addrs] /\ at = ip /\ redirectTid = None
      /\ \A t \in Threads : tpc[t] = "run"
  BY DEF Init
<1>2. \A t \in Threads : ip[t] # Stub /\ t # None
  BY <1>1, ExactStopAssumption, Constants
<1> QED
  BY <1>1, <1>2 DEF Placed

\* Steps that move nobody, whatever they do to the table, the code cache and
\* the step, and put nobody on the way to the stub.
LEMMA PlacedFrame ==
  ASSUME BaseInv, Placed,
         UNCHANGED <<ip, at, misled, taddr, redirectTid, redirectAddr, stopped>>,
         \A t \in Threads :
           tpc'[t] = tpc[t] \/ (tpc[t] # "armed" /\ tpc'[t] \in
                                  {"run", "onHit", "onStepHit", "exec"})
  PROVE  Placed'
BY DEF Placed

LEMMA PlacedFetch ==
  ASSUME NEW t \in Threads, BaseInv, Placed, Fetch(t)
  PROVE  Placed'
<1>1. ip[t] \in Addrs /\ cache[ip[t]] # NotCached
  BY Constants DEF Fetch, BaseInv, TypeOK, Positions
<1>2. cache[ip[t]].kind \in {"plain", "bp", "step"}
  BY <1>1 DEF BaseInv, TypeOK, Indexed
<1>3. Callback[cache[ip[t]].kind] \in {"exec", "onHit", "onStepHit"}
  BY <1>2 DEF Callback
<1>4. tpc' = [tpc EXCEPT ![t] = Callback[cache[ip[t]].kind]] /\ tpc[t] = "run"
  BY DEF Fetch, Goto
<1>5. \A u \in Threads :
        tpc'[u] = tpc[u] \/ (tpc[u] # "armed" /\ tpc'[u] \in
                               {"run", "onHit", "onStepHit", "exec"})
  BY <1>3, <1>4 DEF BaseInv, TypeOK
<1> QED
  BY <1>5, PlacedFrame DEF Fetch, redirectVars

\* A callback that returns, and the compilation of an instruction.
LEMMA PlacedReturn ==
  ASSUME NEW t \in Threads, BaseInv, Placed,
         \/ Instrument(t) \/ OnHitInactive(t) \/ OnHitStartReplay(t)
         \/ OnHitResumeReplay(t)
  PROVE  Placed'
<1>1. UNCHANGED <<ip, at, misled, taddr, redirectTid, redirectAddr, stopped>>
  BY Zenon DEF Instrument, OnHitInactive, OnHitStartReplay, OnHitResumeReplay,
     threadVars, redirectVars
<1>2. tpc' = tpc \/ (tpc[t] = "onHit" /\ tpc' = [tpc EXCEPT ![t] = "exec"])
  BY DEF Instrument, OnHitInactive, OnHitStartReplay, OnHitResumeReplay,
         threadVars, Leave, Goto
<1>3. \A u \in Threads :
        tpc'[u] = tpc[u] \/ (tpc[u] # "armed" /\ tpc'[u] \in
                               {"run", "onHit", "onStepHit", "exec"})
  BY <1>2 DEF BaseInv, TypeOK
<1> QED
  BY <1>1, <1>3, PlacedFrame

\* The instruction executes: the thread is where it should be again.
LEMMA PlacedExecute ==
  ASSUME NEW t \in Threads, BaseInv, Placed, Execute(t)
  PROVE  Placed'
<1>1. PICK a \in Succ[ip[t]] : /\ ip' = [ip EXCEPT ![t] = a]
                               /\ at' = [at EXCEPT ![t] = a]
  BY DEF Execute
<1>2. /\ tpc[t] = "exec" /\ tpc' = [tpc EXCEPT ![t] = "run"]
      /\ misled' = misled \ {t}
      /\ UNCHANGED <<stopped, taddr, redirectTid, redirectAddr>>
  BY DEF Execute, Goto, redirectVars
<1>3. ip[t] \in Addrs /\ a \in Addrs /\ a # Stub
  BY <1>2, ExactStopAssumption, Constants DEF BaseInv, Indexed
<1>4. redirectTid # t
  BY <1>2, <1>3, Constants DEF Placed, BaseInv, StubOwned
<1>5. ip \in [Threads -> Positions] /\ at \in [Threads -> Addrs]
      /\ tpc \in [Threads -> {"run", "onHit", "onStepHit", "stopping",
                              "armed", "exec"}]
  BY DEF BaseInv, TypeOK
<1> QED
  BY <1>1, <1>2, <1>3, <1>4, <1>5 DEF Placed

\* A hit or a landing: what it reads is its own address, or it is misled.
LEMMA PlacedStop ==
  ASSUME NEW t \in Threads, NEW a, BaseInv, Placed,
         tpc[t] \in {"onHit", "onStepHit"},
         tpc' = [tpc EXCEPT ![t] = "stopping"],
         taddr' = [taddr EXCEPT ![t] = a], misled' = Misled(t, a),
         UNCHANGED <<ip, at, redirectTid, redirectAddr, stopped>>
  PROVE  Placed'
<1>1. /\ taddr \in [Threads -> Addrs \cup {NoAddr}]
      /\ tpc \in [Threads -> {"run", "onHit", "onStepHit", "stopping",
                              "armed", "exec"}]
  BY DEF BaseInv, TypeOK
<1>2. \A u \in Threads : u \notin misled' => u \notin misled
  BY DEF Misled
<1>3. t \notin misled' => a = ip[t]
  BY DEF Misled
<1> QED
  BY <1>1, <1>2, <1>3 DEF Placed

LEMMA PlacedOnHit ==
  ASSUME NEW t \in Threads, BaseInv, Placed, OnHit(t)
  PROVE  Placed'
<1> QED
  BY PlacedStop DEF OnHit, Leave, Goto, redirectVars

LEMMA PlacedOnStepHit ==
  ASSUME NEW t \in Threads, BaseInv, Placed, OnStepHit(t)
  PROVE  Placed'
<1> DEFINE a == candidates[tindex[t]]
           claim == /\ a # NoAddr
                    /\ ~(a # NoAddr /\ StartReplay(t, a))
                    /\ stepTid = t
                    /\ stepping
<1>1. /\ tpc[t] = "onStepHit"
      /\ tpc' = [tpc EXCEPT ![t] = IF claim THEN "stopping" ELSE "exec"]
      /\ taddr' = IF claim THEN [taddr EXCEPT ![t] = a] ELSE taddr
      /\ misled' = IF claim THEN Misled(t, a) ELSE misled
      /\ UNCHANGED <<ip, at, redirectTid, redirectAddr, stopped>>
  BY DEF OnStepHit, Leave, Goto, redirectVars
<1> HIDE DEF a, claim
<1>2. CASE claim
  BY <1>1, <1>2, PlacedStop
<1>3. CASE ~claim
  <2>1. \A u \in Threads :
          tpc'[u] = tpc[u] \/ (tpc[u] # "armed" /\ tpc'[u] \in
                                 {"run", "onHit", "onStepHit", "exec"})
    BY <1>1, <1>3 DEF BaseInv, TypeOK
  <2> QED
    BY <1>1, <1>3, <2>1, PlacedFrame
<1> QED
  BY <1>2, <1>3

\* The compare_exchange lets only one thread put its address beside the stub.
LEMMA PlacedRedirectArm ==
  ASSUME NEW t \in Threads, BaseInv, Placed, RedirectArm(t)
  PROVE  Placed'
<1>1. /\ tpc[t] = "stopping" /\ taddr' = [taddr EXCEPT ![t] = NoAddr]
      /\ UNCHANGED <<ip, at, misled, stopped>>
  BY DEF RedirectArm
<1>2. /\ tpc \in [Threads -> {"run", "onHit", "onStepHit", "stopping",
                              "armed", "exec"}]
      /\ taddr \in [Threads -> Addrs \cup {NoAddr}]
      /\ ip[t] \in Addrs /\ ip[t] # Stub
  BY <1>1, Constants DEF BaseInv, TypeOK, Indexed
<1>3. \A u \in Threads : tpc[u] = "armed" \/ ip[u] = Stub => redirectTid = u
  BY DEF BaseInv, StubOwned
<1>4. CASE redirectTid = None
  <2>1. /\ redirectTid' = t /\ redirectAddr' = taddr[t]
        /\ tpc' = [tpc EXCEPT ![t] = "armed"]
    BY <1>4 DEF RedirectArm, Goto
  <2>2. \A u \in Threads : tpc[u] # "armed" /\ ip[u] # Stub
    BY <1>3, <1>4, ExactStopAssumption
  <2> QED
    BY <1>1, <1>2, <2>1, <2>2 DEF Placed
<1>5. CASE redirectTid # None
  <2>1. /\ UNCHANGED <<redirectTid, redirectAddr>>
        /\ tpc' = [tpc EXCEPT ![t] = "exec"]
    BY <1>5 DEF RedirectArm, Goto, redirectVars
  <2> QED
    BY <1>1, <1>2, <2>1 DEF Placed
<1> QED
  BY <1>4, <1>5

\* Into the stub, or back out with the stub given up.
LEMMA PlacedExecuteAt ==
  ASSUME NEW t \in Threads, BaseInv, Placed, ExecuteAt(t)
  PROVE  Placed'
<1>1. /\ tpc[t] = "armed"
      /\ UNCHANGED <<at, misled, taddr, redirectAddr, stopped>>
      /\ \/ /\ ip' = [ip EXCEPT ![t] = Stub]
            /\ tpc' = [tpc EXCEPT ![t] = "run"]
            /\ redirectTid' = redirectTid
         \/ /\ redirectTid' = None
            /\ tpc' = [tpc EXCEPT ![t] = "exec"]
            /\ ip' = ip
  BY DEF ExecuteAt, Goto
<1>2. /\ tpc \in [Threads -> {"run", "onHit", "onStepHit", "stopping",
                              "armed", "exec"}]
      /\ ip \in [Threads -> Positions]
      /\ ip[t] \in Addrs /\ ip[t] # Stub /\ redirectTid = t /\ t # None
  BY <1>1, Constants, ExactStopAssumption
     DEF BaseInv, TypeOK, Indexed, StubOwned
<1>3. \A u \in Threads : u # t => /\ redirectTid # u
                                  /\ ip'[u] = ip[u] /\ tpc'[u] = tpc[u]
  BY <1>1, <1>2
<1>4. t \notin misled => ip[t] = at[t] /\ redirectAddr = at[t]
  BY <1>1, <1>2 DEF Placed
<1>5. CASE ip' = [ip EXCEPT ![t] = Stub]
  <2>1. ip'[t] = Stub /\ tpc'[t] = "run" /\ redirectTid' = redirectTid
    BY <1>1, <1>2, <1>5
  <2> QED
    BY <1>1, <1>2, <1>3, <1>4, <2>1 DEF Placed
<1>6. CASE ip' = ip
  <2>1. ip'[t] # Stub /\ tpc'[t] = "exec" /\ redirectTid' = None
    BY <1>1, <1>2, <1>6
  <2>2. \A u \in Threads : u # None
    BY ExactStopAssumption
  <2> QED
    BY <1>1, <1>2, <1>3, <1>4, <2>1, <2>2 DEF Placed
<1> QED
  BY <1>1, <1>5, <1>6

\* rewind_redirected takes the owner out of the stub, and nobody else is in it.
LEMMA PlacedStopWorld ==
  ASSUME BaseInv, Placed, StopWorld
  PROVE  Placed'
<1>1. /\ ~stopped /\ stopped' = TRUE /\ \A t \in Threads : tpc[t] = "run"
      /\ UNCHANGED <<at, misled, tpc, taddr, redirectTid, redirectAddr>>
      /\ ip' = [t \in Threads |->
                  IF t = redirectTid THEN redirectAddr ELSE ip[t]]
  BY DEF StopWorld, Rewind, redirectVars
<1>2. \A t \in Threads : ip[t] = Stub => redirectTid = t
  BY DEF BaseInv, StubOwned
<1>3. redirectTid # None => redirectAddr # Stub
  BY Constants DEF BaseInv, Addressed
<1>4. \A t \in Threads : redirectTid = t => ip[t] = Stub
  BY <1>1 DEF Placed
<1>5. \A t \in Threads : t # None
  BY ExactStopAssumption
<1> QED
  BY <1>1, <1>2, <1>3, <1>4, <1>5 DEF Placed

LEMMA PlacedResumeWorld ==
  ASSUME BaseInv, Placed, ResumeWorld
  PROVE  Placed'
<1>1. /\ UNCHANGED <<ip, at, misled, tpc, taddr, redirectAddr>>
      /\ redirectTid' = None
  BY DEF ResumeWorld, threadVars
<1> QED
  BY <1>1, ExactStopAssumption DEF Placed

LEMMA PlacedNext ==
  ASSUME BaseInv, Placed, [Next]_vars
  PROVE  Placed'
<1>1. ASSUME \/ ForgetHit \/ HandleResume \/ FlushBreakpoint
             \/ \E t \in Threads, over \in BOOLEAN : HandleStep(t, over)
             \/ \E a \in Addrs : SetBreakpoint(a)
             \/ \E i \in SlotIndex : RemoveBreakpoint(i)
             \/ UNCHANGED vars
      PROVE  Placed'
  <2>1. UNCHANGED <<ip, at, misled, tpc, taddr, redirectTid, redirectAddr,
                    stopped>>
    BY <1>1, Zenon DEF ForgetHit, HandleResume, FlushBreakpoint, HandleStep,
       SetBreakpoint, RemoveBreakpoint, vars, threadVars, redirectVars
  <2> QED
    BY <2>1, PlacedFrame
<1> QED
  BY <1>1, PlacedReturn, PlacedFetch, PlacedExecute, PlacedOnHit,
     PlacedOnStepHit, PlacedRedirectArm, PlacedExecuteAt, PlacedStopWorld,
     PlacedResumeWorld DEF Next, ThreadNext, ServerNext

\* "The stop is exact and side-effect-free" (bp.rs) as far as the code bears
\* it out, for every program, table size, number of threads and client:
\* whatever is edited while the application runs, stepped, or hit by several
\* threads at once, a stopped context is on the instruction yet to be executed
\* unless the thread's own callback read another address from its slot.
THEOREM StopIsExact == Spec => []StopExact
<1>1. BaseInv /\ Placed => StopExact
  <2> SUFFICES ASSUME BaseInv, Placed, stopped, NEW t \in Threads,
                      t \notin misled
               PROVE  ip[t] = at[t]
    BY DEF StopExact
  <2>1. ip[t] # Stub
    BY DEF BaseInv, StubOwned
  <2> QED
    BY <2>1 DEF Placed
<1> QED BY <1>1, PlacedInit, PlacedNext, BaseAlways, PTL DEF Spec

-----------------------------------------------------------------------------
(* Which slots the compiled callbacks refer to.                            *)

\* Only the entry has a one-shot, and a slot that can be hit is in use.
OneShotAtEntry ==
  \A i \in SlotIndex :
    /\ slots[i].active => slots[i].used
    /\ slots[i].active /\ slots[i].oneShot => slots[i].addr = Entry

FreshInv == FreshCallbacks /\ OneShotAtEntry

LEMMA FreshInit == Init => FreshInv
BY ExactStopAssumption, Constants DEF Init, FreshInv, FreshCallbacks,
   OneShotAtEntry, EmptySlot, NotCached

\* Steps that leave the table alone and at most drop compiled code.
LEMMA FreshFrame ==
  ASSUME BaseInv, FreshInv, UNCHANGED slots,
         \A a \in Addrs : cache'[a] \in {cache[a], NotCached}
  PROVE  FreshInv'
BY DEF FreshInv, FreshCallbacks, OneShotAtEntry, Live, NotCached

LEMMA FreshInstrument ==
  ASSUME NEW t \in Threads, BaseInv, FreshInv, Instrument(t)
  PROVE  FreshInv'
<1>1. /\ ip[t] \in Addrs /\ cache' = [cache EXCEPT ![ip[t]] = OnIns(ip[t])]
      /\ UNCHANGED slots
  BY DEF Instrument, BaseInv, TypeOK, Positions, tableVars
<1>2. cache \in [Addrs -> [kind : {"none", "plain", "bp", "step"},
                           index : Nat]]
  BY DEF BaseInv, TypeOK
<1>3. OnIns(ip[t]).kind = "bp" => OnIns(ip[t]).index \in LiveAt(ip[t])
  BY <1>1, InsType DEF BaseInv
<1> QED
  BY <1>1, <1>2, <1>3
     DEF FreshInv, FreshCallbacks, OneShotAtEntry, LiveAt, Live

\* A hit spends only the entry's one-shot.
LEMMA FreshOnHit ==
  ASSUME NEW t \in Threads, BaseInv, FreshInv, OnHit(t)
  PROVE  FreshInv'
<1> DEFINE k == tindex[t]
           kept == ~slots[k].oneShot
<1>1. /\ k \in SlotIndex /\ slots[k].active /\ cache' = cache
      /\ slots' = [slots EXCEPT ![k].active = kept]
  BY DEF OnHit, BaseInv, Indexed
<1>2. slots \in [SlotIndex -> SlotRecords]
  BY TypeParts DEF BaseInv, SlotType
<1>3. kept <=> ~slots[k].oneShot
  OBVIOUS
<1> HIDE DEF k, kept
<1>4. /\ \A i \in SlotIndex : i # k => slots'[i] = slots[i]
      /\ slots'[k].used = slots[k].used /\ slots'[k].addr = slots[k].addr
      /\ slots'[k].oneShot = slots[k].oneShot
      /\ slots'[k].active = kept
  BY <1>1, <1>2 DEF SlotRecords
<1>5. OneShotAtEntry'
  BY <1>1, <1>3, <1>4 DEF FreshInv, OneShotAtEntry
<1>6. FreshCallbacks'
  <2> SUFFICES ASSUME NEW a \in Addrs, cache[a].kind = "bp", a # Entry
               PROVE  /\ slots'[cache[a].index].used
                      /\ slots'[cache[a].index].active
                      /\ slots'[cache[a].index].addr = a
    BY <1>1 DEF FreshCallbacks, Live
  <2>1. /\ Live(cache[a].index) /\ slots[cache[a].index].addr = a
        /\ cache[a].index \in SlotIndex
    BY DEF FreshInv, FreshCallbacks, BaseInv, Indexed
  <2> QED
    BY <1>1, <1>3, <1>4, <2>1 DEF Live, FreshInv, OneShotAtEntry
<1> QED
  BY <1>5, <1>6 DEF FreshInv

\* A slot that is given away is one no compiled callback names, or the entry's.
LEMMA FreshSet ==
  ASSUME NEW a \in Addrs, BaseInv, FreshInv, SetBreakpoint(a)
  PROVE  FreshInv'
<1>1. cache' = cache
  BY DEF SetBreakpoint
<1>2. CASE LiveAt(a) # {}
  BY <1>1, <1>2, FreshFrame DEF SetBreakpoint, tableVars
<1>3. CASE LiveAt(a) = {}
  <2> DEFINE k == First(Free)
             r == [used |-> TRUE, id |-> nextId, addr |-> a,
                   active |-> TRUE, oneShot |-> FALSE]
  <2>1. Free # {} /\ slots' = [slots EXCEPT ![k] = r]
    BY <1>3 DEF SetBreakpoint
  <2>2. k \in SlotIndex /\ ~Live(k)
    <3>1. First(Free) \in Free
      BY <2>1, FirstIn, Constants DEF Free
    <3> QED
      BY <3>1 DEF Free
  <2>3. slots \in [SlotIndex -> SlotRecords]
    BY TypeParts DEF BaseInv, SlotType
  <2> HIDE DEF k
  <2>4. /\ slots'[k] = r /\ \A i \in SlotIndex : i # k => slots'[i] = slots[i]
        /\ r.used /\ ~r.oneShot
    BY <2>1, <2>2, <2>3
  <2> HIDE DEF r
  <2>5. OneShotAtEntry'
    BY <2>4 DEF FreshInv, OneShotAtEntry
  <2>6. FreshCallbacks'
    <3> SUFFICES ASSUME NEW b \in Addrs, cache[b].kind = "bp", b # Entry
                 PROVE  /\ slots'[cache[b].index].used
                        /\ slots'[cache[b].index].active
                        /\ slots'[cache[b].index].addr = b
      BY <1>1 DEF FreshCallbacks, Live
    <3>1. /\ Live(cache[b].index) /\ slots[cache[b].index].addr = b
          /\ cache[b].index \in SlotIndex
      BY DEF FreshInv, FreshCallbacks, BaseInv, Indexed
    <3>2. cache[b].index # k
      BY <2>2, <3>1
    <3> QED
      BY <2>4, <3>1, <3>2 DEF Live
  <2> QED
    BY <2>5, <2>6 DEF FreshInv
<1> QED
  BY <1>2, <1>3

\* bp::remove flushes before it unlocks: no callback keeps the slot's index.
LEMMA FreshRemove ==
  ASSUME NEW k \in SlotIndex, BaseInv, FreshInv, RemoveBreakpoint(k)
  PROVE  FreshInv'
<1>1. /\ slots' = [slots EXCEPT ![k].active = FALSE, ![k].used = FALSE]
      /\ Flush({slots[k].addr})
  BY DEF RemoveBreakpoint
<1>2. slots \in [SlotIndex -> SlotRecords]
  BY TypeParts DEF BaseInv, SlotType
<1>3. /\ ~slots'[k].active
      /\ \A i \in SlotIndex : i # k => slots'[i] = slots[i]
  BY <1>1, <1>2 DEF SlotRecords
<1>4. /\ \A a \in Addrs : cache'[a] \in {cache[a], NotCached}
      /\ \A a \in Addrs \cap {slots[k].addr} : cache'[a] = NotCached
  BY <1>1, FlushType DEF BaseInv
<1>5. OneShotAtEntry'
  BY <1>3 DEF FreshInv, OneShotAtEntry
<1>6. FreshCallbacks'
  <2> SUFFICES ASSUME NEW a \in Addrs, cache'[a].kind = "bp", a # Entry
               PROVE  /\ slots'[cache'[a].index].used
                      /\ slots'[cache'[a].index].active
                      /\ slots'[cache'[a].index].addr = a
    BY DEF FreshCallbacks, Live
  <2>1. cache'[a] = cache[a] /\ cache'[a] # NotCached
    BY <1>4 DEF NotCached
  <2>2. /\ Live(cache[a].index) /\ slots[cache[a].index].addr = a
        /\ cache[a].index \in SlotIndex
    BY <2>1 DEF FreshInv, FreshCallbacks, BaseInv, Indexed
  <2>3. cache[a].index # k
    BY <1>4, <2>1, <2>2
  <2> QED
    BY <1>3, <2>1, <2>2, <2>3 DEF Live
<1> QED
  BY <1>5, <1>6 DEF FreshInv

LEMMA FreshNext ==
  ASSUME BaseInv, FreshInv, [Next]_vars
  PROVE  FreshInv'
<1> USE DEF tableVars
<1>1. ASSUME \/ \E t \in Threads :
                  \/ Fetch(t) \/ Execute(t) \/ OnHitInactive(t)
                  \/ OnHitStartReplay(t) \/ OnHitResumeReplay(t)
                  \/ OnStepHit(t) \/ RedirectArm(t) \/ ExecuteAt(t)
             \/ StopWorld \/ ResumeWorld \/ ForgetHit \/ HandleResume
             \/ UNCHANGED vars
      PROVE  FreshInv'
  <2>1. UNCHANGED <<slots, cache>>
    BY <1>1, Zenon DEF Fetch, Execute, OnHitInactive, OnHitStartReplay,
       OnHitResumeReplay, OnStepHit, RedirectArm, ExecuteAt, StopWorld,
       ResumeWorld, ForgetHit, HandleResume, vars
  <2> QED
    BY <2>1, FreshFrame
<1>2. ASSUME \/ \E t \in Threads, over \in BOOLEAN : HandleStep(t, over)
             \/ FlushBreakpoint
      PROVE  FreshInv'
  <2>1. UNCHANGED slots /\ \E S : Flush(S)
    BY <1>2 DEF HandleStep, FlushBreakpoint
  <2>2. \A a \in Addrs : cache'[a] \in {cache[a], NotCached}
    BY <2>1, FlushType DEF BaseInv
  <2> QED
    BY <2>1, <2>2, FreshFrame
<1> QED
  BY <1>1, <1>2, FreshInstrument, FreshOnHit, FreshSet, FreshRemove
     DEF Next, ThreadNext, ServerNext

\* For every program, table size and client: bp::remove never leaves a callback
\* in the code cache that refers to a slot it frees, so that, apart from the
\* entry's one-shot, a compiled callback reads its own breakpoint.
THEOREM CallbacksFresh == Spec => []FreshCallbacks
<1>1. FreshInv => FreshCallbacks
  BY DEF FreshInv
<1> QED BY <1>1, FreshInit, FreshNext, BaseAlways, PTL DEF Spec

-----------------------------------------------------------------------------
(* Why no breakpoint is missed, also when clients edit the table while the *)
(* application runs and while it is being stepped.  ACTIVE_COUNT is exact  *)
(* or too small: removing a one-shot that has fired takes it off a second  *)
(* time, for good, and any_active then hides live slots.                   *)

\* Live slots have addresses of their own, and no slot is active but unused.
TableExact ==
  /\ \A i \in SlotIndex : slots[i].active => slots[i].used
  /\ \A i, j \in LiveSlots : slots[i].addr = slots[j].addr => i = j
  /\ activeCount <= Cardinality(LiveSlots)

ArmedInv == TableExact /\ BreakpointArmed

LEMMA SlotsFinite ==
  /\ IsFiniteSet(LiveSlots)
  /\ Cardinality(LiveSlots) \in Nat
  /\ LiveSlots # {} => Cardinality(LiveSlots) # 0
<1>1. IsFiniteSet(SlotIndex)
  <2>1. 1 \in Int /\ NumSlots \in Int
    BY ExactStopAssumption
  <2> QED
    BY <2>1, FS_Interval DEF SlotIndex
<1>2. IsFiniteSet(LiveSlots)
  BY <1>1, FS_Subset DEF LiveSlots
<1> QED
  BY <1>2, FS_EmptySet, FS_CardinalityType

\* The empty table, or the entry's one-shot alone; nothing is compiled yet.
LEMMA ArmedInit == ASSUME Init PROVE ArmedInv
<1> USE ExactStopAssumption DEF Init
<1>1. \A i \in SlotIndex :
        slots[i] = IF i = 1 /\ Entry # None
                   THEN [used |-> TRUE, id |-> 1, addr |-> Entry,
                         active |-> TRUE, oneShot |-> TRUE]
                   ELSE EmptySlot
  OBVIOUS
<1>2. LiveSlots = IF Entry = None THEN {} ELSE {1}
  <2>1. 1 \in SlotIndex
    BY DEF SlotIndex
  <2>2. \A i \in SlotIndex : Live(i) <=> (i = 1 /\ Entry # None)
    BY <1>1 DEF Live, EmptySlot
  <2> QED
    BY <2>1, <2>2, Zenon DEF LiveSlots
<1>3. activeCount = Cardinality(LiveSlots)
  <2>1. Cardinality({}) = 0 /\ Cardinality({1}) = 1
    BY FS_EmptySet, FS_Singleton
  <2> QED
    BY <1>2, <2>1
<1>4. TableExact
  <2>1. \A i \in SlotIndex : slots[i].active => slots[i].used
    BY <1>1 DEF EmptySlot
  <2>2. activeCount <= Cardinality(LiveSlots)
    BY <1>3, SlotsFinite
  <2>3. \A i, j \in LiveSlots : i = j
    BY <1>2
  <2> QED
    BY <2>1, <2>2, <2>3 DEF TableExact
<1>5. BreakpointArmed
  <2>1. \A i \in LiveSlots : slots[i].addr \in Addrs
    BY <1>1, <1>2 DEF LiveSlots
  <2>2. \A a \in Addrs : cache[a] = NotCached
    OBVIOUS
  <2> QED
    BY <2>1, <2>2 DEF BreakpointArmed
<1> QED
  BY <1>4, <1>5 DEF ArmedInv

\* Steps that leave the table alone and at most drop compiled code.
LEMMA ArmedFrame ==
  ASSUME BaseInv, ArmedInv, UNCHANGED <<slots, activeCount>>,
         \A a \in Addrs : cache'[a] \in {cache[a], NotCached},
         UNCHANGED <<spc, flushing>> \/ spc # "flush"
  PROVE  ArmedInv'
<1>1. LiveSlots' = LiveSlots /\ TableExact'
  BY DEF ArmedInv, TableExact, LiveSlots, Live
<1>2. BreakpointArmed'
  <2> SUFFICES ASSUME activeCount = Cardinality(LiveSlots), NEW i \in LiveSlots,
                      ~(spc' = "flush" /\ flushing' = slots[i].addr)
               PROVE  cache'[slots[i].addr] \in
                        {NotCached, [kind |-> "bp", index |-> i]}
    BY <1>1 DEF BreakpointArmed
  <2>1. slots[i].addr \in Addrs
    BY DEF BaseInv, Addressed, Live, LiveSlots
  <2>2. ~(spc = "flush" /\ flushing = slots[i].addr)
    OBVIOUS
  <2>3. cache[slots[i].addr] \in {NotCached, [kind |-> "bp", index |-> i]}
    BY <2>2 DEF ArmedInv, BreakpointArmed
  <2> QED
    BY <2>1, <2>3
<1> QED
  BY <1>1, <1>2 DEF ArmedInv

\* While the count is exact, on_ins sees a live slot whatever the table went
\* through.
LEMMA ArmedInstrument ==
  ASSUME NEW t \in Threads, BaseInv, ArmedInv, Instrument(t)
  PROVE  ArmedInv'
<1> USE DEF ArmedInv
<1> DEFINE b == ip[t]
<1>1. /\ b \in Addrs /\ cache' = [cache EXCEPT ![b] = OnIns(b)]
      /\ UNCHANGED <<slots, activeCount, spc, flushing>>
  BY TypeParts DEF Instrument, BaseInv, TypeOK, Positions, tableVars,
                   serverVars
<1>2. LiveSlots' = LiveSlots /\ TableExact'
  BY <1>1 DEF TableExact, LiveSlots, Live
<1>3. BreakpointArmed'
  <2> SUFFICES ASSUME activeCount = Cardinality(LiveSlots), NEW i \in LiveSlots,
                      ~(spc = "flush" /\ flushing = slots[i].addr)
               PROVE  cache'[slots[i].addr] \in
                        {NotCached, [kind |-> "bp", index |-> i]}
    BY <1>1, <1>2 DEF BreakpointArmed
  <2>1. slots[i].addr \in Addrs
    BY DEF BaseInv, Addressed, Live, LiveSlots
  <2>2. cache \in [Addrs -> [kind : {"none", "plain", "bp", "step"},
                             index : Nat]]
    BY DEF BaseInv, TypeOK
  <2>3. CASE slots[i].addr # b
    BY <1>1, <2>1, <2>2, <2>3 DEF BreakpointArmed
  <2>4. CASE slots[i].addr = b
    <3>1. i \in LiveAt(b) /\ i \in LiveSlots /\ i \in SlotIndex
      BY <2>4 DEF LiveAt, LiveSlots
    <3>2. LiveAt(b) = {i}
      BY <3>1 DEF LiveAt, LiveSlots, TableExact
    <3>3. AnyActive
      BY <3>1, SlotsFinite DEF AnyActive
    <3>4. First(LiveAt(b)) = i
      BY <3>1, <3>2, FirstIn, Constants
    <3>5. OnIns(b) = [kind |-> "bp", index |-> i]
      BY <3>2, <3>3, <3>4 DEF OnIns
    <3> QED
      BY <1>1, <2>2, <2>4, <3>5
  <2> QED
    BY <2>3, <2>4
<1> QED
  BY <1>2, <1>3

\* A slot stops being live and is counted off.
LEMMA ArmedRetire ==
  ASSUME BaseInv, ArmedInv, NEW k \in LiveSlots, LiveSlots' = LiveSlots \ {k},
         \A i \in LiveSlots \ {k} : slots'[i] = slots[i],
         \A i \in SlotIndex : slots'[i].active => slots'[i].used,
         activeCount' = activeCount - 1,
         \A a \in Addrs : cache'[a] \in {cache[a], NotCached},
         UNCHANGED <<spc, flushing>>
  PROVE  ArmedInv'
<1> USE DEF ArmedInv
<1>1. Cardinality(LiveSlots') = Cardinality(LiveSlots) - 1
  BY SlotsFinite, FS_RemoveElement
<1>2. activeCount \in Int /\ Cardinality(LiveSlots) \in Nat
  BY TypeParts, SlotsFinite DEF BaseInv, DataType
<1>3. TableExact'
  <2>1. \A i, j \in LiveSlots' : slots'[i].addr = slots'[j].addr => i = j
    BY DEF TableExact
  <2>2. activeCount' <= Cardinality(LiveSlots')
    BY <1>1, <1>2 DEF TableExact
  <2> QED
    BY <2>1, <2>2 DEF TableExact
<1>4. BreakpointArmed'
  <2> SUFFICES ASSUME activeCount' = Cardinality(LiveSlots'),
                      NEW i \in LiveSlots',
                      ~(spc = "flush" /\ flushing = slots[i].addr)
               PROVE  cache'[slots[i].addr] \in
                        {NotCached, [kind |-> "bp", index |-> i]}
    BY DEF BreakpointArmed
  <2>1. activeCount = Cardinality(LiveSlots)
    BY <1>1, <1>2
  <2>2. slots[i].addr \in Addrs
    BY DEF BaseInv, Addressed, Live, LiveSlots
  <2> QED
    BY <2>1, <2>2 DEF BreakpointArmed
<1> QED
  BY <1>3, <1>4

\* A hit spends only a one-shot, which is counted off.
LEMMA ArmedOnHit ==
  ASSUME NEW t \in Threads, BaseInv, ArmedInv, OnHit(t)
  PROVE  ArmedInv'
<1> DEFINE k == tindex[t]
<1>1. k \in SlotIndex /\ slots[k].active
  BY DEF OnHit, BaseInv, Indexed
<1>2. /\ slots \in [SlotIndex -> SlotRecords] /\ activeCount \in Int
      /\ slots[k].oneShot \in BOOLEAN
  BY <1>1, TypeParts DEF BaseInv, SlotType, DataType, SlotRecords
<1>3. UNCHANGED <<cache, spc, flushing>>
  BY DEF OnHit, serverVars
<1>4. /\ slots' = [slots EXCEPT ![k].active = ~slots[k].oneShot]
      /\ activeCount' = activeCount - (IF slots[k].oneShot THEN 1 ELSE 0)
  BY DEF OnHit
<1> HIDE DEF k
<1>5. CASE ~slots[k].oneShot
  <2>1. slots' = [slots EXCEPT ![k].active = TRUE]
    BY <1>4, <1>5
  <2>2. slots[k].active = TRUE
    BY <1>1, <1>2 DEF SlotRecords
  <2>3. slots' = slots
    BY <1>1, <1>2, <2>1, <2>2 DEF SlotRecords
  <2>4. activeCount' = activeCount
    BY <1>2, <1>4, <1>5
  <2> QED
    BY <1>3, <2>3, <2>4, ArmedFrame
<1>6. CASE slots[k].oneShot
  <2>1. slots' = [slots EXCEPT ![k].active = FALSE]
    BY <1>4, <1>6
  <2>2. /\ ~slots'[k].active
        /\ \A i \in SlotIndex : i # k => slots'[i] = slots[i]
    BY <1>1, <1>2, <2>1 DEF SlotRecords
  <2>3. \A i \in SlotIndex : slots[i].active => slots[i].used
    BY DEF ArmedInv, TableExact
  <2>4. k \in LiveSlots
    BY <1>1, <2>3 DEF LiveSlots, Live
  <2>5. LiveSlots' = LiveSlots \ {k}
    BY <1>1, <2>2 DEF LiveSlots, Live
  <2>6. \A i \in LiveSlots \ {k} : slots'[i] = slots[i]
    BY <2>2 DEF LiveSlots
  <2>7. \A i \in SlotIndex : slots'[i].active => slots'[i].used
    BY <2>2, <2>3
  <2>8. activeCount' = activeCount - 1
    BY <1>2, <1>4, <1>6
  <2> QED
    BY <1>3, <2>4, <2>5, <2>6, <2>7, <2>8, ArmedRetire
<1> QED
  BY <1>5, <1>6

\* bp::set: a new slot for an address that has none.
LEMMA ArmedSet ==
  ASSUME NEW a \in Addrs, BaseInv, ArmedInv, SetBreakpoint(a)
  PROVE  ArmedInv'
<1> USE DEF ArmedInv
<1>1. /\ spc = "idle" /\ spc' = "flush" /\ flushing' = a /\ cache' = cache
  BY DEF SetBreakpoint, MayEdit
<1>2. CASE LiveAt(a) # {}
  <2>1. UNCHANGED <<slots, activeCount>>
    BY <1>2 DEF SetBreakpoint, tableVars
  <2> QED
    BY <1>1, <2>1, ArmedFrame
<1>3. CASE LiveAt(a) = {}
  <2> DEFINE k == First(Free)
             r == [used |-> TRUE, id |-> nextId, addr |-> a,
                   active |-> TRUE, oneShot |-> FALSE]
  <2>1. /\ Free # {} /\ slots' = [slots EXCEPT ![k] = r]
        /\ activeCount' = activeCount + 1
    BY <1>3 DEF SetBreakpoint
  <2>2. k \in SlotIndex /\ ~Live(k)
    <3>1. First(Free) \in Free
      BY <2>1, FirstIn, Constants DEF Free
    <3> QED
      BY <3>1 DEF Free
  <2>3. slots \in [SlotIndex -> SlotRecords] /\ activeCount \in Int
    BY TypeParts DEF BaseInv, SlotType, DataType
  <2> HIDE DEF k
  <2>4. /\ slots'[k] = r /\ \A i \in SlotIndex : i # k => slots'[i] = slots[i]
        /\ r.used /\ r.active /\ r.addr = a
    BY <2>1, <2>2, <2>3
  <2> HIDE DEF r
  <2>5. LiveSlots' = LiveSlots \cup {k} /\ k \notin LiveSlots
    BY <2>2, <2>4 DEF LiveSlots, Live
  <2>6. Cardinality(LiveSlots') = Cardinality(LiveSlots) + 1
    BY <2>5, SlotsFinite, FS_AddElement
  <2>7. \A i \in LiveSlots : slots[i].addr # a
    BY <1>3 DEF LiveSlots, LiveAt
  <2>8. \A i, j \in LiveSlots' : slots'[i].addr = slots'[j].addr => i = j
    <3> SUFFICES ASSUME NEW i \in LiveSlots', NEW j \in LiveSlots',
                        slots'[i].addr = slots'[j].addr
                 PROVE  i = j
      OBVIOUS
    <3>1. /\ i # k => i \in LiveSlots /\ slots'[i].addr = slots[i].addr
          /\ j # k => j \in LiveSlots /\ slots'[j].addr = slots[j].addr
      BY <2>4, <2>5 DEF LiveSlots
    <3> QED
      BY <2>4, <2>7, <3>1 DEF TableExact
  <2>9. TableExact'
    <3>1. activeCount' <= Cardinality(LiveSlots')
      BY <2>1, <2>3, <2>6, SlotsFinite DEF TableExact
    <3>2. \A i \in SlotIndex : slots'[i].active => slots'[i].used
      BY <2>4 DEF TableExact
    <3> QED
      BY <2>8, <3>1, <3>2 DEF TableExact
  <2>10. BreakpointArmed'
    <3> SUFFICES ASSUME activeCount' = Cardinality(LiveSlots'),
                        NEW i \in LiveSlots', slots'[i].addr # a
                 PROVE  cache[slots'[i].addr] \in
                          {NotCached, [kind |-> "bp", index |-> i]}
      BY <1>1 DEF BreakpointArmed
    <3>1. i # k
      BY <2>4
    <3>2. slots'[i] = slots[i] /\ i \in LiveSlots
      BY <2>4, <2>5, <3>1 DEF LiveSlots
    <3> DEFINE n == Cardinality(LiveSlots)
               m == Cardinality(LiveSlots')
    <3>a. m = n + 1 /\ n \in Nat /\ activeCount' = m
      BY <2>6, SlotsFinite
    <3> HIDE DEF n, m
    <3>b. activeCount = n
      BY <2>1, <2>3, <3>a
    <3>3. activeCount = Cardinality(LiveSlots)
      BY <3>b DEF n
    <3> QED
      BY <1>1, <3>2, <3>3 DEF BreakpointArmed
  <2> QED
    BY <2>9, <2>10
<1> QED
  BY <1>2, <1>3

\* bp::set after the unlock: the stale code is gone.
LEMMA ArmedFlush ==
  ASSUME BaseInv, ArmedInv, FlushBreakpoint
  PROVE  ArmedInv'
<1> USE DEF ArmedInv
<1>1. /\ Flush({flushing}) /\ spc' = "idle" /\ UNCHANGED <<slots, activeCount>>
  BY DEF FlushBreakpoint, tableVars
<1>2. /\ \A a \in Addrs : cache'[a] \in {cache[a], NotCached}
      /\ \A a \in Addrs \cap {flushing} : cache'[a] = NotCached
  BY <1>1, FlushType DEF BaseInv
<1>3. LiveSlots' = LiveSlots /\ TableExact'
  BY <1>1 DEF TableExact, LiveSlots, Live
<1>4. BreakpointArmed'
  <2> SUFFICES ASSUME activeCount = Cardinality(LiveSlots), NEW i \in LiveSlots
               PROVE  cache'[slots[i].addr] \in
                        {NotCached, [kind |-> "bp", index |-> i]}
    BY <1>1, <1>3 DEF BreakpointArmed
  <2>1. slots[i].addr \in Addrs
    BY DEF BaseInv, Addressed, Live, LiveSlots
  <2>2. CASE slots[i].addr = flushing
    BY <1>2, <2>1, <2>2
  <2>3. CASE slots[i].addr # flushing
    BY <1>2, <2>1, <2>3 DEF BreakpointArmed
  <2> QED
    BY <2>2, <2>3
<1> QED
  BY <1>3, <1>4

\* bp::remove of a live slot takes it off the count; of a spent one-shot it
\* takes one too many off, and the promise is over.
LEMMA ArmedRemove ==
  ASSUME NEW k \in SlotIndex, BaseInv, ArmedInv, RemoveBreakpoint(k)
  PROVE  ArmedInv'
<1>1. /\ slots[k].used /\ activeCount' = activeCount - 1
      /\ slots' = [slots EXCEPT ![k].active = FALSE, ![k].used = FALSE]
      /\ Flush({slots[k].addr}) /\ UNCHANGED <<spc, flushing>>
  BY DEF RemoveBreakpoint, serverVars
<1>2. slots \in [SlotIndex -> SlotRecords] /\ activeCount \in Int
  BY TypeParts DEF BaseInv, SlotType, DataType
<1>3. /\ ~slots'[k].used /\ ~slots'[k].active
      /\ \A i \in SlotIndex : i # k => slots'[i] = slots[i]
  BY <1>1, <1>2 DEF SlotRecords
<1>4. LiveSlots' = LiveSlots \ {k}
  BY <1>3 DEF LiveSlots, Live
<1>5. \A i \in SlotIndex : slots'[i].active => slots'[i].used
  BY <1>3 DEF ArmedInv, TableExact
<1>6. CASE k \in LiveSlots
  <2>1. \A a \in Addrs : cache'[a] \in {cache[a], NotCached}
    BY <1>1, FlushType DEF BaseInv
  <2>2. \A i \in LiveSlots \ {k} : slots'[i] = slots[i]
    BY <1>3 DEF LiveSlots
  <2> QED
    BY <1>1, <1>4, <1>5, <1>6, <2>1, <2>2, ArmedRetire
<1>7. CASE k \notin LiveSlots
  <2>1. LiveSlots' = LiveSlots
    BY <1>4, <1>7
  <2>2. activeCount' < Cardinality(LiveSlots')
    BY <1>1, <1>2, <2>1, SlotsFinite DEF ArmedInv, TableExact
  <2>3. \A i, j \in LiveSlots' : slots'[i].addr = slots'[j].addr => i = j
    <3>1. \A i \in LiveSlots' : slots'[i] = slots[i]
      BY <1>3, <1>7, <2>1 DEF LiveSlots
    <3> QED
      BY <2>1, <3>1 DEF ArmedInv, TableExact
  <2>4. activeCount' \in Int /\ Cardinality(LiveSlots') \in Nat
    BY <1>1, <1>2, <2>1, SlotsFinite
  <2> QED
    BY <1>5, <2>2, <2>3, <2>4 DEF ArmedInv, TableExact, BreakpointArmed
<1> QED
  BY <1>6, <1>7

LEMMA ArmedNext ==
  ASSUME BaseInv, ArmedInv, [Next]_vars
  PROVE  ArmedInv'
<1> USE DEF tableVars, serverVars
<1>1. ASSUME NEW t \in Threads,
             \/ Fetch(t) \/ Execute(t) \/ OnHitInactive(t)
             \/ OnHitStartReplay(t) \/ OnHitResumeReplay(t) \/ OnStepHit(t)
             \/ RedirectArm(t) \/ ExecuteAt(t)
      PROVE  ArmedInv'
  <2>1. UNCHANGED <<slots, activeCount, cache, spc, flushing>>
    BY <1>1, Zenon DEF Fetch, Execute, OnHitInactive, OnHitStartReplay,
       OnHitResumeReplay, OnStepHit, RedirectArm, ExecuteAt
  <2> QED
    BY <2>1, ArmedFrame
<1>2. ASSUME StopWorld \/ ResumeWorld \/ ForgetHit \/ HandleResume
             \/ UNCHANGED vars
      PROVE  ArmedInv'
  <2>1. /\ UNCHANGED <<slots, activeCount, cache>>
        /\ UNCHANGED <<spc, flushing>> \/ spc # "flush"
    BY <1>2 DEF StopWorld, ResumeWorld, ForgetHit, HandleResume, vars
  <2> QED
    BY <2>1, ArmedFrame
<1>3. ASSUME NEW t \in Threads, NEW over \in BOOLEAN, HandleStep(t, over)
      PROVE  ArmedInv'
  <2>1. /\ UNCHANGED <<slots, activeCount>> /\ spc # "flush"
        /\ \E S : Flush(S)
    BY <1>3 DEF HandleStep
  <2>2. \A a \in Addrs : cache'[a] \in {cache[a], NotCached}
    BY <2>1, FlushType DEF BaseInv
  <2> QED
    BY <2>1, <2>2, ArmedFrame
<1> QED
  BY <1>1, <1>2, <1>3, ArmedInstrument, ArmedOnHit, ArmedSet, ArmedFlush,
     ArmedRemove DEF Next, ThreadNext, ServerNext

\* For every program, table size and client, with an entry one-shot or without,
\* and also while breakpoints are set and removed in a running or stepped
\* application: once bp::set has flushed its address, no code compiled without
\* the breakpoint can run, as long as ACTIVE_COUNT is exact, which only the
\* removal of a one-shot that has fired ends.
THEOREM NoBreakpointMissed == Spec => []BreakpointArmed
<1>1. Init => ArmedInv
  BY ArmedInit
<1>2. BaseInv /\ ArmedInv /\ [Next]_vars => ArmedInv'
  BY ArmedNext
<1>3. ArmedInv => BreakpointArmed
  BY DEF ArmedInv
<1> QED BY <1>1, <1>2, <1>3, BaseAlways, PTL DEF Spec
=============================================================================
