------------------------ MODULE LauncherLeaseProofs ------------------------
(***************************************************************************)
(* Proofs about LauncherLease, for every set of processes, every interval  *)
(* and every bound on the duration of an acquire_lease call.               *)
(***************************************************************************)
EXTENDS LauncherLease, TLAPS

\* Every record acquire_lease writes is a lease file.
LEMMA WrittenFile ==
    ASSUME NEW p \in Proc, NEW a \in 0..MaxAge, NEW w \in BOOLEAN
    PROVE  [owner |-> p, age |-> a, written |-> w] \in Files
BY DEF Files

\* The first launcher finds no lease.
LEMMA LeaseInitTyped == Init => TypeOK
<1> SUFFICES ASSUME Init PROVE TypeOK
  OBVIOUS
<1>1. overlap \in BOOLEAN
  BY DEF Init
<1>2. 0 \in 0..MaxAge
  BY LeaseAssumption DEF MaxAge, StaleAfter
<1>3. file \in Files /\ since \in [Proc -> 0..MaxAge]
  BY <1>2 DEF Init, Files
<1>4. pc \in [Proc -> Acquiring \cup {"idle", "pass", "open", "dead"}]
  BY DEF Init
<1> QED BY <1>1, <1>3, <1>4 DEF TypeOK

\* Every step keeps the types.
LEMMA LeaseTypeStep == TypeOK /\ [Next]_vars => TypeOK'
<1> SUFFICES ASSUME TypeOK, [Next]_vars PROVE TypeOK'
  OBVIOUS
<1> USE LeaseAssumption DEF TypeOK, Acquiring, Goto
<1>1. CASE Tick
  BY <1>1 DEF Tick, Older, Files, MaxAge, StaleAfter, NoFile
<1>2. ASSUME NEW p \in Proc, Begin(p) PROVE TypeOK'
  BY <1>2 DEF Begin, MaxAge, StaleAfter
<1>3. ASSUME NEW p \in Proc, Acquire(p) PROVE TypeOK'
  <2>1. CASE ReadLease(p)
    BY <2>1 DEF ReadLease
  <2>2. CASE Refresh(p)
    BY <2>2, WrittenFile DEF Refresh, Record
  <2>3. CASE Mint(p) \/ Recreate(p)
    <3>1. since[p] \in 0..MaxAge /\ since' = since /\ overlap' = overlap
      BY <2>3 DEF Mint, Recreate
    <3>2. file' \in Files
      <4>1. \/ file' = [owner |-> p, age |-> since[p], written |-> FALSE]
            \/ file' = file
        BY <2>3 DEF Mint, Recreate, CreateExcl
      <4> QED BY <3>1, <4>1, WrittenFile
    <3>3. pc' \in [Proc -> Acquiring \cup {"idle", "pass", "open", "dead"}]
      BY <2>3 DEF Mint, Recreate, CreateExcl
    <3> QED BY <3>1, <3>2, <3>3
  <2>4. CASE WritePayload(p)
    BY <2>4 DEF WritePayload, Record, Files, NoFile
  <2>5. CASE Unlink(p)
    BY <2>5 DEF Unlink, Files
  <2>6. CASE Reread(p) \/ Recheck(p)
    BY <2>6 DEF Reread, Recheck
  <2> QED BY <1>3, <2>1, <2>2, <2>3, <2>4, <2>5, <2>6 DEF Acquire
<1>4. ASSUME NEW p \in Proc,
             EndPass(p) \/ FailOpen(p) \/ FailClosed(p) \/ Crash(p)
      PROVE  TypeOK'
  BY <1>4 DEF EndPass, FailOpen, FailClosed, Crash
<1>5. CASE UNCHANGED vars
  BY <1>5 DEF vars
<1> QED BY <1>1, <1>2, <1>3, <1>4, <1>5 DEF Next

\* The lease file, the program counters and the ages keep their types in
\* every interleaving of acquire_lease calls, crashes and clock ticks.
THEOREM LeaseTypeCorrect == Spec => []TypeOK
<1>1. Init => TypeOK
  BY LeaseInitTyped
<1>2. TypeOK /\ [Next]_vars => TypeOK'
  BY LeaseTypeStep
<1> QED BY <1>1, <1>2, PTL DEF Spec

----------------------------------------------------------------------------
\* Whose the lease file is and how old, by its fields.
FileIs(p, age) == file.owner = p /\ file.age = age

\* What a process inside acquire_lease knows about the file, when it is the
\* only one there.
KnownFile(p) ==
    /\ pc[p] \in Acquiring => since[p] <= MaxDelay
    /\ pc[p] = "refresh" => file.owner = p
    /\ pc[p] \in {"mint", "reread"} => ~file.written
    /\ pc[p] \in {"recheck", "unlink"} =>
          ~file.written \/ file.age - since[p] >= StaleAfter
    /\ pc[p] = "recreate" => file = NoFile
    /\ pc[p] \in {"write", "rewrite"} => FileIs(p, since[p]) /\ ~file.written

\* A pass that has not overrun its lease finds its own record on disk.
FreshPassOwnsFile(p) ==
    pc[p] = "pass" /\ since[p] < StaleAfter => FileIs(p, since[p]) /\ file.written

AtMostOneAcquirer ==
    \A p, q \in Proc : pc[p] \in Acquiring /\ pc[q] \in Acquiring => p = q

\* While acquisitions came one after the other.
SerialInv == /\ AtMostOneAcquirer
             /\ \A p \in Proc : KnownFile(p) /\ FreshPassOwnsFile(p)

\* The inductive invariant.
LeaseInv == TypeOK /\ (overlap \/ SerialInv)

\* A lease can be read exactly when its payload has been written.
LEMMA ReadableWritten == TypeOK => (Readable <=> file.written)
BY DEF TypeOK, Files, NoFile, Readable

\* The lease's fields after a step, from its record.
LEMMA FileFields ==
    ASSUME TypeOK
    PROVE  /\ file.owner \in Proc \cup {"none"}
           /\ file.age \in 0..MaxAge
           /\ file.written \in BOOLEAN
           /\ file.owner = "none" <=> file = NoFile
<1>1. 0 \in 0..MaxAge
  BY LeaseAssumption DEF MaxAge, StaleAfter
<1>2. CASE file = NoFile
  BY <1>1, <1>2 DEF NoFile
<1>3. CASE file \in [owner : Proc, age : 0..MaxAge, written : BOOLEAN]
  BY <1>3, LeaseAssumption DEF NoFile
<1> QED BY <1>2, <1>3 DEF TypeOK, Files

\* A clock tick ages the lease and everybody's now_ts alike.
LEMMA TickKeeps ==
    ASSUME TypeOK, SerialInv, Tick, NEW q \in Proc
    PROVE  KnownFile(q)' /\ FreshPassOwnsFile(q)'
<1> USE LeaseAssumption DEF SerialInv
<1>1. /\ file'.owner = file.owner /\ file'.written = file.written
      /\ file # NoFile => file'.age = Older(file.age)
      /\ file = NoFile => file' = NoFile
  BY FileFields DEF Tick, TypeOK, Files, NoFile
<1>2. /\ pc'[q] = pc[q]
      /\ pc[q] \in Acquiring => since[q] < MaxDelay /\ since'[q] = since[q] + 1
      /\ pc[q] = "pass" => since'[q] = Older(since[q])
  BY DEF Tick, TypeOK, Acquiring
<1>3. /\ since[q] \in Nat /\ since[q] <= MaxAge
      /\ file.age \in Nat /\ file.age <= MaxAge
      /\ MaxAge = StaleAfter + MaxDelay /\ StaleAfter \in Nat /\ MaxDelay \in Nat
  BY FileFields DEF TypeOK, MaxAge, StaleAfter
<1>4. FreshPassOwnsFile(q)'
  <2>1. SUFFICES ASSUME pc[q] = "pass", since'[q] < StaleAfter
                 PROVE  (FileIs(q, since[q]) /\ file.written)'
    BY <1>2 DEF FreshPassOwnsFile, StaleAfter
  <2>2. since[q] < StaleAfter /\ since'[q] = since[q] + 1
    BY <1>2, <1>3, <2>1 DEF Older
  <2>3. FileIs(q, since[q]) /\ file.written
    BY <2>1, <2>2 DEF FreshPassOwnsFile
  <2>4. file # NoFile /\ file'.age = since[q] + 1
    BY <1>1, <1>3, <2>2, <2>3, FileFields DEF FileIs, Older
  <2> QED BY <1>1, <2>2, <2>3, <2>4 DEF FileIs
<1>5. KnownFile(q)'
  BY <1>1, <1>2, <1>3, FileFields
  DEF KnownFile, FileIs, Older, Acquiring, StaleAfter, NoFile
<1> QED BY <1>4, <1>5

\* A step of the one process inside acquire_lease.
LEMMA AcquireKeeps ==
    ASSUME TypeOK, SerialInv, NEW p \in Proc, Acquire(p), NEW q \in Proc
    PROVE  KnownFile(q)' /\ FreshPassOwnsFile(q)'
<1> USE LeaseAssumption DEF SerialInv
<1>1. /\ pc[p] \in Acquiring
      /\ since' = since
      /\ q # p => pc'[q] = pc[q] /\ pc[q] \notin Acquiring
  BY DEF Acquire, ReadLease, Refresh, Mint, WritePayload, Reread, Recheck,
         Unlink, Recreate, CreateExcl, Goto, TypeOK, Acquiring,
         AtMostOneAcquirer
<1>2. q # p => KnownFile(q)'
  BY <1>1 DEF KnownFile, Acquiring
<1>3. q # p /\ FreshPassOwnsFile(q) /\ file' = file => FreshPassOwnsFile(q)'
  BY <1>1 DEF FreshPassOwnsFile, FileIs, StaleAfter
<1>4. /\ since[q] \in Nat /\ since[p] \in Nat
      /\ KnownFile(p) /\ KnownFile(q) /\ FreshPassOwnsFile(q)
      /\ pc \in [Proc -> Acquiring \cup {"idle", "pass", "open", "dead"}]
  BY DEF TypeOK
<1>5. CASE ReadLease(p) \/ Reread(p) \/ Recheck(p)
  <2>1. file' = file
    BY <1>5 DEF ReadLease, Reread, Recheck
  <2>2. pc'[p] \in {"idle", "refresh", "mint", "recheck", "unlink"}
    BY <1>4, <1>5 DEF ReadLease, Reread, Recheck, Goto
  <2>3. FreshPassOwnsFile(p)'
    BY <2>2 DEF FreshPassOwnsFile
  <2>4. KnownFile(p)'
    BY <1>1, <1>4, <1>5, <2>1, ReadableWritten, FileFields
    DEF ReadLease, Reread, Recheck, Goto, KnownFile, LiveFor, Stale, Acquiring,
        StaleAfter
  <2> QED BY <1>2, <1>3, <1>4, <2>1, <2>3, <2>4
<1>6. CASE Refresh(p) \/ WritePayload(p)
  <2>1. pc'[p] = "pass" /\ (FileIs(p, since[p]) /\ file.written)'
    BY <1>1, <1>4, <1>6
    DEF Refresh, WritePayload, Goto, Record, FileIs, KnownFile
  <2>2. KnownFile(p)' /\ FreshPassOwnsFile(p)'
    BY <2>1 DEF KnownFile, FreshPassOwnsFile, Acquiring
  <2>3. q # p => FreshPassOwnsFile(q)'
    BY <1>1, <1>4, <1>6
    DEF Refresh, WritePayload, KnownFile, FreshPassOwnsFile, FileIs
  <2> QED BY <1>2, <2>2, <2>3
<1>7. CASE Mint(p) \/ Recreate(p) \/ Unlink(p)
  <2>1. ~FileIs(q, since[q]) \/ ~file.written \/ since[q] >= StaleAfter \/ file' = file
    BY <1>1, <1>4, <1>7, ReadableWritten, FileFields
    DEF Mint, Recreate, Unlink, CreateExcl, KnownFile, FileIs, StaleAfter,
        NoFile
  <2>2. q # p => FreshPassOwnsFile(q)'
    <3>1. CASE file' = file
      BY <1>3, <1>4, <3>1
    <3>2. CASE ~FileIs(q, since[q]) \/ ~file.written \/ since[q] >= StaleAfter
      <4>1. ~(pc[q] = "pass" /\ since[q] < StaleAfter)
        BY <1>4, <3>2 DEF FreshPassOwnsFile, StaleAfter
      <4> QED BY <1>1, <4>1 DEF FreshPassOwnsFile, StaleAfter
    <3> QED BY <2>1, <3>1, <3>2
  <2>3. pc'[p] \in {"write", "rewrite", "reread", "recreate", "idle"}
    BY <1>4, <1>7 DEF Mint, Recreate, Unlink, CreateExcl, Goto
  <2>4. FreshPassOwnsFile(p)'
    BY <2>3 DEF FreshPassOwnsFile
  <2>5. KnownFile(p)'
    BY <1>1, <1>4, <1>7
    DEF Mint, Recreate, Unlink, CreateExcl, Goto, KnownFile, FileIs, Acquiring,
        NoFile, StaleAfter
  <2> QED BY <1>2, <2>2, <2>4, <2>5
<1> QED BY <1>5, <1>6, <1>7 DEF Acquire

\* Beginning or ending a call or a pass, or failing or dying in one, leaves
\* the file alone and moves the process out of the file's reach.
LEMMA OtherKeeps ==
    ASSUME TypeOK, SerialInv, NEW p \in Proc, NEW q \in Proc,
           \/ Begin(p) \/ EndPass(p) \/ FailOpen(p) \/ FailClosed(p) \/ Crash(p)
    PROVE  KnownFile(q)' /\ FreshPassOwnsFile(q)'
<1>1. /\ file' = file
      /\ q # p => pc'[q] = pc[q] /\ since'[q] = since[q]
      /\ pc'[p] \in {"read", "open", "idle", "dead"}
      /\ pc'[p] = "read" => since'[p] = 0
  BY DEF TypeOK, Begin, EndPass, FailOpen, FailClosed, Crash, Goto
<1>2. CASE q = p
  BY <1>1, <1>2, LeaseAssumption DEF KnownFile, FreshPassOwnsFile, Acquiring
<1>3. CASE q # p
  <2>1. KnownFile(q) /\ FreshPassOwnsFile(q)
    BY DEF SerialInv
  <2>2. pc'[q] = pc[q] /\ since'[q] = since[q] /\ file' = file
    BY <1>1, <1>3
  <2> QED
    BY <2>1, <2>2 DEF KnownFile, FreshPassOwnsFile, FileIs, NoFile, StaleAfter
<1> QED BY <1>2, <1>3

\* Only Begin enters acquire_lease, and it notes when somebody is there.
LEMMA AcquirersKept ==
    ASSUME TypeOK, AtMostOneAcquirer, Next, ~overlap'
    PROVE  AtMostOneAcquirer'
<1> USE DEF TypeOK, AtMostOneAcquirer
<1>1. CASE Tick
  BY <1>1 DEF Tick
<1>2. ASSUME NEW p \in Proc, Begin(p) PROVE AtMostOneAcquirer'
  BY <1>2 DEF Begin, Goto
<1>3. ASSUME NEW p \in Proc,
             \/ Acquire(p) \/ EndPass(p) \/ FailOpen(p) \/ FailClosed(p) \/ Crash(p)
      PROVE  AtMostOneAcquirer'
  <2>1. \A q \in Proc \ {p} : pc'[q] = pc[q]
    BY <1>3 DEF Acquire, ReadLease, Refresh, Mint, WritePayload, Reread, Recheck,
       Unlink, Recreate, CreateExcl, EndPass, FailOpen, FailClosed, Crash, Goto
  <2>2. pc'[p] \in Acquiring => pc[p] \in Acquiring
    BY <1>3 DEF Acquire, ReadLease, Refresh, Mint, WritePayload, Reread, Recheck,
       Unlink, Recreate, CreateExcl, EndPass, FailOpen, FailClosed, Crash, Goto,
       Acquiring
  <2> QED BY <2>1, <2>2
<1> QED BY <1>1, <1>2, <1>3 DEF Next

\* acquire_lease gives mutual exclusion up to an overrun lease, for every
\* number of launcher processes, until two acquisitions overlap: crashes and
\* failing file system calls do not break it.
THEOREM SerialLeaseExclusive == Spec => []SerialExclusive
<1>1. Init => LeaseInv
  <2> SUFFICES ASSUME Init PROVE LeaseInv
    OBVIOUS
  <2>1. TypeOK
    BY LeaseInitTyped
  <2> QED
    BY <2>1
    DEF Init, LeaseInv, SerialInv, AtMostOneAcquirer, KnownFile,
        FreshPassOwnsFile, Acquiring
<1>2. LeaseInv /\ [Next]_vars => LeaseInv'
  <2> SUFFICES ASSUME LeaseInv, [Next]_vars, ~overlap' PROVE TypeOK' /\ SerialInv'
    BY LeaseTypeStep DEF LeaseInv
  <2>1. TypeOK /\ TypeOK'
    BY LeaseTypeStep DEF LeaseInv
  <2>2. CASE UNCHANGED vars
    BY <2>1, <2>2
    DEF vars, LeaseInv, SerialInv, AtMostOneAcquirer, KnownFile,
        FreshPassOwnsFile, FileIs
  <2>3. CASE Next
    <3>1. ~overlap
      BY <2>3 DEF Next, Tick, Begin, Acquire, ReadLease, Refresh, Mint,
         WritePayload, Reread, Recheck, Unlink, Recreate, CreateExcl, EndPass,
         FailOpen, FailClosed, Crash
    <3>2. SerialInv
      BY <3>1 DEF LeaseInv
    <3>3. AtMostOneAcquirer'
      BY <2>1, <2>3, <3>2, AcquirersKept DEF SerialInv
    <3>4. ASSUME NEW q \in Proc PROVE (KnownFile(q) /\ FreshPassOwnsFile(q))'
      BY <2>1, <2>3, <3>2, TickKeeps, AcquireKeeps, OtherKeeps DEF Next
    <3> QED BY <2>1, <3>3, <3>4 DEF SerialInv
  <2> QED BY <2>2, <2>3
<1>3. LeaseInv => SerialExclusive
  BY LeaseAssumption
  DEF LeaseInv, SerialInv, TypeOK, FreshPassOwnsFile, FileIs, SerialExclusive,
      PassesCollide, MaxAge, StaleAfter
<1> QED BY <1>1, <1>2, <1>3, PTL DEF Spec
============================================================================
