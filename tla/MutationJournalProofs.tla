----------------------- MODULE MutationJournalProofs -----------------------
(***************************************************************************)
(* Proofs about MutationJournal, for every set of attempts and writers.    *)
(***************************************************************************)
EXTENDS MutationJournal, FiniteSetTheorems, TLAPS

-----------------------------------------------------------------------------
(* Facts about files. *)

(* Whether chunk i ends a record depends on the chunks up to i only. *)
LEMMA RecordOfPrefix ==
    ASSUME NEW f \in Seq(Chunks), NEW g \in Seq(Chunks),
           NEW i \in 1..Len(f), i <= Len(g),
           \A k \in 1..i : f[k] = g[k]
    PROVE  IsRecord(f, i) <=> IsRecord(g, i)
<1>1. f[i] = g[i]
  OBVIOUS
<1>2. i > 1 => i - 1 \in 1..i /\ f[i - 1] = g[i - 1]
  OBVIOUS
<1>3. i > 2 => i - 2 \in 1..i /\ f[i - 2] = g[i - 2]
  OBVIOUS
<1>4. StartsLine(f, i) <=> StartsLine(g, i)
  BY <1>2 DEF StartsLine, EndsLine
<1>5. i > 1 => (StartsLine(f, i - 1) <=> StartsLine(g, i - 1))
  BY <1>3 DEF StartsLine, EndsLine
<1>6. Completes(f, i) <=> Completes(g, i)
  BY <1>1, <1>2 DEF Completes
<1>7. Completes(f, i) => i > 1
  BY DEF Completes
<1> QED
  BY <1>1, <1>4, <1>5, <1>6, <1>7 DEF IsRecord

(* The same for the record of a given event. *)
LEMMA RecordAtOfPrefix ==
    ASSUME NEW f \in Seq(Chunks), NEW g \in Seq(Chunks),
           NEW i \in 1..Len(f), i <= Len(g),
           \A k \in 1..i : f[k] = g[k],
           NEW e
    PROVE  RecordAt(f, i, e) <=> RecordAt(g, i, e)
BY RecordOfPrefix DEF RecordAt

(* Appending a chunk leaves every earlier record where it is. *)
LEMMA RecordAtOfAppend ==
    ASSUME NEW f \in Seq(Chunks), NEW c \in Chunks, NEW i \in 1..Len(f), NEW e
    PROVE  RecordAt(Append(f, c), i, e) <=> RecordAt(f, i, e)
<1> DEFINE g == Append(f, c)
<1>1. g \in Seq(Chunks) /\ i <= Len(g)
  OBVIOUS
<1>2. \A k \in 1..i : f[k] = g[k]
  OBVIOUS
<1> HIDE DEF g
<1>3. RecordAt(f, i, e) <=> RecordAt(g, i, e)
  BY <1>1, <1>2, RecordAtOfPrefix
<1> QED
  BY <1>3 DEF g

(* What a power loss leaves is the file up to its last chunk n, in which   *)
(* only an unsynced chunk may have lost bytes.                             *)
LEMMA SurvivorFacts ==
    ASSUME TypeOK, NEW n \in synced..Len(file), NEW g \in Survivors(n)
    PROVE  /\ g \in Seq(Chunks)
           /\ Len(g) = n
           /\ \A k \in 1..n : g[k].event = file[k].event
           /\ \A k \in 1..n : k < n \/ k <= synced => g[k] = file[k]
<1> DEFINE s == SubSeq(file, 1, n)
<1>1. file \in Seq(Chunks) /\ synced \in Nat /\ n \in Nat /\ n <= Len(file) /\ synced <= n
  BY DEF TypeOK
<1>2. s \in Seq(Chunks) /\ Len(s) = n /\ \A k \in 1..n : s[k] = file[k]
  BY <1>1
<1>a. s \in [1..n -> Chunks]
  <2> HIDE DEF s
  <2> QED
    BY <1>1, <1>2
<1>3. CASE g = s
  BY <1>1, <1>2, <1>3
<1>4. ASSUME NEW p \in PrefixesOf(file[n].event), g = [s EXCEPT ![n].part = p],
             n > synced
      PROVE  /\ g \in Seq(Chunks)
             /\ Len(g) = n
             /\ \A k \in 1..n : g[k].event = file[k].event
             /\ \A k \in 1..n : k < n \/ k <= synced => g[k] = file[k]
  <2>1. n \in 1..n /\ s[n] \in Chunks
    BY <1>1, <1>2, <1>4
  <2>2. p \in TornParts
    BY DEF PrefixesOf, TornParts
  <2>3. [s[n] EXCEPT !.part = p] \in Chunks
    BY <2>1, <2>2 DEF Chunks
  <2>4. [s[n] EXCEPT !.part = p].event = s[n].event
    BY <2>1 DEF Chunks
  <2>5. g = [s EXCEPT ![n] = [s[n] EXCEPT !.part = p]]
    BY <1>4
  <2>6. g \in Seq(Chunks) /\ Len(g) = n
    BY <1>2, <2>1, <2>3, <2>5
  <2>7. \A k \in 1..n : k # n => g[k] = s[k]
    BY <1>a, <2>5
  <2>8. g[n].event = s[n].event
    BY <1>2, <2>1, <2>4, <2>5
  <2>9. \A k \in 1..n : g[k].event = file[k].event
    BY <1>2, <2>7, <2>8
  <2>10. \A k \in 1..n : k < n \/ k <= synced => g[k] = file[k]
    BY <1>1, <1>2, <1>4, <2>7
  <2> QED
    BY <2>6, <2>9, <2>10
<1>5. g = s \/ \E p \in PrefixesOf(file[n].event) :
                   g = [s EXCEPT ![n].part = p] /\ n > synced
  BY DEF Survivors
<1> QED
  BY <1>3, <1>4, <1>5

-----------------------------------------------------------------------------
(* Type correctness. *)

(* Every call leaves the variables of the journal within their types: in   *)
(* particular the durable entries are entries the system sees, and never   *)
(* more of the file is synced than has been written.                       *)
THEOREM TypeCorrect == Spec => []TypeOK
<1>1. Init => TypeOK
  BY MutationJournalAssumption DEF Init, TypeOK, Entries, Steps
<1>2. TypeOK /\ [Next]_vars => TypeOK'
  <2> SUFFICES ASSUME TypeOK, [Next]_vars PROVE TypeOK'
    OBVIOUS
  <2> USE DEF TypeOK
  <2>1. ASSUME NEW w \in Writers, NEW e \in Events, BeginAppend(w, e) PROVE TypeOK'
    BY <2>1, MutationJournalAssumption DEF BeginAppend, disk, Steps
  <2>2. ASSUME NEW w \in Writers, FindDirectory(w) PROVE TypeOK'
    BY <2>2 DEF FindDirectory, disk, Steps
  <2>3. ASSUME NEW w \in Writers, MakeDirectory(w) PROVE TypeOK'
    BY <2>3 DEF MakeDirectory, Steps, Entries
  <2>4. ASSUME NEW w \in Writers, OpenFile(w) PROVE TypeOK'
    BY <2>4 DEF OpenFile, Steps, Entries
  <2>5. ASSUME NEW w \in Writers, NEW p \in {"whole", "tail"} \union TornParts,
               NEW next \in Steps \ {"idle"}, step[w] # "idle", Write(w, p, next)
        PROVE  TypeOK'
    <3>1. [part |-> p, event |-> event[w]] \in Chunks
      BY <2>5 DEF Chunks
    <3>2. file' \in Seq(Chunks) /\ Len(file') = Len(file) + 1
      BY <2>5, <3>1 DEF Write
    <3> QED
      BY <2>5, <3>2 DEF Write
  <2>6. ASSUME NEW w \in Writers, WriteWhole(w) PROVE TypeOK'
    BY <2>5, <2>6 DEF WriteWhole, Steps
  <2>7. ASSUME NEW w \in Writers, WriteSome(w) PROVE TypeOK'
    BY <2>5, <2>7 DEF WriteSome, Steps, PrefixesOf, TornParts
  <2>8. ASSUME NEW w \in Writers, WriteRest(w) PROVE TypeOK'
    BY <2>5, <2>8 DEF WriteRest, Steps
  <2>9. ASSUME NEW w \in Writers, SyncFile(w) PROVE TypeOK'
    <3>a. synced' = Len(file) /\ file' = file
      BY <2>9 DEF SyncFile
    <3>b. Len(file) \in Nat
      OBVIOUS
    <3>1. synced' \in 0..Len(file') /\ file' = file
      BY <3>a, <3>b
    <3>2. CASE fresh[w]
      BY <2>9, <3>1, <3>2 DEF SyncFile, Steps
    <3>3. CASE ~ fresh[w]
      BY <2>9, <3>1, <3>3 DEF SyncFile, Acknowledge, EndCall, Steps
    <3> QED
      BY <3>2, <3>3
  <2>10. ASSUME NEW w \in Writers, SyncDirectory(w) PROVE TypeOK'
    BY <2>10 DEF SyncDirectory, Acknowledge, EndCall, Steps
  <2>11. ASSUME NEW w \in Writers, Abandon(w) PROVE TypeOK'
    BY <2>11 DEF Abandon, EndCall, disk, Steps
  <2>12. CASE PowerLoss
    <3>1. visible' \subseteq Entries /\ durable' = visible'
      BY <2>12 DEF PowerLoss
    <3>2. file' \in Seq(Chunks)
      <4>1. CASE "file" \in visible'
        BY <2>12, <4>1, SurvivorFacts DEF PowerLoss
      <4>2. CASE "file" \notin visible'
        BY <2>12, <4>2 DEF PowerLoss
      <4> QED
        BY <4>1, <4>2
    <3>3. synced' \in 0..Len(file')
      BY <2>12, <3>2 DEF PowerLoss
    <3>4. /\ step' \in [Writers -> Steps]
          /\ event' \in [Writers -> Events \union {NoEvent}]
          /\ \A w \in Writers : event'[w] = NoEvent <=> step'[w] = "idle"
          /\ fresh' \in [Writers -> BOOLEAN]
          /\ acknowledged' \subseteq Events
      BY <2>12 DEF PowerLoss, Steps
    <3> QED
      BY <3>1, <3>2, <3>3, <3>4
  <2>13. CASE UNCHANGED vars
    BY <2>13 DEF vars
  <2> QED
    BY <2>1, <2>2, <2>3, <2>4, <2>6, <2>7, <2>8, <2>9, <2>10, <2>11, <2>12, <2>13
    DEF Next, AppendStep
<1> QED
  BY <1>1, <1>2, PTL DEF Spec

-----------------------------------------------------------------------------
(* The order of a journal's history. *)

(* A write that adds a chunk of the writer's event keeps the history. *)
LEMMA WriteKeepsHistory ==
    ASSUME TypeOK, TypeOK', HistoryInv, NEW w \in Writers, step[w] # "idle",
           NEW p \in {"whole", "tail"} \union TornParts,
           NEW next \in Steps \ {"idle"}, Write(w, p, next)
    PROVE  HistoryInv'
<1> DEFINE c == [part |-> p, event |-> event[w]]
<1>1. event[w] \in Events /\ file \in Seq(Chunks) /\ Len(file) \in Nat
  BY DEF TypeOK
<1>2. c \in Chunks /\ c.event = event[w]
  BY <1>1 DEF Chunks
<1>3. file' = Append(file, c)
  BY DEF Write
<1>4. Len(file') = Len(file) + 1 /\ file'[Len(file) + 1] = c
      /\ \A i \in 1..Len(file) : file'[i] = file[i]
  BY <1>1, <1>2, <1>3
<1> HIDE DEF c
<1>5. \A j \in 1..Len(file), e \in Events : RecordAt(file, j, e) => RecordAt(file', j, e)
  BY <1>1, <1>2, <1>3, RecordAtOfAppend
<1>6. \A e \in Events : Recorded(file, e) =>
         \E j \in 1..Len(file) : RecordAt(file', j, e)
  BY <1>5 DEF Recorded
<1>7. \A e \in Events : Intent(e.attempt) \in Events
  BY DEF Events, Intent
<1>8. FinalizationAfterIntent'
  <2> SUFFICES ASSUME NEW i \in 1..Len(file'), file'[i].event.type = "finalization"
               PROVE  \E j \in 1..(i - 1) : RecordAt(file', j, Intent(file'[i].event.attempt))
    BY DEF FinalizationAfterIntent
  <2>1. CASE i \in 1..Len(file)
    <3>1. file'[i] = file[i] /\ file[i].event \in Events
      <4>1. file[i] \in Chunks
        BY <1>1, <2>1
      <4> QED
        BY <1>4, <2>1, <4>1 DEF Chunks
    <3>2. PICK j \in 1..(i - 1) : RecordAt(file, j, Intent(file[i].event.attempt))
      BY <2>1, <3>1 DEF HistoryInv, FinalizationAfterIntent
    <3>3. j \in 1..Len(file)
      BY <1>1, <2>1
    <3> QED
      BY <1>5, <1>7, <3>1, <3>2, <3>3
  <2>2. CASE i = Len(file) + 1
    <3>1. file'[i].event = event[w]
      BY <1>2, <1>4, <2>2
    <3>2. Recorded(file, Intent(event[w].attempt))
      BY <3>1 DEF HistoryInv, FinalizationsBacked
    <3> QED
      BY <1>1, <1>6, <1>7, <2>2, <3>1, <3>2
  <2> QED
    BY <1>1, <1>4, <2>1, <2>2
<1>9. FinalizationsBacked'
  <2> SUFFICES ASSUME NEW v \in Writers, step'[v] # "idle", event'[v].type = "finalization"
               PROVE  Recorded(file', Intent(event'[v].attempt))
    BY DEF FinalizationsBacked
  <2>1. event'[v] = event[v] /\ step[v] # "idle"
    BY DEF Write, TypeOK
  <2>2. Recorded(file, Intent(event[v].attempt)) /\ event[v] \in Events
    BY <2>1 DEF HistoryInv, FinalizationsBacked, TypeOK
  <2>3. PICK j \in 1..Len(file) : RecordAt(file', j, Intent(event[v].attempt))
    BY <1>6, <1>7, <2>2
  <2> QED
    BY <1>1, <1>4, <2>1, <2>3 DEF Recorded
<1> QED
  BY <1>8, <1>9 DEF HistoryInv

(* A step that leaves the file alone and starts no call keeps it too. *)
LEMMA SameFileKeepsHistory ==
    ASSUME HistoryInv, UNCHANGED file,
           \A v \in Writers : step'[v] # "idle" => step[v] # "idle" /\ event'[v] = event[v]
    PROVE  HistoryInv'
BY DEF HistoryInv, FinalizationAfterIntent, FinalizationsBacked, Recorded, RecordAt,
       IsRecord, StartsLine, EndsLine, Completes

(* A power loss keeps the history: it ends every call. *)
LEMMA PowerLossKeepsHistory ==
    ASSUME TypeOK, HistoryInv, PowerLoss
    PROVE  HistoryInv'
<1>1. FinalizationsBacked'
  BY DEF PowerLoss, FinalizationsBacked
<1>2. FinalizationAfterIntent'
  <2>1. CASE "file" \notin visible'
    BY <2>1 DEF PowerLoss, FinalizationAfterIntent
  <2>2. CASE "file" \in visible'
    <3>1. PICK n \in synced..Len(file) : file' \in Survivors(n)
      BY <2>2 DEF PowerLoss
    <3>2. /\ file' \in Seq(Chunks) /\ Len(file') = n
          /\ \A k \in 1..n : file'[k].event = file[k].event
          /\ \A k \in 1..n : k < n => file'[k] = file[k]
      BY <3>1, SurvivorFacts
    <3>3. file \in Seq(Chunks) /\ n \in Nat /\ n <= Len(file)
      BY <3>1 DEF TypeOK
    <3> SUFFICES ASSUME NEW i \in 1..n, file'[i].event.type = "finalization"
                 PROVE  \E j \in 1..(i - 1) : RecordAt(file', j, Intent(file'[i].event.attempt))
      BY <3>2 DEF FinalizationAfterIntent
    <3>4. i \in 1..Len(file) /\ file'[i].event = file[i].event
      BY <3>2, <3>3
    <3>5. PICK j \in 1..(i - 1) : RecordAt(file, j, Intent(file[i].event.attempt))
      BY <3>4 DEF HistoryInv, FinalizationAfterIntent
    <3>6. j \in 1..Len(file) /\ j <= Len(file') /\ \A k \in 1..j : file[k] = file'[k]
      BY <3>2, <3>3, <3>5
    <3>7. RecordAt(file', j, Intent(file[i].event.attempt))
      BY <3>2, <3>3, <3>5, <3>6, RecordAtOfPrefix
    <3> QED
      BY <3>4, <3>7
  <2> QED
    BY <2>1, <2>2
<1> QED
  BY <1>1, <1>2 DEF HistoryInv

(* HistoryInv is an invariant, for any number of writers. *)
LEMMA HistoryInvariant == Spec => []HistoryInv
<1>1. Init => HistoryInv
  BY DEF Init, HistoryInv, FinalizationAfterIntent, FinalizationsBacked
<1>2. TypeOK /\ TypeOK' /\ HistoryInv /\ [Next]_vars => HistoryInv'
  <2> SUFFICES ASSUME TypeOK, TypeOK', HistoryInv, [Next]_vars PROVE HistoryInv'
    OBVIOUS
  <2>1. ASSUME NEW w \in Writers, NEW e \in Events, BeginAppend(w, e) PROVE HistoryInv'
    <3>1. file' = file /\ FinalizationAfterIntent'
      BY <2>1 DEF BeginAppend, disk, HistoryInv, FinalizationAfterIntent, RecordAt,
                  IsRecord, StartsLine, EndsLine, Completes
    <3>2. e.type = "finalization" => Recorded(file, Intent(e.attempt))
      BY <2>1 DEF BeginAppend, MayAppend
    <3>3. FinalizationsBacked'
      <4> SUFFICES ASSUME NEW v \in Writers, step'[v] # "idle", event'[v].type = "finalization"
                   PROVE  Recorded(file, Intent(event'[v].attempt))
        BY <3>1 DEF FinalizationsBacked
      <4>1. CASE v = w
        BY <2>1, <3>2, <4>1 DEF BeginAppend, TypeOK
      <4>2. CASE v # w
        BY <2>1, <4>2 DEF BeginAppend, TypeOK, HistoryInv, FinalizationsBacked
      <4> QED
        BY <4>1, <4>2
    <3> QED
      BY <3>1, <3>3 DEF HistoryInv
  <2>2. ASSUME NEW w \in Writers, FindDirectory(w) \/ MakeDirectory(w) \/ OpenFile(w)
        PROVE  HistoryInv'
    <3>1. UNCHANGED file /\ \A v \in Writers : step'[v] # "idle" =>
              step[v] # "idle" /\ event'[v] = event[v]
      BY <2>2 DEF FindDirectory, MakeDirectory, OpenFile, disk, TypeOK
    <3> QED
      BY <3>1, SameFileKeepsHistory
  <2>3. ASSUME NEW w \in Writers, WriteWhole(w) \/ WriteSome(w) \/ WriteRest(w)
        PROVE  HistoryInv'
    <3>1. step[w] # "idle"
      BY <2>3 DEF WriteWhole, WriteSome, WriteRest
    <3>2. \E p \in {"whole", "tail"} \union TornParts, next \in Steps \ {"idle"} :
              Write(w, p, next)
      BY <2>3 DEF WriteWhole, WriteSome, WriteRest, PrefixesOf, TornParts, Steps
    <3> QED
      BY <3>1, <3>2, WriteKeepsHistory
  <2>4. ASSUME NEW w \in Writers, SyncFile(w) \/ SyncDirectory(w) \/ Abandon(w)
        PROVE  HistoryInv'
    <3>1. UNCHANGED file
      BY <2>4 DEF SyncFile, SyncDirectory, Abandon, disk
    <3>2. ASSUME NEW v \in Writers, step'[v] # "idle"
          PROVE  step[v] # "idle" /\ event'[v] = event[v]
      BY <2>4, <3>2 DEF SyncFile, SyncDirectory, Abandon, Acknowledge, EndCall, TypeOK
    <3> QED
      BY <3>1, <3>2, SameFileKeepsHistory
  <2>5. CASE PowerLoss
    BY <2>5, PowerLossKeepsHistory
  <2>6. CASE UNCHANGED vars
    BY <2>6, SameFileKeepsHistory DEF vars
  <2> QED
    BY <2>1, <2>2, <2>3, <2>4, <2>5, <2>6 DEF Next, AppendStep
<1> QED
  BY <1>1, <1>2, TypeCorrect, PTL DEF Spec

(* In every journal file, whatever the number of writers and wherever they *)
(* stop, the record of a finalization follows the record of its intent.    *)
THEOREM FinalizationFollowsIntent == Spec => []FinalizationAfterIntent
BY HistoryInvariant, PTL DEF HistoryInv

-----------------------------------------------------------------------------
(* Durability with one writer on an established path. *)

SoleWriter == \A v, w \in Writers : v = w

Setting == SoleWriter /\ InitialPath = Entries /\ LineBreaking = {}

(* The chunk that a write adds, and the records around it. *)
LEMMA WriteFacts ==
    ASSUME TypeOK, NEW w \in Writers, step[w] # "idle",
           NEW p \in {"whole", "tail"} \union TornParts, NEW next, Write(w, p, next)
    PROVE  /\ file' \in Seq(Chunks)
           /\ Len(file) \in Nat /\ Len(file') = Len(file) + 1
           /\ file'[Len(file')] = [part |-> p, event |-> event[w]]
           /\ \A i \in 1..Len(file) : file'[i] = file[i]
           /\ \A i \in 1..Len(file), e \in Events :
                  RecordAt(file', i, e) <=> RecordAt(file, i, e)
<1> DEFINE c == [part |-> p, event |-> event[w]]
<1>1. event[w] \in Events /\ file \in Seq(Chunks) /\ Len(file) \in Nat
  BY DEF TypeOK
<1>2. c \in Chunks
  BY <1>1 DEF Chunks
<1>3. file' = Append(file, c)
  BY DEF Write
<1> HIDE DEF c
<1>4. /\ file' \in Seq(Chunks) /\ Len(file') = Len(file) + 1
      /\ file'[Len(file')] = c
      /\ \A i \in 1..Len(file) : file'[i] = file[i]
  BY <1>1, <1>2, <1>3
<1>5. \A i \in 1..Len(file), e \in Events : RecordAt(file', i, e) <=> RecordAt(file, i, e)
  BY <1>1, <1>2, <1>3, RecordAtOfAppend
<1> QED
  BY <1>1, <1>4, <1>5 DEF c

(* A torn chunk is no record, so it changes nothing that load reports. *)
LEMMA WriteSomeFacts ==
    ASSUME TypeOK, NEW w \in Writers, WriteSome(w), NEW e \in Events
    PROVE  Recorded(file', e) <=> Recorded(file, e)
<1>1. step[w] # "idle" /\ \E p \in TornParts : Write(w, p, "rest")
  BY DEF WriteSome, PrefixesOf, TornParts
<1>2. PICK p \in TornParts : Write(w, p, "rest")
  BY <1>1
<1>3. /\ Len(file) \in Nat /\ Len(file') = Len(file) + 1
      /\ file'[Len(file')] = [part |-> p, event |-> event[w]]
      /\ \A i \in 1..Len(file), d \in Events : RecordAt(file', i, d) <=> RecordAt(file, i, d)
  BY <1>1, <1>2, WriteFacts
<1>4. ~ RecordAt(file', Len(file'), e)
  BY <1>2, <1>3 DEF RecordAt, IsRecord, Completes, TornParts
<1> QED
  BY <1>3, <1>4 DEF Recorded

(* The complete line a writer leaves behind is a record of its event, and  *)
(* the only new one.                                                       *)
LEMMA CompleteLineFacts ==
    ASSUME Setting, TypeOK, CallInv, NEW w \in Writers, WriteWhole(w) \/ WriteRest(w)
    PROVE  /\ RecordAt(file', Len(file'), event[w])
           /\ \A e \in Events : Recorded(file', e) <=> Recorded(file, e) \/ e = event[w]
<1>1. event[w] \in Events /\ ~ IsOver(event[w], LineBreaking)
  BY DEF TypeOK, WriteWhole, WriteRest, Setting, IsOver
<1>2. RecordAt(file', Len(file'), event[w]) /\ Len(file') = Len(file) + 1
      /\ Len(file) \in Nat
      /\ \A i \in 1..Len(file), e \in Events : RecordAt(file', i, e) <=> RecordAt(file, i, e)
  <2>1. CASE WriteWhole(w)
    <3>1. Write(w, "whole", "fsync") /\ step[w] = "write"
      BY <2>1 DEF WriteWhole
    <3>2. /\ Len(file) \in Nat /\ Len(file') = Len(file) + 1
          /\ file'[Len(file')] = [part |-> "whole", event |-> event[w]]
          /\ \A i \in 1..Len(file) : file'[i] = file[i]
          /\ \A i \in 1..Len(file), e \in Events : RecordAt(file', i, e) <=> RecordAt(file, i, e)
      BY <3>1, WriteFacts
    <3>3. file = <<>> \/ EndsLine(file, Len(file))
      BY <3>1 DEF CallInv
    <3>4. StartsLine(file', Len(file'))
      BY <3>2, <3>3 DEF StartsLine, EndsLine
    <3> QED
      BY <1>1, <3>2, <3>4 DEF RecordAt, IsRecord
  <2>2. CASE WriteRest(w)
    <3>1. Write(w, "tail", "fsync") /\ step[w] = "rest"
      BY <2>2 DEF WriteRest
    <3>2. /\ Len(file) \in Nat /\ Len(file') = Len(file) + 1
          /\ file'[Len(file')] = [part |-> "tail", event |-> event[w]]
          /\ \A i \in 1..Len(file) : file'[i] = file[i]
          /\ \A i \in 1..Len(file), e \in Events : RecordAt(file', i, e) <=> RecordAt(file, i, e)
      BY <3>1, WriteFacts
    <3>3. /\ file # <<>> /\ StartsLine(file, Len(file))
          /\ file[Len(file)].part \in TornParts /\ file[Len(file)].event = event[w]
      BY <3>1 DEF CallInv
    <3>4. Len(file) \in 1..Len(file)
      BY <3>2, <3>3 DEF TypeOK
    <3>5. Completes(file', Len(file'))
      BY <3>2, <3>3, <3>4 DEF Completes
    <3>6. StartsLine(file', Len(file') - 1)
      BY <3>2, <3>3, <3>4 DEF StartsLine, EndsLine
    <3> QED
      BY <1>1, <3>2, <3>5, <3>6 DEF RecordAt, IsRecord
  <2> QED
    BY <2>1, <2>2
<1>3. ASSUME NEW e \in Events
      PROVE  Recorded(file', e) <=> Recorded(file, e) \/ e = event[w]
  <2>1. RecordAt(file', Len(file'), e) => e = event[w]
    BY <1>2 DEF RecordAt
  <2> QED
    BY <1>2, <2>1 DEF Recorded
<1> QED
  BY <1>2, <1>3

(* What a power loss keeps: every synced record, and no new one. *)
LEMMA PowerLossFacts ==
    ASSUME TypeOK, PowerLoss, durable = Entries
    PROVE  /\ durable' = Entries
           /\ synced <= synced'
           /\ \A i \in 1..synced, e \in Events : RecordAt(file, i, e) => RecordAt(file', i, e)
           /\ \A e \in Events : Recorded(file', e) => Recorded(file, e)
<1>1. durable' = Entries /\ "file" \in visible'
  BY DEF PowerLoss, TypeOK, Entries
<1>2. PICK n \in synced..Len(file) : file' \in Survivors(n)
  BY <1>1 DEF PowerLoss
<1>3. /\ file' \in Seq(Chunks) /\ Len(file') = n
      /\ \A k \in 1..n : file'[k].event = file[k].event
      /\ \A k \in 1..n : k < n \/ k <= synced => file'[k] = file[k]
  BY <1>2, SurvivorFacts
<1>4. file \in Seq(Chunks) /\ n \in Nat /\ synced \in Nat /\ n <= Len(file)
      /\ synced <= n /\ synced' = n
  BY <1>2, <1>3 DEF TypeOK, PowerLoss
<1>5. \A i \in 1..synced, e \in Events : RecordAt(file, i, e) => RecordAt(file', i, e)
  <2> SUFFICES ASSUME NEW i \in 1..synced, NEW e \in Events
               PROVE  RecordAt(file, i, e) <=> RecordAt(file', i, e)
    OBVIOUS
  <2>1. i \in 1..Len(file) /\ i <= Len(file') /\ \A k \in 1..i : file[k] = file'[k]
    BY <1>3, <1>4
  <2> QED
    BY <1>3, <1>4, <2>1, RecordAtOfPrefix
<1>6. ASSUME NEW e \in Events, Recorded(file', e) PROVE Recorded(file, e)
  <2>1. PICK i \in 1..n : RecordAt(file', i, e)
    BY <1>3, <1>6 DEF Recorded
  <2>2. CASE file'[i] = file[i]
    <3>1. i \in 1..Len(file') /\ i <= Len(file) /\ \A k \in 1..i : file'[k] = file[k]
      BY <1>3, <1>4, <2>1, <2>2
    <3>2. RecordAt(file', i, e) <=> RecordAt(file, i, e)
      BY <1>3, <1>4, <3>1, RecordAtOfPrefix
    <3> QED
      BY <1>4, <2>1, <3>1, <3>2 DEF Recorded
  <2>3. CASE file'[i] # file[i]
    <3>1. i = n
      BY <1>3, <1>4, <2>3
    <3>2. file' # SubSeq(file, 1, n)
      BY <1>4, <2>3, <3>1
    <3>3. PICK p \in PrefixesOf(file[n].event) :
              file' = [SubSeq(file, 1, n) EXCEPT ![n].part = p]
      BY <1>2, <3>2 DEF Survivors
    <3>4. SubSeq(file, 1, n) \in [1..n -> Chunks]
      <4> DEFINE s == SubSeq(file, 1, n)
      <4>1. s \in Seq(Chunks) /\ Len(s) = n
        BY <1>4
      <4> HIDE DEF s
      <4>2. s \in [1..n -> Chunks]
        BY <1>4, <4>1
      <4> QED
        BY <4>2 DEF s
    <3>5. file'[n].part = p /\ p \in TornParts
      BY <2>1, <3>1, <3>3, <3>4 DEF PrefixesOf, TornParts, Chunks
    <3> QED
      BY <2>1, <3>1, <3>5 DEF RecordAt, IsRecord, Completes, TornParts
  <2> QED
    BY <2>2, <2>3
<1> QED
  BY <1>1, <1>4, <1>5, <1>6

(* No step of the only writer, and no fault, breaks CallInv. *)
LEMMA NextKeepsCallInv ==
    ASSUME Setting, TypeOK, TypeOK', DurableInv, [Next]_vars
    PROVE  CallInv' /\ durable' = Entries
<1> USE DEF DurableInv
<1>a. visible = Entries /\ file \in Seq(Chunks)
  BY DEF TypeOK, Entries
<1>b. Len(file) \in Nat /\ (file # <<>> => Len(file) \in 1..Len(file))
  BY <1>a
<1>0. visible = Entries /\ file \in Seq(Chunks) /\ Len(file) \in Nat
      /\ (file # <<>> => Len(file) \in 1..Len(file))
  BY <1>a, <1>b
<1>1. ASSUME NEW w \in Writers, NEW e \in Events, BeginAppend(w, e)
      PROVE  CallInv' /\ durable' = Entries
  <2>1. file = <<>> \/ EndsLine(file, Len(file))
    BY <1>1 DEF BeginAppend, MayAppend, TrailingCorruption, IsRecord, EndsLine,
                Completes, TornParts
  <2>2. ~ Recorded(file, e)
    BY <1>1 DEF BeginAppend, MayAppend
  <2>3. \A v \in Writers : v = w
    BY DEF Setting, SoleWriter
  <2>4. step' [w] = "directory" /\ event'[w] = e /\ fresh'[w] = fresh[w] /\ file' = file
        /\ durable' = durable
    BY <1>1 DEF BeginAppend, disk, TypeOK
  <2> QED
    BY <2>1, <2>2, <2>3, <2>4 DEF CallInv, EndsLine, Recorded, RecordAt, IsRecord,
                                  StartsLine, Completes
<1>2. ASSUME NEW w \in Writers, FindDirectory(w) \/ MakeDirectory(w) \/ OpenFile(w)
      PROVE  CallInv' /\ durable' = Entries
  <2>1. ~ MakeDirectory(w)
    BY <1>0 DEF MakeDirectory, Entries
  <2>2. /\ step[w] \in {"directory", "open"} /\ step'[w] \in {"open", "write"}
        /\ event'[w] = event[w] /\ ~ fresh'[w]
        /\ file' = file /\ durable' = durable
    BY <1>0, <1>2, <2>1 DEF FindDirectory, OpenFile, CallInv, TypeOK, Entries, disk
  <2>3. \A v \in Writers : v = w
    BY DEF Setting, SoleWriter
  <2>4. (file = <<>> \/ EndsLine(file, Len(file))) /\ ~ Recorded(file, event[w])
    BY <2>2 DEF CallInv
  <2>5. (file' = <<>> \/ EndsLine(file', Len(file'))) /\ ~ Recorded(file', event'[w])
    BY <2>2, <2>4 DEF EndsLine, Recorded, RecordAt, IsRecord, StartsLine, Completes
  <2> QED
    BY <2>2, <2>3, <2>5 DEF CallInv
<1>3. ASSUME NEW w \in Writers, WriteSome(w) PROVE CallInv' /\ durable' = Entries
  <2>1. step[w] = "write"
    BY <1>3 DEF WriteSome
  <2>2. PICK p \in TornParts : Write(w, p, "rest")
    BY <1>3 DEF WriteSome, PrefixesOf, TornParts
  <2>3. /\ file' \in Seq(Chunks) /\ Len(file') = Len(file) + 1
        /\ file'[Len(file')] = [part |-> p, event |-> event[w]]
        /\ \A i \in 1..Len(file) : file'[i] = file[i]
    BY <2>1, <2>2, WriteFacts
  <2>4. StartsLine(file', Len(file'))
    <3>1. file = <<>> \/ EndsLine(file, Len(file))
      BY <2>1 DEF CallInv
    <3>2. Len(file') - 1 = Len(file) /\ (Len(file) > 0 => file'[Len(file)] = file[Len(file)])
      BY <1>0, <2>3
    <3> QED
      BY <1>0, <2>3, <3>1, <3>2 DEF StartsLine, EndsLine
  <2>5. step'[w] = "rest" /\ event'[w] = event[w] /\ fresh'[w] = fresh[w] /\ durable' = durable
    BY <2>2 DEF Write, TypeOK
  <2>6. ~ Recorded(file', event[w])
    BY <1>3, <2>1, WriteSomeFacts DEF CallInv, TypeOK
  <2>7. \A v \in Writers : v = w
    BY DEF Setting, SoleWriter
  <2>8. file' # <<>>
    BY <1>0, <2>3
  <2>9. file'[Len(file')].part \in TornParts /\ file'[Len(file')].event = event'[w]
    BY <2>2, <2>3, <2>5
  <2> QED
    BY <2>4, <2>5, <2>6, <2>7, <2>8, <2>9 DEF CallInv
<1>4. ASSUME NEW w \in Writers, WriteWhole(w) \/ WriteRest(w)
      PROVE  CallInv' /\ durable' = Entries
  <2>1. RecordAt(file', Len(file'), event[w])
    BY <1>4, CompleteLineFacts
  <2>2. PICK p \in {"whole", "tail"} : Write(w, p, "fsync") /\ step[w] # "idle"
    BY <1>4 DEF WriteWhole, WriteRest
  <2>3. Len(file') = Len(file) + 1
    BY <2>2, WriteFacts
  <2>4. step'[w] = "fsync" /\ event'[w] = event[w] /\ fresh'[w] = fresh[w] /\ durable' = durable
    BY <2>2 DEF Write, TypeOK
  <2>5. \A v \in Writers : v = w
    BY DEF Setting, SoleWriter
  <2>6. file' # <<>>
    BY <1>0, <2>3
  <2> QED
    BY <2>1, <2>4, <2>5, <2>6 DEF CallInv
<1>5. ASSUME NEW w \in Writers, SyncFile(w) \/ SyncDirectory(w) \/ Abandon(w)
      PROVE  CallInv' /\ durable' = Entries
  <2>1. step'[w] = "idle" /\ ~ fresh'[w] /\ durable' = durable
    BY <1>5 DEF SyncFile, SyncDirectory, Abandon, Acknowledge, EndCall, CallInv, TypeOK, disk
  <2>2. \A v \in Writers : v = w
    BY DEF Setting, SoleWriter
  <2> QED
    BY <2>1, <2>2 DEF CallInv
<1>6. CASE PowerLoss
  BY <1>6, PowerLossFacts DEF PowerLoss, CallInv
<1>7. CASE UNCHANGED vars
  BY <1>7 DEF vars, CallInv, EndsLine, Recorded, RecordAt, IsRecord, StartsLine, Completes
<1> QED
  BY <1>1, <1>2, <1>3, <1>4, <1>5, <1>6, <1>7 DEF Next, AppendStep

(* Nor does it lose an acknowledged event. *)
LEMMA NextKeepsAcknowledged ==
    ASSUME Setting, TypeOK, TypeOK', DurableInv, [Next]_vars, durable' = Entries
    PROVE  AcknowledgedSurvives'
<1> SUFFICES ASSUME NEW e \in acknowledged'
             PROVE  \E i \in 1..synced' : RecordAt(file', i, e)
  BY DEF AcknowledgedSurvives
<1> USE DEF DurableInv
<1>0. /\ e \in Events /\ synced \in Nat /\ synced' \in Nat /\ synced <= Len(file)
      /\ Len(file) \in Nat
  BY DEF TypeOK
<1>1. CASE e \in acknowledged
  <2>1. PICK i \in 1..synced : RecordAt(file, i, e)
    BY <1>1 DEF AcknowledgedSurvives
  <2>2. CASE UNCHANGED file
    <3>1. synced <= synced'
      <4>1. CASE PowerLoss
        BY <4>1, PowerLossFacts
      <4>2. CASE synced' = Len(file)
        BY <1>0, <4>2
      <4>3. CASE synced' = synced
        BY <1>0, <4>3
      <4> QED
        BY <4>1, <4>2, <4>3 DEF Next, AppendStep, vars, disk, BeginAppend, FindDirectory,
           MakeDirectory, OpenFile, WriteWhole, WriteSome, WriteRest, Write, SyncFile,
           SyncDirectory, Abandon
    <3>2. RecordAt(file', i, e)
      BY <2>1, <2>2 DEF RecordAt, IsRecord, StartsLine, EndsLine, Completes
    <3> QED
      BY <1>0, <3>1, <3>2
  <2>3. CASE PowerLoss
    BY <1>0, <2>1, <2>3, PowerLossFacts
  <2>4. ASSUME NEW w \in Writers, WriteWhole(w) \/ WriteSome(w) \/ WriteRest(w)
        PROVE  RecordAt(file', i, e) /\ synced' = synced
    <3>1. PICK p \in {"whole", "tail"} \union TornParts, next \in Steps :
              Write(w, p, next) /\ step[w] # "idle"
      BY <2>4 DEF WriteWhole, WriteSome, WriteRest, PrefixesOf, TornParts, Steps
    <3>2. \A j \in 1..Len(file), d \in Events : RecordAt(file', j, d) <=> RecordAt(file, j, d)
      BY <3>1, WriteFacts
    <3> QED
      BY <1>0, <2>1, <3>1, <3>2 DEF Write
  <2> QED
    BY <2>2, <2>3, <2>4 DEF Next, AppendStep, vars, disk, BeginAppend, FindDirectory,
       MakeDirectory, OpenFile, SyncFile, SyncDirectory, Abandon
<1>2. CASE e \notin acknowledged
  <2>1. PICK w \in Writers : SyncFile(w) /\ e = event[w]
    BY <1>2 DEF Next, AppendStep, vars, BeginAppend, FindDirectory, MakeDirectory, OpenFile,
       WriteWhole, WriteSome, WriteRest, Write, SyncFile, SyncDirectory, Acknowledge, Abandon,
       PowerLoss, CallInv
  <2>2. /\ file # <<>> /\ RecordAt(file, Len(file), e)
        /\ file' = file /\ synced' = Len(file)
    BY <2>1 DEF SyncFile, CallInv
  <2>3. Len(file) \in 1..synced'
    BY <1>0, <2>2 DEF TypeOK
  <2> QED
    BY <2>2, <2>3
<1> QED
  BY <1>1, <1>2

(* DurableInv is an invariant under Setting. *)
LEMMA DurableInvariant ==
    ASSUME Setting
    PROVE  Spec => []DurableInv
<1>1. Init => DurableInv
  BY DEF Init, DurableInv, CallInv, AcknowledgedSurvives, Setting
<1>2. TypeOK /\ TypeOK' /\ DurableInv /\ [Next]_vars => DurableInv'
  BY NextKeepsCallInv, NextKeepsAcknowledged DEF DurableInv
<1> QED
  BY <1>1, <1>2, TypeCorrect, PTL DEF Spec

(* With one writer on an established path, an event whose append returned  *)
(* is a durable record of the journal in every later state, whatever       *)
(* system calls fail and whenever the process dies or power is lost.       *)
THEOREM AcknowledgedIsDurable ==
    ASSUME Setting
    PROVE  Spec => []AcknowledgedSurvives
BY DurableInvariant, PTL DEF DurableInv

-----------------------------------------------------------------------------
(* The journal implements the ledger. *)

(* Intents and finalizations of attempts are different events. *)
LEMMA EventFacts ==
    /\ \A a \in Attempts :
        /\ Intent(a) \in Events /\ Finalization(a) \in Events
        /\ Intent(a) # Finalization(a)
        /\ Intent(a).attempt = a /\ Finalization(a).attempt = a
        /\ Intent(a).type = "intent" /\ Finalization(a).type = "finalization"
    /\ \A e \in Events :
        /\ e.attempt \in Attempts
        /\ e = Intent(e.attempt) \/ e = Finalization(e.attempt)
BY DEF Events, Intent, Finalization

(* A recorded finalization comes with its recorded intent. *)
LEMMA FinalizedIsIntended ==
    ASSUME TypeOK, HistoryInv, NEW a \in Attempts, Recorded(file, Finalization(a))
    PROVE  Recorded(file, Intent(a))
<1>1. PICK i \in 1..Len(file) : file[i].event = Finalization(a)
  BY DEF Recorded, RecordAt
<1>2. PICK j \in 1..(i - 1) : RecordAt(file, j, Intent(a))
  BY <1>1, EventFacts DEF HistoryInv, FinalizationAfterIntent
<1>3. Len(file) \in Nat
  BY DEF TypeOK
<1> QED
  BY <1>2, <1>3 DEF Recorded

(* A step that changes no record and acknowledges nothing stutters. *)
LEMMA StepStutters ==
    ASSUME \A e \in Events : Recorded(file', e) <=> Recorded(file, e),
           acknowledged' = acknowledged
    PROVE  UNCHANGED Ledger!vars
<1>1. \A a \in Attempts : StatusOf(a)' = StatusOf(a) /\ PromiseOf(a)' = PromiseOf(a)
  BY EventFacts DEF StatusOf, PromiseOf
<1> QED
  BY <1>1 DEF Ledger!vars

(* Completing a line is a Record step of the ledger. *)
LEMMA StepRecords ==
    ASSUME Setting, TypeOK, HistoryInv, CallInv, NEW w \in Writers,
           WriteWhole(w) \/ WriteRest(w),
           NEW CONSTANT a \in Attempts, a = event[w].attempt
    PROVE  Ledger!Record(a)
<1>1. event[w] \in Events /\ step[w] \in {"write", "rest"}
      /\ (event[w] = Intent(a) \/ event[w] = Finalization(a))
  BY EventFacts DEF WriteWhole, WriteRest, TypeOK
<1>2. \A e \in Events : Recorded(file', e) <=> Recorded(file, e) \/ e = event[w]
  BY CompleteLineFacts
<1>3. acknowledged' = acknowledged
  BY DEF WriteWhole, WriteRest, Write
<1>4. ~ Recorded(file, event[w])
  BY <1>1 DEF CallInv
<1>5. \A b \in Attempts : b # a => StatusOf(b)' = StatusOf(b)
  BY <1>1, <1>2, EventFacts DEF StatusOf
<1>6. StatusOf(a) \in {0, 1} /\ StatusOf(a)' = StatusOf(a) + 1
  <2>1. CASE event[w] = Intent(a)
    <3>1. ~ Recorded(file, Finalization(a))
      BY <1>1, <1>4, <2>1, FinalizedIsIntended
    <3> QED
      BY <1>1, <1>2, <1>4, <2>1, <3>1, EventFacts DEF StatusOf
  <2>2. CASE event[w] = Finalization(a)
    <3>1. Recorded(file, Intent(a))
      BY <1>1, <2>2, EventFacts DEF HistoryInv, FinalizationsBacked
    <3> QED
      BY <1>1, <1>2, <1>4, <2>2, <3>1, EventFacts DEF StatusOf
  <2> QED
    BY <1>1, <2>1, <2>2
<1>7. \A b \in Attempts : PromiseOf(b)' = PromiseOf(b)
  BY <1>3 DEF PromiseOf
<1>8. [b \in Attempts |-> StatusOf(b)]' =
          [[b \in Attempts |-> StatusOf(b)] EXCEPT ![a] = @ + 1]
  BY <1>1, <1>5, <1>6
<1>9. [b \in Attempts |-> PromiseOf(b)]' = [b \in Attempts |-> PromiseOf(b)]
  BY <1>7
<1>10. [b \in Attempts |-> StatusOf(b)][a] \in {0, 1}
  BY <1>1, <1>6
<1> QED
  BY <1>1, <1>8, <1>9, <1>10 DEF Ledger!Record, Ledger!Absent, Ledger!Open

(* Returning from an append is a Promise step. *)
LEMMA StepPromises ==
    ASSUME Setting, TypeOK, HistoryInv, CallInv, NEW w \in Writers, SyncFile(w),
           NEW CONSTANT a \in Attempts, a = event[w].attempt
    PROVE  Ledger!Promise(a) \/ UNCHANGED Ledger!vars
<1>0. event[w] \in Events /\ step[w] = "fsync"
  BY DEF SyncFile, TypeOK
<1>1. event[w] \in Events /\ step[w] = "fsync"
      /\ (event[w] = Intent(a) \/ event[w] = Finalization(a))
  BY <1>0, EventFacts
<1>2. file' = file /\ acknowledged' = acknowledged \union {event[w]}
  BY DEF SyncFile, Acknowledge, CallInv
<1>3. Recorded(file, event[w])
  <2>1. file # <<>> /\ RecordAt(file, Len(file), event[w])
    BY <1>1 DEF CallInv
  <2>2. file \in Seq(Chunks)
    BY DEF TypeOK
  <2>3. Len(file) \in 1..Len(file)
    BY <2>1, <2>2
  <2> QED
    BY <2>1, <2>3 DEF Recorded
<1>4. \A b \in Attempts : StatusOf(b)' = StatusOf(b)
  BY <1>2 DEF StatusOf, Recorded, RecordAt, IsRecord, StartsLine, EndsLine, Completes
<1>5. \A b \in Attempts : b # a => PromiseOf(b)' = PromiseOf(b)
  BY <1>1, <1>2, EventFacts DEF PromiseOf
<1>6. \/ PromiseOf(a)' = PromiseOf(a)
      \/ /\ PromiseOf(a)' \in {0, 1, 2} /\ PromiseOf(a) < PromiseOf(a)'
         /\ PromiseOf(a)' <= StatusOf(a)
  <2>1. CASE event[w] = Intent(a)
    BY <1>1, <1>2, <1>3, <2>1, EventFacts DEF PromiseOf, StatusOf
  <2>2. CASE event[w] = Finalization(a)
    BY <1>1, <1>2, <1>3, <2>2, EventFacts DEF PromiseOf, StatusOf
  <2> QED
    BY <1>1, <2>1, <2>2
<1>7. [b \in Attempts |-> StatusOf(b)]' = [b \in Attempts |-> StatusOf(b)]
  BY <1>4
<1>8. CASE PromiseOf(a)' = PromiseOf(a)
  <2>1. [b \in Attempts |-> PromiseOf(b)]' = [b \in Attempts |-> PromiseOf(b)]
    BY <1>5, <1>8
  <2> QED
    BY <1>7, <2>1 DEF Ledger!vars
<1>9. CASE PromiseOf(a)' # PromiseOf(a)
  <2>1. [b \in Attempts |-> PromiseOf(b)]' =
            [[b \in Attempts |-> PromiseOf(b)] EXCEPT ![a] = PromiseOf(a)']
    BY <1>1, <1>5
  <2>2. /\ [b \in Attempts |-> PromiseOf(b)][a] < PromiseOf(a)'
        /\ PromiseOf(a)' <= [b \in Attempts |-> StatusOf(b)][a]
    BY <1>1, <1>6, <1>9
  <2>3. PromiseOf(a)' \in {0, 1, 2}
    BY <1>6, <1>9
  <2> QED
    BY <1>7, <2>1, <2>2, <2>3
    DEF Ledger!Promise, Ledger!Statuses, Ledger!Absent, Ledger!Open, Ledger!Finalized
<1> QED
  BY <1>8, <1>9

(* A power loss is a Forget step. *)
LEMMA StepForgets ==
    ASSUME Setting, TypeOK, TypeOK', HistoryInv, HistoryInv', DurableInv, DurableInv', PowerLoss
    PROVE  Ledger!Forget
<1>1. acknowledged' = acknowledged /\ acknowledged \subseteq Events
  BY DEF PowerLoss, TypeOK
<1>2. \A e \in Events : Recorded(file', e) => Recorded(file, e)
  BY PowerLossFacts DEF DurableInv
<1>3. \A e \in acknowledged : Recorded(file', e)
  <2>1. synced' \in 0..Len(file')
    BY DEF TypeOK
  <2>2. file' \in Seq(Chunks)
    BY DEF TypeOK
  <2>3. Len(file') \in Nat
    BY <2>2
  <2> QED
    BY <1>1, <2>1, <2>3 DEF DurableInv, AcknowledgedSurvives, Recorded
<1>4. ASSUME NEW a \in Attempts
      PROVE  /\ StatusOf(a)' \in {0, 1, 2} /\ PromiseOf(a)' = PromiseOf(a)
             /\ PromiseOf(a) <= StatusOf(a)' /\ StatusOf(a)' <= StatusOf(a)
  BY <1>1, <1>2, <1>3, EventFacts DEF StatusOf, PromiseOf
<1>5. [b \in Attempts |-> PromiseOf(b)]' = [b \in Attempts |-> PromiseOf(b)]
  BY <1>4
<1>6. [b \in Attempts |-> StatusOf(b)]' \in [Attempts -> {0, 1, 2}]
  BY <1>4
<1>7. \A a \in Attempts :
         /\ [b \in Attempts |-> PromiseOf(b)][a] <= [b \in Attempts |-> StatusOf(b)]'[a]
         /\ [b \in Attempts |-> StatusOf(b)]'[a] <= [b \in Attempts |-> StatusOf(b)][a]
  BY <1>4
<1> QED
  BY <1>5, <1>6, <1>7
  DEF Ledger!Forget, Ledger!Statuses, Ledger!Absent, Ledger!Open, Ledger!Finalized

(* Every step of the journal is a step of the ledger or stutters. *)
LEMMA StepRefines ==
    ASSUME Setting, TypeOK, TypeOK', HistoryInv, HistoryInv', DurableInv, DurableInv', [Next]_vars
    PROVE  [Ledger!Next]_(Ledger!vars)
<1> USE DEF DurableInv
<1>1. ASSUME NEW w \in Writers, WriteWhole(w) \/ WriteRest(w) PROVE Ledger!Next
  <2>1. event[w] \in Events
    BY <1>1 DEF TypeOK, WriteWhole, WriteRest
  <2>a. event[w].attempt \in Attempts
    BY <2>1 DEF Events
  <2>2. PICK a \in Attempts : a = event[w].attempt
    BY <2>a
  <2>3. Ledger!Record(a)
    BY <1>1, <2>2, StepRecords
  <2> QED
    BY <2>3 DEF Ledger!Next
<1>2. ASSUME NEW w \in Writers, SyncFile(w) PROVE Ledger!Next \/ UNCHANGED Ledger!vars
  <2>1. event[w] \in Events
    <3>1. step[w] = "fsync"
      BY <1>2 DEF SyncFile
    <3> QED
      BY <3>1 DEF TypeOK
  <2>a. event[w].attempt \in Attempts
    BY <2>1 DEF Events
  <2>2. PICK a \in Attempts : a = event[w].attempt
    BY <2>a
  <2>3. Ledger!Promise(a) \/ UNCHANGED Ledger!vars
    BY <1>2, <2>2, StepPromises
  <2> QED
    BY <2>3 DEF Ledger!Next
<1>3. ASSUME NEW w \in Writers, WriteSome(w) PROVE UNCHANGED Ledger!vars
  <2>1. acknowledged' = acknowledged
    BY <1>3 DEF WriteSome, Write
  <2> QED
    BY <1>3, <2>1, WriteSomeFacts, StepStutters
<1>4. CASE PowerLoss
  BY <1>4, StepForgets DEF Ledger!Next
<1>5. CASE file' = file /\ acknowledged' = acknowledged
  <2>1. \A e \in Events : Recorded(file', e) <=> Recorded(file, e)
    BY <1>5 DEF Recorded, RecordAt, IsRecord, StartsLine, EndsLine, Completes
  <2> QED
    BY <1>5, <2>1, StepStutters
<1>6. ASSUME NEW w \in Writers, SyncDirectory(w) PROVE FALSE
  BY <1>6 DEF SyncDirectory, CallInv
<1> QED
  BY <1>1, <1>2, <1>3, <1>4, <1>5, <1>6
  DEF Next, AppendStep, BeginAppend, FindDirectory, MakeDirectory, OpenFile, Abandon, disk, vars

(* With one writer on an established path, the journal file with its       *)
(* system calls, crashes and power losses implements the ledger of         *)
(* attempts: what load reports moves from absent to open to finalized, and *)
(* is only taken back where no append has returned.                        *)
THEOREM JournalImplementsLedger ==
    ASSUME Setting
    PROVE  Spec => ImplementsLedger
<1>1. Init => Ledger!Init
  BY DEF Init, Ledger!Init, Ledger!Absent, StatusOf, PromiseOf, Recorded
<1>2. /\ TypeOK /\ TypeOK' /\ HistoryInv /\ HistoryInv' /\ DurableInv /\ DurableInv'
      /\ [Next]_vars
      => [Ledger!Next]_(Ledger!vars)
  BY StepRefines
<1> QED
  BY <1>1, <1>2, TypeCorrect, HistoryInvariant, DurableInvariant, PTL DEF Spec, ImplementsLedger, Ledger!Spec

-----------------------------------------------------------------------------
(* What one writer leaves in the file, on any path.  A torn record stays   *)
(* the last one because every append loads the file first and refuses a    *)
(* file whose final record is incomplete.                                  *)

Unwritten == {"directory", "mkdir", "open", "write"}

TornInv ==
    /\ TornRecordIsLast
    /\ \A w \in Writers :
          /\ step[w] \in Unwritten => file = <<>> \/ EndsLine(file, Len(file))
          /\ step[w] = "rest" =>
                 /\ file # <<>> /\ file[Len(file)].part \in TornParts
                 /\ file[Len(file)].event = event[w]

(* Without a line boundary inside a record, every complete line is the     *)
(* record of an event that is recorded nowhere else.                       *)
TidyInv ==
    /\ \A i \in 1..Len(file) : IF EndsLine(file, i) THEN IsRecord(file, i) ELSE StartsLine(file, i)
    /\ \A i, j \in 1..Len(file) : j < i /\ IsRecord(file, i) => ~ RecordAt(file, j, file[i].event)
    /\ \A w \in Writers : step[w] \in Unwritten \union {"rest"} => ~ Recorded(file, event[w])

(* The predicates on files only look at the file. *)
LEMMA SameFileKeepsBoth ==
    ASSUME UNCHANGED file,
           \A w \in Writers :
              /\ step'[w] \in Unwritten \union {"rest"} => event'[w] = event[w]
              /\ step'[w] \in Unwritten => step[w] \in Unwritten
              /\ step'[w] = "rest" => step[w] = "rest"
    PROVE  /\ TornInv => TornInv'
           /\ TidyInv => TidyInv'
<1>1. TornInv => TornInv'
  BY DEF TornInv, TornRecordIsLast, Completes, EndsLine, Unwritten
<1>2. TidyInv => TidyInv'
  BY DEF TidyInv, EndsLine, StartsLine, IsRecord, Completes, RecordAt, Recorded, Unwritten
<1> QED
  BY <1>1, <1>2

(* The last chunk that a power loss leaves torn was no rest of a line. *)
LEMMA SurvivorLast ==
    ASSUME TypeOK, NEW n \in synced..Len(file), NEW g \in Survivors(n), NEW i \in 1..n,
           g[i] # file[i]
    PROVE  /\ i = n /\ file[i].part # "tail"
           /\ g[i].part \in PrefixesOf(file[i].event) /\ g[i].part \in TornParts
<1>1. /\ file \in Seq(Chunks) /\ n \in Nat /\ n <= Len(file) /\ n \in 1..Len(file)
      /\ synced \in Nat
  BY DEF TypeOK
<1>2. i = n
  BY <1>1, SurvivorFacts
<1>3. g # SubSeq(file, 1, n)
  BY <1>1, <1>2
<1>4. PICK p \in PrefixesOf(file[n].event) :
          g = [SubSeq(file, 1, n) EXCEPT ![n].part = p] /\ file[n].part # "tail"
  BY <1>3 DEF Survivors
<1>5. SubSeq(file, 1, n) \in [1..n -> Chunks]
  <2> DEFINE s == SubSeq(file, 1, n)
  <2>1. s \in Seq(Chunks) /\ Len(s) = n
    BY <1>1
  <2> HIDE DEF s
  <2>2. s \in [1..n -> Chunks]
    BY <1>1, <2>1
  <2> QED
    BY <2>2 DEF s
<1>6. g[n].part = p
  BY <1>1, <1>4, <1>5 DEF Chunks
<1>7. p \in TornParts
  BY DEF PrefixesOf, TornParts
<1> QED
  BY <1>2, <1>4, <1>6, <1>7

(* The only call there is begins with a load that finds no torn record. *)
LEMMA BeginKeepsBoth ==
    ASSUME SoleWriter, TypeOK, NEW w \in Writers, NEW e \in Events, BeginAppend(w, e)
    PROVE  /\ TornInv => TornInv'
           /\ TidyInv => TidyInv'
<1>1. file = <<>> \/ EndsLine(file, Len(file))
  BY DEF BeginAppend, MayAppend, TrailingCorruption, IsRecord, EndsLine, Completes, TornParts
<1>2. ~ Recorded(file, e)
  BY DEF BeginAppend, MayAppend
<1>3. step'[w] = "directory" /\ event'[w] = e /\ file' = file
  BY DEF BeginAppend, disk, TypeOK
<1>4. \A v \in Writers : v = w
  BY DEF SoleWriter
<1>5. TornInv => TornInv'
  BY <1>1, <1>3, <1>4 DEF TornInv, TornRecordIsLast, EndsLine, Completes
<1>6. TidyInv => TidyInv'
  BY <1>2, <1>3, <1>4 DEF TidyInv, EndsLine, StartsLine, IsRecord, Completes, RecordAt, Recorded
<1> QED
  BY <1>5, <1>6

(* The one writer appends to a file whose last line is complete, or goes   *)
(* on with the line it has begun itself.                                   *)
LEMMA WriteKeepsTorn ==
    ASSUME SoleWriter, TypeOK, TornInv, NEW w \in Writers,
           WriteWhole(w) \/ WriteSome(w) \/ WriteRest(w)
    PROVE  TornInv'
<1>1. PICK p \in {"whole", "tail"} \union TornParts, next \in {"fsync", "rest"} :
          /\ Write(w, p, next) /\ step[w] # "idle"
          /\ step[w] = IF p = "tail" THEN "rest" ELSE "write"
          /\ next = IF p \in TornParts THEN "rest" ELSE "fsync"
  BY DEF WriteWhole, WriteSome, WriteRest, PrefixesOf, TornParts
<1>2. /\ Len(file) \in Nat /\ Len(file') = Len(file) + 1
      /\ file'[Len(file')] = [part |-> p, event |-> event[w]]
      /\ \A i \in 1..Len(file) : file'[i] = file[i]
  BY <1>1, WriteFacts
<1>3. step'[w] = next /\ event'[w] = event[w]
  BY <1>1 DEF Write, TypeOK
<1>4. \A v \in Writers : v = w
  BY DEF SoleWriter
<1>5. TornRecordIsLast'
  <2> SUFFICES ASSUME NEW i \in 1..Len(file), file'[i].part \in TornParts
               PROVE  Completes(file', i + 1)
    BY <1>2 DEF TornRecordIsLast
  <2>1. file[i].part \in TornParts /\ file'[i] = file[i]
    BY <1>2
  <2>2. CASE i = Len(file)
    <3>1. step[w] = "rest" /\ p = "tail" /\ file[i].event = event[w]
      BY <1>1, <2>1, <2>2 DEF TornInv, Unwritten, EndsLine
    <3> QED
      BY <1>2, <2>1, <2>2, <3>1 DEF Completes
  <2>3. CASE i < Len(file)
    <3>1. Completes(file, i + 1)
      BY <2>1, <2>3 DEF TornInv, TornRecordIsLast
    <3>2. i + 1 \in 1..Len(file) /\ (i + 1) - 1 = i
      BY <1>2, <2>3
    <3>3. file'[i + 1] = file[i + 1]
      BY <1>2, <3>2
    <3> QED
      BY <2>1, <3>1, <3>2, <3>3 DEF Completes
  <2> QED
    BY <1>2, <2>2, <2>3
<1>6. file' # <<>>
  BY <1>2
<1> QED
  BY <1>1, <1>2, <1>3, <1>4, <1>5, <1>6 DEF TornInv, Unwritten

(* A power loss cuts the file behind a line, or tears its last chunk. *)
LEMMA PowerLossKeepsTorn ==
    ASSUME TypeOK, TornInv, PowerLoss
    PROVE  TornInv'
<1>1. \A w \in Writers : step'[w] = "idle"
  BY DEF PowerLoss
<1>2. CASE "file" \notin visible'
  BY <1>1, <1>2 DEF PowerLoss, TornInv, TornRecordIsLast, Unwritten
<1>3. CASE "file" \in visible'
  <2>1. PICK n \in synced..Len(file) : file' \in Survivors(n)
    BY <1>3 DEF PowerLoss
  <2>2. /\ Len(file') = n /\ n \in Nat /\ n <= Len(file) /\ Len(file) \in Nat
        /\ \A k \in 1..n : file'[k].event = file[k].event
        /\ \A k \in 1..n : k < n => file'[k] = file[k]
    BY <2>1, SurvivorFacts DEF TypeOK
  <2>3. ASSUME NEW i \in 1..n, file'[i].part \in TornParts, i # n
        PROVE  Completes(file', i + 1)
    <3>1. file[i] = file'[i] /\ i \in 1..Len(file) /\ i # Len(file)
      BY <2>2, <2>3
    <3>2. Completes(file, i + 1)
      BY <2>3, <3>1 DEF TornInv, TornRecordIsLast
    <3>3. i + 1 \in 1..n /\ (i + 1) - 1 = i
      BY <2>2, <2>3
    <3>4. file'[i + 1] = file[i + 1]
      BY <2>1, <3>2, <3>3, SurvivorLast DEF Completes
    <3> QED
      BY <3>1, <3>2, <3>3, <3>4 DEF Completes
  <2>4. TornRecordIsLast'
    BY <2>2, <2>3 DEF TornRecordIsLast
  <2> QED
    BY <1>1, <2>4 DEF TornInv, Unwritten
<1> QED
  BY <1>2, <1>3

(* The steps that touch neither the file nor what a call is about. *)
LEMMA OthersKeepBoth ==
    ASSUME TypeOK, NEW w \in Writers,
           \/ FindDirectory(w) \/ MakeDirectory(w) \/ OpenFile(w)
           \/ SyncFile(w) \/ SyncDirectory(w) \/ Abandon(w)
    PROVE  /\ TornInv => TornInv'
           /\ TidyInv => TidyInv'
<1>1. UNCHANGED file
  BY DEF FindDirectory, MakeDirectory, OpenFile, SyncFile, SyncDirectory, Abandon, disk
<1>2. \A v \in Writers :
          /\ step'[v] \in Unwritten \union {"rest"} => event'[v] = event[v]
          /\ step'[v] \in Unwritten => step[v] \in Unwritten
          /\ step'[v] = "rest" => step[v] = "rest"
  BY DEF FindDirectory, MakeDirectory, OpenFile, SyncFile, SyncDirectory, Abandon,
         Acknowledge, EndCall, disk, TypeOK, Unwritten
<1> QED
  BY <1>1, <1>2, SameFileKeepsBoth

LEMMA TornInvariant ==
    ASSUME SoleWriter
    PROVE  Spec => []TornInv
<1>1. Init => TornInv
  BY DEF Init, TornInv, TornRecordIsLast, Unwritten
<1>2. TypeOK /\ TornInv /\ [Next]_vars => TornInv'
  <2> SUFFICES ASSUME TypeOK, TornInv, [Next]_vars PROVE TornInv'
    OBVIOUS
  <2>1. CASE UNCHANGED vars
    BY <2>1, SameFileKeepsBoth DEF vars
  <2> QED
    BY <2>1, BeginKeepsBoth, WriteKeepsTorn, PowerLossKeepsTorn, OthersKeepBoth
    DEF Next, AppendStep
<1> QED
  BY <1>1, <1>2, TypeCorrect, PTL DEF Spec

(* With one writer, whatever characters its records hold, wherever the     *)
(* path stands and whenever it stops, no record is glued to a torn one.    *)
THEOREM TornStaysLast ==
    ASSUME SoleWriter
    PROVE  Spec => []TornRecordIsLast
BY TornInvariant, PTL DEF TornInv

(* TidyInv, where no record holds a line boundary: one lemma for each step *)
(* that changes the file.                                                  *)
LEMMA WriteKeepsTidy ==
    ASSUME SoleWriter, LineBreaking = {}, TypeOK, TornInv, TidyInv, NEW w \in Writers,
           WriteWhole(w) \/ WriteSome(w) \/ WriteRest(w)
    PROVE  TidyInv'
<1>1. PICK p \in {"whole", "tail"} \union TornParts, next \in {"fsync", "rest"} :
          /\ Write(w, p, next) /\ step[w] # "idle"
          /\ step[w] = IF p = "tail" THEN "rest" ELSE "write"
          /\ next = IF p \in TornParts THEN "rest" ELSE "fsync"
  BY DEF WriteWhole, WriteSome, WriteRest, PrefixesOf, TornParts
<1> DEFINE n == Len(file) + 1
<1>2. /\ Len(file) \in Nat /\ Len(file') = n
      /\ file'[n] = [part |-> p, event |-> event[w]]
      /\ \A i \in 1..Len(file) : file'[i] = file[i]
      /\ \A i \in 1..Len(file), e \in Events : RecordAt(file', i, e) <=> RecordAt(file, i, e)
  BY <1>1, WriteFacts
<1>3. step'[w] = next /\ event'[w] = event[w] /\ event[w] \in Events
  BY <1>1 DEF Write, TypeOK
<1>4. \A v \in Writers : v = w
  BY DEF SoleWriter
<1>5. ~ Recorded(file, event[w])
  BY <1>1 DEF TidyInv, Unwritten
<1>6. \A i \in 1..Len(file) :
          /\ file[i].event \in Events
          /\ IsRecord(file', i) <=> IsRecord(file, i)
          /\ EndsLine(file', i) <=> EndsLine(file, i)
          /\ StartsLine(file', i) <=> StartsLine(file, i)
  <2> SUFFICES ASSUME NEW i \in 1..Len(file)
               PROVE  /\ file[i].event \in Events
                      /\ IsRecord(file', i) <=> IsRecord(file, i)
                      /\ EndsLine(file', i) <=> EndsLine(file, i)
                      /\ StartsLine(file', i) <=> StartsLine(file, i)
    OBVIOUS
  <2>1. file[i] \in Chunks
    BY DEF TypeOK
  <2>2. file[i].event \in Events /\ file'[i] = file[i]
    BY <1>2, <2>1 DEF Chunks
  <2>3. RecordAt(file', i, file[i].event) <=> RecordAt(file, i, file[i].event)
    BY <1>2, <2>2
  <2>4. i > 1 => file'[i - 1] = file[i - 1]
    BY <1>2
  <2> QED
    BY <2>2, <2>3, <2>4 DEF RecordAt, EndsLine, StartsLine
<1>7. file'[n].part = p /\ file'[n].event = event[w]
  BY <1>2
<1>8. IF EndsLine(file', n) THEN IsRecord(file', n) ELSE StartsLine(file', n)
  <2>1. ~ IsOver(file'[n].event, LineBreaking)
    BY DEF IsOver
  <2>2. CASE p # "tail"
    <3>1. file = <<>> \/ EndsLine(file, Len(file))
      BY <1>1, <2>2 DEF TornInv, Unwritten
    <3>2. StartsLine(file', n)
      BY <1>2, <1>6, <3>1 DEF StartsLine
    <3> QED
      BY <1>7, <2>1, <2>2, <3>2 DEF IsRecord, EndsLine, TornParts
  <2>3. CASE p = "tail"
    <3>1. file # <<>> /\ file[Len(file)].part \in TornParts /\ file[Len(file)].event = event[w]
      BY <1>1, <2>3 DEF TornInv
    <3>2. Len(file) \in 1..Len(file) /\ n > 1 /\ n - 1 = Len(file)
      BY <1>2, <3>1 DEF TypeOK
    <3>3. StartsLine(file', n - 1)
      BY <1>6, <3>1, <3>2 DEF TidyInv, EndsLine
    <3>4. Completes(file', n)
      BY <1>2, <1>7, <2>3, <3>1, <3>2 DEF Completes
    <3> QED
      BY <1>7, <2>1, <2>3, <3>3, <3>4 DEF IsRecord, EndsLine, TornParts
  <2> QED
    BY <2>2, <2>3
<1>9. ASSUME NEW i \in 1..Len(file'), NEW j \in 1..Len(file'), j < i, IsRecord(file', i)
      PROVE  ~ RecordAt(file', j, file'[i].event)
  <2>1. j \in 1..Len(file)
    BY <1>2, <1>9
  <2>2. CASE i \in 1..Len(file)
    <3>1. ~ RecordAt(file, j, file[i].event)
      BY <1>6, <1>9, <2>1, <2>2 DEF TidyInv
    <3> QED
      BY <1>2, <1>6, <2>1, <2>2, <3>1
  <2>3. CASE i = n
    <3>1. ~ RecordAt(file, j, event[w])
      BY <1>5, <2>1 DEF Recorded
    <3> QED
      BY <1>2, <1>3, <1>7, <2>1, <2>3, <3>1
  <2> QED
    BY <1>2, <2>2, <2>3
<1>10. \A i \in 1..Len(file') :
          IF EndsLine(file', i) THEN IsRecord(file', i) ELSE StartsLine(file', i)
  <2> SUFFICES ASSUME NEW i \in 1..Len(file')
               PROVE  IF EndsLine(file', i) THEN IsRecord(file', i) ELSE StartsLine(file', i)
    OBVIOUS
  <2>1. CASE i \in 1..Len(file)
    BY <1>6, <2>1 DEF TidyInv
  <2>2. CASE i = n
    BY <1>8, <2>2
  <2> QED
    BY <1>2, <2>1, <2>2
<1>11. ASSUME NEW v \in Writers, step'[v] \in Unwritten \union {"rest"}
       PROVE  ~ Recorded(file', event'[v])
  <2>1. v = w /\ p \in TornParts
    BY <1>1, <1>3, <1>4, <1>11 DEF Unwritten
  <2>2. ~ RecordAt(file', n, event[w])
    BY <1>7, <2>1 DEF RecordAt, IsRecord, Completes, TornParts
  <2> QED
    BY <1>2, <1>3, <1>5, <2>1, <2>2 DEF Recorded
<1> QED
  BY <1>9, <1>10, <1>11 DEF TidyInv

LEMMA PowerLossKeepsTidy ==
    ASSUME TypeOK, TidyInv, PowerLoss
    PROVE  TidyInv'
<1>1. \A w \in Writers : step'[w] = "idle"
  BY DEF PowerLoss
<1>2. CASE "file" \notin visible'
  BY <1>1, <1>2 DEF PowerLoss, TidyInv, Unwritten
<1>3. CASE "file" \in visible'
  <2>1. PICK n \in synced..Len(file) : file' \in Survivors(n)
    BY <1>3 DEF PowerLoss
  <2>2. /\ file \in Seq(Chunks) /\ file' \in Seq(Chunks)
        /\ Len(file') = n /\ n \in Nat /\ n <= Len(file) /\ Len(file) \in Nat
        /\ \A k \in 1..n : file'[k].event = file[k].event
        /\ \A k \in 1..n : k < n => file'[k] = file[k]
    BY <2>1, SurvivorFacts DEF TypeOK
  <2>3. ASSUME NEW i \in 1..n, file'[i] = file[i]
        PROVE  /\ IsRecord(file', i) <=> IsRecord(file, i)
               /\ EndsLine(file', i) <=> EndsLine(file, i)
    <3>1. i \in 1..Len(file) /\ i <= Len(file') /\ \A k \in 1..i : file[k] = file'[k]
      BY <2>2, <2>3
    <3>2. IsRecord(file, i) <=> IsRecord(file', i)
      BY <2>2, <3>1, RecordOfPrefix
    <3> QED
      BY <2>3, <3>2 DEF EndsLine
  <2>4. \A i \in 1..n : StartsLine(file', i) <=> StartsLine(file, i)
    <3> SUFFICES ASSUME NEW i \in 1..n PROVE StartsLine(file', i) <=> StartsLine(file, i)
      OBVIOUS
    <3>1. i > 1 => file'[i - 1] = file[i - 1]
      BY <2>2
    <3> QED
      BY <3>1 DEF StartsLine, EndsLine
  <2>5. ASSUME NEW i \in 1..n, file'[i] # file[i]
        PROVE  ~ EndsLine(file', i) /\ StartsLine(file', i) /\ ~ IsRecord(file', i)
    <3>1. file[i].part # "tail" /\ file'[i].part \in TornParts
      BY <2>1, <2>5, SurvivorLast
    <3>2. i \in 1..Len(file)
      BY <2>2
    <3>3. StartsLine(file, i)
      BY <3>1, <3>2 DEF TidyInv, IsRecord, Completes
    <3> QED
      BY <2>4, <3>1, <3>3 DEF EndsLine, IsRecord, Completes, TornParts
  <2>6. ASSUME NEW i \in 1..n
        PROVE  IF EndsLine(file', i) THEN IsRecord(file', i) ELSE StartsLine(file', i)
    <3>1. i \in 1..Len(file)
      BY <2>2
    <3>2. IF EndsLine(file, i) THEN IsRecord(file, i) ELSE StartsLine(file, i)
      BY <3>1 DEF TidyInv
    <3> QED
      BY <2>3, <2>4, <2>5, <3>2
  <2>7. ASSUME NEW i \in 1..n, NEW j \in 1..n, j < i, IsRecord(file', i)
        PROVE  ~ RecordAt(file', j, file'[i].event)
    <3>1. file'[i] = file[i] /\ file'[j] = file[j] /\ i \in 1..Len(file) /\ j \in 1..Len(file)
      BY <2>2, <2>5, <2>7
    <3>2. ~ RecordAt(file, j, file[i].event)
      BY <2>3, <2>7, <3>1 DEF TidyInv
    <3> QED
      BY <2>3, <3>1, <3>2 DEF RecordAt
  <2> QED
    BY <1>1, <2>2, <2>6, <2>7 DEF TidyInv, Unwritten
<1> QED
  BY <1>2, <1>3

LEMMA TidyInvariant ==
    ASSUME SoleWriter, LineBreaking = {}
    PROVE  Spec => []TidyInv
<1>1. Init => TidyInv
  BY DEF Init, TidyInv, Unwritten
<1>2. TypeOK /\ TornInv /\ TidyInv /\ [Next]_vars => TidyInv'
  <2> SUFFICES ASSUME TypeOK, TornInv, TidyInv, [Next]_vars PROVE TidyInv'
    OBVIOUS
  <2>1. CASE UNCHANGED vars
    BY <2>1, SameFileKeepsBoth DEF vars
  <2> QED
    BY <2>1, BeginKeepsBoth, WriteKeepsTidy, PowerLossKeepsTidy, OthersKeepBoth
    DEF Next, AppendStep
<1> QED
  BY <1>1, <1>2, TypeCorrect, TornInvariant, PTL DEF Spec

(* Without a character outside ASCII nothing is cut inside a character. *)
DecodableInv == \A i \in 1..Len(file) : file[i].part # "stub"

LEMMA DecodableInvariant ==
    ASSUME Wide = {}
    PROVE  Spec => []DecodableInv
<1>0. \A e \in Events : PrefixesOf(e) = {"head"}
  BY DEF PrefixesOf, IsOver
<1>1. Init => DecodableInv
  BY DEF Init, DecodableInv
<1>2. TypeOK /\ DecodableInv /\ [Next]_vars => DecodableInv'
  <2> SUFFICES ASSUME TypeOK, DecodableInv, [Next]_vars PROVE DecodableInv'
    OBVIOUS
  <2>1. ASSUME NEW w \in Writers, WriteWhole(w) \/ WriteSome(w) \/ WriteRest(w)
        PROVE  DecodableInv'
    <3>1. event[w] \in Events /\ step[w] # "idle"
      BY <2>1 DEF TypeOK, WriteWhole, WriteSome, WriteRest
    <3>2. PICK p \in {"whole", "tail", "head"}, next \in Steps : Write(w, p, next)
      BY <1>0, <2>1, <3>1 DEF WriteWhole, WriteSome, WriteRest, Steps
    <3>3. /\ Len(file) \in Nat /\ Len(file') = Len(file) + 1
          /\ file'[Len(file')] = [part |-> p, event |-> event[w]]
          /\ \A i \in 1..Len(file) : file'[i] = file[i]
      BY <3>1, <3>2, WriteFacts DEF TornParts
    <3>4. file'[Len(file')].part # "stub"
      BY <3>3
    <3> QED
      BY <3>3, <3>4 DEF DecodableInv
  <2>2. CASE PowerLoss
    <3>1. CASE "file" \notin visible'
      BY <2>2, <3>1 DEF PowerLoss, DecodableInv
    <3>2. CASE "file" \in visible'
      <4>1. PICK n \in synced..Len(file) : file' \in Survivors(n)
        BY <2>2, <3>2 DEF PowerLoss
      <4>2. Len(file') = n /\ n \in Nat /\ n <= Len(file) /\ Len(file) \in Nat
        BY <4>1, SurvivorFacts DEF TypeOK
      <4> SUFFICES ASSUME NEW i \in 1..n PROVE file'[i].part # "stub"
        BY <4>2 DEF DecodableInv
      <4>3. i \in 1..Len(file) /\ file[i] \in Chunks
        BY <4>2 DEF TypeOK
      <4>4. file[i].event \in Events /\ file[i].part # "stub"
        BY <4>3 DEF DecodableInv, Chunks
      <4>5. file'[i] # file[i] => file'[i].part \in PrefixesOf(file[i].event)
        BY <4>1, SurvivorLast
      <4> QED
        BY <1>0, <4>4, <4>5
    <3> QED
      BY <3>1, <3>2
  <2>3. CASE UNCHANGED file
    BY <2>3 DEF DecodableInv
  <2> QED
    BY <2>1, <2>2, <2>3 DEF Next, AppendStep, vars, disk, BeginAppend, FindDirectory,
       MakeDirectory, OpenFile, SyncFile, SyncDirectory, Abandon
<1> QED
  BY <1>1, <1>2, TypeCorrect, PTL DEF Spec

(* What load does with the file then. *)
LEMMA TidyFileLoads ==
    ASSUME LineBreaking = {}, FinalizationAfterIntent, TidyInv, DecodableInv
    PROVE  AlwaysLoads
<1>1. ~ CutInsideCharacter(file)
  BY DEF CutInsideCharacter, DecodableInv
<1>2. ~ CorruptBeforeFinalLine(file)
  BY DEF CorruptBeforeFinalLine, TidyInv
<1>3. ~ IllFormedHistory(file)
  <2> SUFFICES ASSUME NEW i \in 1..Len(file), IsRecord(file, i),
                      NEW j \in 1..(i - 1), RecordAt(file, j, file[i].event)
               PROVE  FALSE
    BY DEF IllFormedHistory, FinalizationAfterIntent
  <2>1. j \in 1..Len(file) /\ j < i
    OBVIOUS
  <2> QED
    BY <2>1 DEF TidyInv
<1> QED
  BY <1>1, <1>2, <1>3 DEF AlwaysLoads, Loads

(* With one writer, and no character outside ASCII in a record, load never *)
(* raises on the journal's own file: on any path, after any sequence of    *)
(* failed calls, crashes and power losses, nothing but the final record is *)
(* incomplete.                                                             *)
THEOREM FileAlwaysLoads ==
    ASSUME SoleWriter, Wide = {}
    PROVE  Spec => []AlwaysLoads
<1>1. LineBreaking = {}
  BY JournalFileAssumption
<1>2. FinalizationAfterIntent /\ TidyInv /\ DecodableInv => AlwaysLoads
  BY <1>1, TidyFileLoads
<1> QED
  BY <1>1, <1>2, FinalizationFollowsIntent, TidyInvariant, DecodableInvariant, PTL

(* On an established path, such a file shows every attempt whose intent    *)
(* append returned and whose finalization was never completely written as  *)
(* interrupted, in every state from then on.                               *)
THEOREM InterruptedAttemptsAreFound ==
    ASSUME Setting, Wide = {}
    PROVE  Spec => []InterruptedIsDiscovered
<1>1. TypeOK /\ AlwaysLoads /\ AcknowledgedSurvives => InterruptedIsDiscovered
  <2> SUFFICES ASSUME TypeOK, AlwaysLoads, AcknowledgedSurvives,
                      NEW a \in Attempts, Intent(a) \in acknowledged,
                      ~ \E i \in 1..Len(file) :
                            file[i].event = Finalization(a) /\ EndsLine(file, i)
               PROVE  Loads(file) /\ a \in InterruptedAttempts(file)
    BY DEF InterruptedIsDiscovered
  <2>1. PICK i \in 1..synced : RecordAt(file, i, Intent(a))
    BY DEF AcknowledgedSurvives
  <2>2. i \in 1..Len(file)
    BY DEF TypeOK
  <2>3. ~ Recorded(file, Finalization(a))
    BY DEF Recorded, RecordAt, IsRecord, Completes, EndsLine, TornParts
  <2> QED
    BY <2>1, <2>2, <2>3 DEF AlwaysLoads, InterruptedAttempts, Recorded
<1>2. SoleWriter
  BY DEF Setting
<1> QED
  BY <1>1, <1>2, TypeCorrect, FileAlwaysLoads, AcknowledgedIsDurable, PTL

-----------------------------------------------------------------------------
(* Two appends of one event, with any number of writers.                   *)

RecordsOf(e) == {i \in 1..Len(file) : RecordAt(file, i, e)}

(* The calls that may still add a record of an event. *)
Adding(e) == {w \in Writers : event[w] = e /\ step[w] \in Unwritten \union {"rest"}}

(* A call turns one writer that is adding an event into one record of it,  *)
(* and a call only begins while there is no record.                        *)
OncePerWriter(e) == Cardinality(RecordsOf(e)) + Cardinality(Adding(e)) <= Cardinality(Writers)

AddingInv == \A e \in Events : OncePerWriter(e)

LEMMA CountsAreNumbers ==
    ASSUME TypeOK, NEW e
    PROVE  /\ IsFiniteSet(RecordsOf(e)) /\ Cardinality(RecordsOf(e)) \in Nat
           /\ IsFiniteSet(Adding(e)) /\ Cardinality(Adding(e)) \in Nat
           /\ IsFiniteSet(Writers) /\ Cardinality(Writers) \in Nat
           /\ Cardinality(Adding(e)) <= Cardinality(Writers)
<1>1. Len(file) \in Nat /\ IsFiniteSet(1..Len(file))
  BY FS_Interval DEF TypeOK
<1>2. RecordsOf(e) \in SUBSET (1..Len(file)) /\ Adding(e) \in SUBSET Writers
  BY DEF RecordsOf, Adding
<1> QED
  BY <1>1, <1>2, FS_Subset, FS_CardinalityType, MutationJournalAssumption

(* A step that adds neither a record of the event nor a call for it. *)
LEMMA FewerKeepOnce ==
    ASSUME TypeOK, NEW e, OncePerWriter(e),
           RecordsOf(e)' \subseteq RecordsOf(e), Adding(e)' \subseteq Adding(e)
    PROVE  OncePerWriter(e)'
<1>1. /\ IsFiniteSet(RecordsOf(e)')
      /\ Cardinality(RecordsOf(e)') <= Cardinality(RecordsOf(e))
      /\ IsFiniteSet(Adding(e)')
      /\ Cardinality(Adding(e)') <= Cardinality(Adding(e))
  BY CountsAreNumbers, FS_Subset
<1>2. Cardinality(RecordsOf(e)') \in Nat /\ Cardinality(Adding(e)') \in Nat
  BY <1>1, FS_CardinalityType
<1>3. /\ Cardinality(RecordsOf(e)) \in Nat /\ Cardinality(Adding(e)) \in Nat
      /\ Cardinality(Writers) \in Nat
  BY CountsAreNumbers
<1> QED
  BY <1>1, <1>2, <1>3 DEF OncePerWriter

LEMMA BeginKeepsOnce ==
    ASSUME TypeOK, NEW e \in Events, OncePerWriter(e), NEW w \in Writers, NEW started \in Events,
           BeginAppend(w, started)
    PROVE  OncePerWriter(e)'
<1>1. RecordsOf(e)' = RecordsOf(e)
  BY DEF BeginAppend, disk, RecordsOf
<1>2. CASE e # started
  <2>1. Adding(e)' \subseteq Adding(e)
    BY <1>2 DEF BeginAppend, Adding, TypeOK
  <2> QED
    BY <1>1, <2>1, FewerKeepOnce
<1>3. CASE e = started
  <2>1. RecordsOf(e) = {}
    BY <1>3 DEF BeginAppend, MayAppend, Recorded, RecordsOf
  <2>2. Cardinality(RecordsOf(e)') = 0
    BY <1>1, <2>1, FS_EmptySet
  <2>3. Adding(e)' \in SUBSET Writers
    BY DEF Adding
  <2>4. /\ Cardinality(Adding(e)') <= Cardinality(Writers) /\ Cardinality(Writers) \in Nat
        /\ Cardinality(Adding(e)') \in Nat
    BY <2>3, MutationJournalAssumption, FS_Subset, FS_CardinalityType
  <2> QED
    BY <2>2, <2>4 DEF OncePerWriter
<1> QED
  BY <1>2, <1>3

(* A write adds at most one record, of the event of its call. *)
LEMMA WriteKeepsOnce ==
    ASSUME TypeOK, NEW e \in Events, OncePerWriter(e), NEW w \in Writers,
           WriteWhole(w) \/ WriteSome(w) \/ WriteRest(w)
    PROVE  OncePerWriter(e)'
<1>1. PICK p \in {"whole", "tail"} \union TornParts, next \in {"fsync", "rest"} :
          /\ Write(w, p, next) /\ step[w] \in {"write", "rest"}
          /\ next = IF p \in TornParts THEN "rest" ELSE "fsync"
  BY DEF WriteWhole, WriteSome, WriteRest, PrefixesOf, TornParts
<1> DEFINE n == Len(file) + 1
<1>2. /\ Len(file) \in Nat /\ Len(file') = n
      /\ file'[n] = [part |-> p, event |-> event[w]]
      /\ \A i \in 1..Len(file) : RecordAt(file', i, e) <=> RecordAt(file, i, e)
  BY <1>1, WriteFacts
<1>3. RecordsOf(e)' \subseteq RecordsOf(e) \union {n}
  BY <1>2 DEF RecordsOf
<1>4. step' = [step EXCEPT ![w] = next] /\ event' = event
  BY <1>1 DEF Write
<1>5. Adding(e)' \subseteq Adding(e)
  BY <1>1, <1>4 DEF Adding, Unwritten, TypeOK
<1>6. CASE p \in TornParts \/ e # event[w]
  <2>1. ~ RecordAt(file', n, e)
    BY <1>2, <1>6 DEF RecordAt, IsRecord, Completes, TornParts
  <2>2. RecordsOf(e)' \subseteq RecordsOf(e)
    BY <1>3, <2>1 DEF RecordsOf
  <2> QED
    BY <1>5, <2>2, FewerKeepOnce
<1>7. CASE p \notin TornParts /\ e = event[w]
  <2>1. w \in Adding(e) /\ Adding(e)' \in SUBSET (Adding(e) \ {w})
    BY <1>1, <1>4, <1>7 DEF Adding, Unwritten, TypeOK
  <2>2. /\ IsFiniteSet(RecordsOf(e) \union {n})
        /\ Cardinality(RecordsOf(e) \union {n}) <= Cardinality(RecordsOf(e)) + 1
    <3>1. IsFiniteSet(RecordsOf(e)) /\ Cardinality(RecordsOf(e)) \in Nat
      BY CountsAreNumbers
    <3>2. /\ IsFiniteSet(RecordsOf(e) \union {n})
          /\ Cardinality(RecordsOf(e) \union {n}) \in
                {Cardinality(RecordsOf(e)), Cardinality(RecordsOf(e)) + 1}
      <4> DEFINE R == RecordsOf(e)
      <4> HIDE DEF R, n
      <4>1. IsFiniteSet(R)
        BY <3>1 DEF R
      <4>2. /\ IsFiniteSet(R \union {n})
            /\ Cardinality(R \union {n}) = IF n \in R THEN Cardinality(R) ELSE Cardinality(R) + 1
        BY <4>1, FS_AddElement
      <4> QED
        BY <4>2 DEF R
    <3> QED
      BY <3>1, <3>2
  <2>3. /\ IsFiniteSet(RecordsOf(e)')
        /\ Cardinality(RecordsOf(e)') <= Cardinality(RecordsOf(e) \union {n})
    BY <1>3, <2>2, FS_Subset
  <2>4. IsFiniteSet(Adding(e) \ {w}) /\ Cardinality(Adding(e) \ {w}) = Cardinality(Adding(e)) - 1
    BY <2>1, CountsAreNumbers, FS_RemoveElement
  <2>5. /\ IsFiniteSet(Adding(e)')
        /\ Cardinality(Adding(e)') <= Cardinality(Adding(e) \ {w})
    BY <2>1, <2>4, FS_Subset
  <2>6. /\ Cardinality(RecordsOf(e)') \in Nat /\ Cardinality(Adding(e)') \in Nat
        /\ Cardinality(RecordsOf(e) \union {n}) \in Nat
    BY <2>2, <2>3, <2>5, FS_CardinalityType
  <2>7. /\ Cardinality(RecordsOf(e)) \in Nat /\ Cardinality(Adding(e)) \in Nat
        /\ Cardinality(Writers) \in Nat
    BY CountsAreNumbers
  <2> QED
    BY <2>2, <2>3, <2>4, <2>5, <2>6, <2>7 DEF OncePerWriter
<1> QED
  BY <1>6, <1>7

(* What a power loss leaves are records that were there. *)
LEMMA PowerLossKeepsOnce ==
    ASSUME TypeOK, NEW e \in Events, OncePerWriter(e), PowerLoss
    PROVE  OncePerWriter(e)'
<1>1. Adding(e)' \subseteq Adding(e)
  BY DEF PowerLoss, Adding, Unwritten
<1>2. CASE "file" \notin visible'
  <2>1. RecordsOf(e)' \subseteq RecordsOf(e)
    BY <1>2 DEF PowerLoss, RecordsOf
  <2> QED
    BY <1>1, <2>1, FewerKeepOnce
<1>3. CASE "file" \in visible'
  <2>1. PICK n \in synced..Len(file) : file' \in Survivors(n)
    BY <1>3 DEF PowerLoss
  <2>2. /\ file \in Seq(Chunks) /\ file' \in Seq(Chunks)
        /\ Len(file) \in Nat /\ n \in Nat /\ n <= Len(file) /\ Len(file') = n
        /\ \A k \in 1..n : k < n => file'[k] = file[k]
    BY <2>1, SurvivorFacts DEF TypeOK
  <2>3. ASSUME NEW i \in 1..n, RecordAt(file', i, e) PROVE i \in 1..Len(file) /\ RecordAt(file, i, e)
    <3>1. i \in 1..Len(file) /\ i <= Len(file') /\ i \in 1..Len(file')
      BY <2>2, <2>3
    <3>2. file'[i] = file[i]
      <4>1. file'[i].part \notin TornParts
        BY <2>3 DEF RecordAt, IsRecord, Completes, TornParts
      <4> QED
        BY <2>1, <2>3, <4>1, SurvivorLast
    <3>3. \A k \in 1..i : file'[k] = file[k]
      BY <2>2, <2>3, <3>2
    <3> QED
      BY <2>2, <2>3, <3>1, <3>3, RecordAtOfPrefix
  <2>4. RecordsOf(e)' \subseteq RecordsOf(e)
    BY <2>2, <2>3 DEF RecordsOf
  <2> QED
    BY <1>1, <2>4, FewerKeepOnce
<1> QED
  BY <1>2, <1>3

LEMMA OthersKeepOnce ==
    ASSUME TypeOK, NEW e \in Events, OncePerWriter(e), NEW w \in Writers,
           \/ FindDirectory(w) \/ MakeDirectory(w) \/ OpenFile(w)
           \/ SyncFile(w) \/ SyncDirectory(w) \/ Abandon(w)
    PROVE  OncePerWriter(e)'
<1>1. UNCHANGED file
  BY DEF FindDirectory, MakeDirectory, OpenFile, SyncFile, SyncDirectory, Abandon, disk
<1>2. RecordsOf(e)' = RecordsOf(e)
  BY <1>1 DEF RecordsOf
<1>3. Adding(e)' \subseteq Adding(e)
  <2>1. CASE FindDirectory(w) \/ MakeDirectory(w) \/ OpenFile(w)
    BY <2>1 DEF FindDirectory, MakeDirectory, OpenFile, Adding, Unwritten, TypeOK
  <2>2. CASE SyncFile(w) \/ SyncDirectory(w) \/ Abandon(w)
    <3>1. step'[w] \notin Unwritten \union {"rest"}
      BY <2>2 DEF SyncFile, SyncDirectory, Abandon, Acknowledge, EndCall, Unwritten, TypeOK
    <3>2. \A v \in Writers : v # w => step'[v] = step[v] /\ event'[v] = event[v]
      BY <2>2 DEF SyncFile, SyncDirectory, Abandon, Acknowledge, EndCall, TypeOK
    <3> QED
      BY <3>1, <3>2 DEF Adding
  <2> QED
    BY <2>1, <2>2
<1> QED
  BY <1>2, <1>3, FewerKeepOnce

(* With any number of writers that interleave, fail and lose power, on any *)
(* path and with any labels, the file never holds more records of an event *)
(* than there are writers: a stale load is used once.                      *)
THEOREM EventsAreRecordedOncePerWriter == Spec => []RecordedOncePerWriter
<1>1. Init => AddingInv
  <2> SUFFICES ASSUME Init, NEW e \in Events PROVE OncePerWriter(e)
    BY DEF AddingInv
  <2>1. RecordsOf(e) = {} /\ Adding(e) = {}
    BY DEF Init, RecordsOf, Adding, Unwritten
  <2> QED
    BY <2>1, FS_EmptySet, FS_CardinalityType, MutationJournalAssumption DEF OncePerWriter
<1>2. TypeOK /\ AddingInv /\ [Next]_vars => AddingInv'
  <2> SUFFICES ASSUME TypeOK, AddingInv, [Next]_vars, NEW e \in Events PROVE OncePerWriter(e)'
    BY DEF AddingInv
  <2>1. OncePerWriter(e)
    BY DEF AddingInv
  <2>2. CASE UNCHANGED vars
    <3>1. RecordsOf(e)' = RecordsOf(e) /\ Adding(e)' = Adding(e)
      BY <2>2 DEF vars, RecordsOf, Adding
    <3> QED
      BY <2>1, <3>1 DEF OncePerWriter
  <2> QED
    BY <2>1, <2>2, BeginKeepsOnce, WriteKeepsOnce, PowerLossKeepsOnce, OthersKeepOnce
    DEF Next, AppendStep
<1>3. TypeOK /\ AddingInv => RecordedOncePerWriter
  <2> SUFFICES ASSUME TypeOK, AddingInv, NEW e \in Events
               PROVE  Cardinality(RecordsOf(e)) <= Cardinality(Writers)
    BY DEF RecordedOncePerWriter, RecordsOf
  <2> QED
    BY CountsAreNumbers DEF AddingInv, OncePerWriter
<1> QED
  BY <1>1, <1>2, <1>3, TypeCorrect, PTL DEF Spec

=============================================================================
