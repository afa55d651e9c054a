------------------------------- MODULE EdaProofs -------------------------------
(***************************************************************************)
(* Theorems about the dataset scan for any files, any contents they take   *)
(* in turn, any number of workers, runs and faults: what a later run       *)
(* reuses from the cache, that a finished run has added every file once,   *)
(* whatever was interrupted, changed or unreadable before, and that the    *)
(* aggregate accounts for each.                                            *)
(***************************************************************************)
EXTENDS DatasetRuns, FiniteSums

--------------------------------------------------------------------------------
(* The inductive invariant. *)

\* r is a reading of f of the table, made when at most n versions of the file
\* had been seen: its size and mtime were taken before its content was read.
Reads(f, r, n) ==
  /\ r \in Readings /\ r.file = f
  /\ r.version \in 0 .. n
  /\ r.mtime = 0 \/ r.mtime \in 1 .. r.version

\* A job that has its size and mtime took them from one version.
JobReads(f, j, n) ==
  /\ j.at = "open" => /\ j.mtime \in 1 .. n /\ Versions[f][j.mtime] # Gone
                      /\ j.bytes = Bytes(Versions[f][j.mtime])
  /\ j.at \in {"save", "done"} => Reads(f, j.payload, n)

FilesInv ==
  /\ DOMAIN disk = Files /\ DOMAIN cache = Files /\ DOMAIN job = Files
  /\ \A f \in Files : /\ disk[f] \in DOMAIN Versions[f]
                      /\ cache[f] # NoValue => Reads(f, cache[f], disk[f])
                      /\ JobReads(f, job[f], disk[f])

\* The files of a sequence of payloads, none twice.
EachOnce(payloads, files) ==
  /\ \A i \in 1 .. Len(payloads) : payloads[i].file \in files
  /\ \A f \in files : \E i \in 1 .. Len(payloads) : payloads[i].file = f
  /\ \A i, j \in 1 .. Len(payloads) : payloads[i].file = payloads[j].file => i = j

AddedFiles == {f \in Files : At(f, "added")}

RunInv ==
  /\ "phase" \in DOMAIN run
  /\ added \in Seq(Readings) /\ EachOnce(added, AddedFiles)
  /\ Finished => written.now = added /\ Tasks = AddedFiles

EdaInv == FilesInv /\ RunInv

\* A reading stays one of the past as the file goes on.
LEMMA ReadsLater ==
  ASSUME NEW f, NEW r, NEW n \in Nat, NEW m \in Nat, n <= m, Reads(f, r, n)
  PROVE  Reads(f, r, m)
BY DEF Reads

\* A task's readings stay ones of the past as the file goes on.
LEMMA JobLater ==
  ASSUME NEW f, NEW j, NEW n \in Nat, NEW m \in Nat, n <= m, JobReads(f, j, n)
  PROVE  JobReads(f, j, m)
<1>1. j.at \in {"save", "done"} => Reads(f, j.payload, m)
  BY ReadsLater DEF JobReads
<1>2. j.at = "open" => j.mtime \in 1 .. m
  BY DEF JobReads
<1>. QED
  BY <1>1, <1>2, Zenon DEF JobReads

\* Versions are counted from one.
LEMMA DiskInRange ==
  ASSUME FilesInv, NEW f \in Files
  PROVE  disk[f] \in Nat /\ disk[f] >= 1 /\ disk[f] \in 1 .. Len(Versions[f])
BY RunConstants DEF FilesInv

--------------------------------------------------------------------------------
(* The readings a task can make are those of the table. *)

\* The parts of a reading.
LEMMA RefFields ==
  ASSUME NEW f, NEW b, NEW m, NEW v, NEW o, NEW k, NEW r, r = Ref(f, b, m, v, o, k)
  PROVE  r.file = f /\ r.mtime = m /\ r.version = v
BY DEF Ref

\* A file's readings are readings.
LEMMA OneOfReadings ==
  ASSUME NEW f \in Files, NEW r \in ReadingsOf(f)
  PROVE  r \in Readings
BY Zenon DEF Readings

\* A file that vanished is a reading of the table.
LEMMA GoneReading ==
  ASSUME NEW f \in Files, NEW k \in BOOLEAN
  PROVE  Ref(f, 0, 0, 0, "gone", k) \in Readings
<1>. DEFINE r == Ref(f, 0, 0, 0, "gone", k)
<1>1. r \in {Ref(f, 0, 0, 0, "gone", x) : x \in BOOLEAN}
  OBVIOUS
<1>. HIDE DEF r
<1>2. r \in ReadingsOf(f)
  BY <1>1 DEF ReadingsOf
<1>. QED  BY <1>2, OneOfReadings DEF r

\* What a task read, parsed or not, is a reading of the table.
LEMMA ReadReading ==
  ASSUME NEW f \in Files, NEW m \in Present(f), NEW v \in Present(f), NEW k \in BOOLEAN,
         NEW o \in {"read", "unparsed"}
  PROVE  Ref(f, Bytes(Versions[f][m]), m, v, o, k) \in Readings
<1>. DEFINE r == Ref(f, Bytes(Versions[f][m]), m, v, o, k)
<1>1. r \in {Ref(f, Bytes(Versions[f][a]), a, b, c, x) :
               a \in Present(f), b \in Present(f), x \in BOOLEAN, c \in {"read", "unparsed"}}
  OBVIOUS
<1>. HIDE DEF r
<1>2. r \in ReadingsOf(f)
  BY <1>1 DEF ReadingsOf
<1>. QED  BY <1>2, OneOfReadings DEF r

\* A failed read is a reading of the table.
LEMMA UnreadableReading ==
  ASSUME NEW f \in Files, NEW m \in Present(f), NEW v \in DOMAIN Versions[f], NEW k \in BOOLEAN
  PROVE  Ref(f, Bytes(Versions[f][m]), m, v, "unreadable", k) \in Readings
<1>. DEFINE r == Ref(f, Bytes(Versions[f][m]), m, v, "unreadable", k)
<1>1. r \in {Ref(f, Bytes(Versions[f][a]), a, b, "unreadable", x) :
               a \in Present(f), b \in DOMAIN Versions[f], x \in BOOLEAN}
  OBVIOUS
<1>. HIDE DEF r
<1>2. r \in ReadingsOf(f)
  BY <1>1 DEF ReadingsOf
<1>. QED  BY <1>2, OneOfReadings DEF r

\* A file is sampled or not.
LEMMA SampledIsBoolean ==
  ASSUME NEW f
  PROVE  Sampled(f) \in BOOLEAN
BY DEF Sampled

--------------------------------------------------------------------------------
(* The steps. *)

\* The invariant holds initially.
LEMMA InitEda ==
  ASSUME Init
  PROVE  EdaInv
<1>1. /\ disk \in Starts /\ cache = [f \in Files |-> NoValue] /\ job = [f \in Files |-> NoJob]
      /\ run.phase = "idle" /\ added = <<>>
  BY DEF Init
<1>2. NoJob.at = "none"
  BY DEF NoJob
<1>3. \A f \in Files : cache[f] = NoValue /\ job[f].at = "none"
  BY <1>1, <1>2
<1>4. DOMAIN disk = Files /\ \A f \in Files : disk[f] \in DOMAIN Versions[f]
  BY <1>1, RunConstants
<1>5. \A f \in Files : JobReads(f, job[f], disk[f])
  BY <1>3 DEF JobReads
<1>6. FilesInv
  <2>1. DOMAIN cache = Files /\ DOMAIN job = Files
    BY <1>1
  <2>. QED  BY <1>3, <1>4, <1>5, <2>1, Zenon DEF FilesInv
<1>7. AddedFiles = {} /\ "phase" \in DOMAIN run
  BY <1>3 DEF AddedFiles, At, Init
<1>8. RunInv
  BY <1>1, <1>7 DEF RunInv, EachOnce, Finished
<1>. QED
  BY <1>6, <1>8 DEF EdaInv

\* From one cache to the next, of which at most the entry of f is another.
EntryMoves(before, after, f, n) ==
  /\ DOMAIN after = Files
  /\ \A g \in Files : after[g] = before[g] \/ (g = f /\ Reads(f, after[f], n))

\* A task of the run goes on to a state in which it is not added yet; it may
\* have written its cache entry.
LEMMA TaskMoves ==
  ASSUME EdaInv, NEW f \in Files, NEW j, JobReads(f, j, disk[f]), j.at # "added",
         job[f].at \notin {"none", "added"}, job' = [job EXCEPT ![f] = j],
         UNCHANGED <<disk, run, added, written>>,
         EntryMoves(cache, cache', f, disk[f])
  PROVE  EdaInv'
<1>1. DOMAIN disk = Files /\ DOMAIN cache = Files /\ DOMAIN job = Files
  BY DEF EdaInv, FilesInv
<1>2. /\ job'[f] = j /\ DOMAIN cache' = Files /\ DOMAIN job' = Files
      /\ \A g \in Files : g # f => job'[g] = job[g] /\ cache'[g] = cache[g]
      /\ cache'[f] = cache[f] \/ Reads(f, cache'[f], disk[f])
  BY <1>1 DEF EntryMoves
<1>3. \A g \in Files : /\ disk'[g] \in DOMAIN Versions[g]
                       /\ cache'[g] # NoValue => Reads(g, cache'[g], disk'[g])
                       /\ JobReads(g, job'[g], disk'[g])
  <2>. TAKE g \in Files
  <2>1. CASE g = f
    BY <2>1, <1>2 DEF EdaInv, FilesInv
  <2>2. CASE g # f
    BY <2>2, <1>2 DEF EdaInv, FilesInv
  <2>. QED  BY <2>1, <2>2
<1>4. FilesInv'
  <2>1. disk' = disk
    OBVIOUS
  <2>. QED  BY <1>1, <1>2, <1>3, <2>1, Zenon DEF FilesInv
<1>5. AddedFiles' = AddedFiles
  <2>1. \A g \in Files : job'[g].at = "added" <=> job[g].at = "added"
    BY <1>2
  <2>. QED  BY <2>1 DEF AddedFiles, At
<1>6. ~Finished
  BY DEF EdaInv, RunInv, Finished, Tasks, AddedFiles, At
<1>7. RunInv'
  BY <1>5, <1>6 DEF EdaInv, RunInv, Finished
<1>. QED
  BY <1>4, <1>7 DEF EdaInv

\* The tasks are set up anew, or taken away.
LEMMA JobsReset ==
  ASSUME EdaInv, DOMAIN job' = Files, \A f \in Files : job'[f].at \in {"none", "queued"},
         added' = <<>>, UNCHANGED <<disk, cache>>, "phase" \in DOMAIN run', ~Finished'
  PROVE  EdaInv'
<1>1. \A f \in Files : JobReads(f, job'[f], disk[f])
  <2>1. ASSUME NEW f \in Files
        PROVE  JobReads(f, job'[f], disk[f])
    <3>1. job'[f].at # "open" /\ job'[f].at \notin {"save", "done"}
      OBVIOUS
    <3>. QED  BY <3>1, Zenon DEF JobReads
  <2>. QED  BY <2>1
<1>2. FilesInv'
  BY <1>1, Zenon DEF EdaInv, FilesInv
<1>3. AddedFiles' = {}
  BY DEF AddedFiles, At
<1>4. RunInv'
  BY <1>3 DEF RunInv, EachOnce
<1>. QED
  BY <1>2, <1>4 DEF EdaInv

\* A run's start keeps the invariant.
LEMMA StartKeeps ==
  ASSUME EdaInv, NEW o, Start(o)
  PROVE  EdaInv'
<1>1. /\ added' = <<>> /\ UNCHANGED <<disk, cache>> /\ run'.phase = "running"
      /\ \E L : job' = [f \in Files |-> IF f \in L THEN [at |-> "queued"] ELSE NoJob]
  BY DEF Start
<1>2. DOMAIN job' = Files /\ \A f \in Files : job'[f].at \in {"none", "queued"}
  BY <1>1 DEF NoJob
<1>3. "phase" \in DOMAIN run' /\ ~Finished'
  BY <1>1 DEF Finished, Start
<1>. QED
  BY <1>1, <1>2, <1>3, JobsReset

\* The end of a run, by its report or an interruption, keeps the invariant.
LEMMA RunIsOver ==
  ASSUME EdaInv, Render \/ Interrupt
  PROVE  EdaInv'
<1>1. /\ added' = <<>> /\ UNCHANGED <<disk, cache>>
      /\ run' = [run EXCEPT !.phase = "idle"] /\ job' = [f \in Files |-> NoJob]
  BY DEF Render, Interrupt
<1>2. DOMAIN job' = Files /\ \A f \in Files : job'[f].at \in {"none", "queued"}
  BY <1>1 DEF NoJob
<1>3. "phase" \in DOMAIN run' /\ ~Finished'
  BY <1>1 DEF Finished, EdaInv, RunInv
<1>. QED
  BY <1>1, <1>2, <1>3, JobsReset

\* The state of one file.
LEMMA FileKnown ==
  ASSUME EdaInv, NEW f \in Files
  PROVE  /\ disk[f] \in Nat /\ disk[f] >= 1 /\ disk[f] \in DOMAIN Versions[f]
         /\ cache[f] # NoValue => Reads(f, cache[f], disk[f])
         /\ JobReads(f, job[f], disk[f])
<1>1. disk[f] \in Nat /\ disk[f] >= 1
  BY DiskInRange DEF EdaInv
<1>. QED
  BY <1>1, Zenon DEF EdaInv, FilesInv

\* A cache that stays moves no entry.
LEMMA EntryStays ==
  ASSUME EdaInv, NEW f \in Files, cache' = cache
  PROVE  EntryMoves(cache, cache', f, disk[f])
<1>1. DOMAIN cache = Files
  BY Zenon DEF EdaInv, FilesInv
<1>. QED
  BY <1>1, Zenon DEF EntryMoves

\* A worker that takes a task, or a cached payload for it, keeps the invariant.
LEMMA TakeKeeps ==
  ASSUME EdaInv, NEW f \in Files, Take(f)
  PROVE  EdaInv'
<1>. DEFINE done == [at |-> "done", payload |-> cache[f]]
            scan == [at |-> "scan"]
            j == IF run.resume /\ Usable(f) THEN done ELSE scan
<1>1. /\ job' = [job EXCEPT ![f] = j] /\ At(f, "queued")
      /\ UNCHANGED <<disk, cache, run, added, written, faults>>
  BY Zenon DEF Take, Queued
<1>2. j.at \in {"done", "scan"}
  OBVIOUS
<1>3. JobReads(f, j, disk[f])
  <2>1. CASE run.resume /\ Usable(f)
    <3>1. j = done /\ cache[f] # NoValue
      BY <2>1 DEF Usable
    <3>2. done.at = "done" /\ done.payload = cache[f]
      OBVIOUS
    <3>3. Reads(f, cache[f], disk[f])
      BY <3>1, FileKnown
    <3>. HIDE DEF done, j
    <3>. QED  BY <3>1, <3>2, <3>3 DEF JobReads
  <2>2. CASE ~(run.resume /\ Usable(f))
    <3>1. j.at = "scan"
      BY <2>2
    <3>. HIDE DEF j
    <3>. QED  BY <3>1 DEF JobReads
  <2>. QED  BY <2>1, <2>2
<1>. HIDE DEF j
<1>4. job[f].at = "queued"
  BY <1>1 DEF At
<1>5. EntryMoves(cache, cache', f, disk[f])
  BY <1>1, EntryStays
<1>. QED
  BY <1>1, <1>2, <1>3, <1>4, <1>5, TaskMoves

\* A worker that takes size and mtime keeps the invariant.
LEMMA StatKeeps ==
  ASSUME EdaInv, NEW f \in Files, Stat(f)
  PROVE  EdaInv'
<1>. DEFINE open == [at |-> "open", bytes |-> Bytes(Content(f)), mtime |-> disk[f]]
            r == Ref(f, 0, 0, 0, "gone", Sampled(f))
            save == [at |-> "save", payload |-> r]
            j == IF Exists(f) THEN open ELSE save
<1>1. /\ job' = [job EXCEPT ![f] = j] /\ job[f].at = "scan"
      /\ UNCHANGED <<disk, cache, run, added, written, faults>>
  BY DEF Stat, At
<1>2. j.at \in {"open", "save"}
  OBVIOUS
<1>3. JobReads(f, j, disk[f])
  <2>0. disk[f] \in Nat /\ disk[f] >= 1
    BY FileKnown
  <2>1. CASE Exists(f)
    <3>1. /\ j.at = "open" /\ j.mtime = disk[f] /\ j.bytes = Bytes(Versions[f][disk[f]])
          /\ Versions[f][disk[f]] # Gone
      BY <2>1 DEF Exists, Content
    <3>. HIDE DEF j
    <3>. QED  BY <2>0, <3>1 DEF JobReads
  <2>2. CASE ~Exists(f)
    <3>1. j.at = "save" /\ j.payload = r
      BY <2>2
    <3>2. r.file = f /\ r.mtime = 0 /\ r.version = 0 /\ r \in Readings
      BY RefFields, GoneReading, SampledIsBoolean
    <3>. HIDE DEF j, r
    <3>3. Reads(f, r, disk[f])
      BY <2>0, <3>2 DEF Reads
    <3>. QED  BY <3>1, <3>3 DEF JobReads
  <2>. QED  BY <2>1, <2>2
<1>. HIDE DEF j
<1>5. EntryMoves(cache, cache', f, disk[f])
  BY <1>1, EntryStays
<1>. QED
  BY <1>1, <1>2, <1>3, <1>5, TaskMoves

\* Whatever comes of opening the file, the payload is of the size and mtime taken
\* before and of a version not older.
LEMMA ReadKeeps ==
  ASSUME EdaInv, NEW f \in Files, Read(f)
  PROVE  EdaInv'
<1>. DEFINE b == job[f].bytes
            m == job[f].mtime
            v == disk[f]
            k == Sampled(f)
            Save1(o, w) == [at |-> "save", payload |-> Ref(f, b, m, w, o, k)]
<1>1. /\ job[f].at = "open" /\ UNCHANGED <<disk, cache, run, added, written>>
      /\ \/ b = 0 /\ job' = [job EXCEPT ![f] = Save1("read", m)]
         \/ b # 0 /\ Exists(f) /\ job' = [job EXCEPT ![f] = Save1("read", v)]
         \/ b # 0 /\ Exists(f) /\ job' = [job EXCEPT ![f] = Save1("unparsed", v)]
         \/ b # 0 /\ job' = [job EXCEPT ![f] = Save1("unreadable", v)]
  BY DEF Read, At, ReadAs
<1>2. /\ v \in Nat /\ v >= 1 /\ v \in DOMAIN Versions[f]
      /\ m \in 1 .. v /\ Versions[f][m] # Gone /\ b = Bytes(Versions[f][m])
  BY <1>1, FileKnown DEF JobReads
<1>3. m \in DOMAIN Versions[f] /\ m \in Present(f)
  BY <1>2, RunConstants DEF Present
<1>4. Exists(f) => v \in Present(f)
  BY <1>2 DEF Exists, Content, Present
<1>5. k \in BOOLEAN
  BY SampledIsBoolean
<1>6. ASSUME NEW o, NEW w \in {m, v}, Ref(f, b, m, w, o, k) \in Readings,
             job' = [job EXCEPT ![f] = Save1(o, w)]
      PROVE  EdaInv'
  <2>. DEFINE r == Ref(f, b, m, w, o, k)
              j == Save1(o, w)
  <2>1. r.file = f /\ r.mtime = m /\ r.version = w /\ r \in Readings
    BY <1>6, RefFields
  <2>2. j.at = "save" /\ j.payload = r
    OBVIOUS
  <2>3. job' = [job EXCEPT ![f] = j]
    BY <1>6
  <2>. HIDE DEF r, j, m, v, b, k
  <2>4. Reads(f, r, v)
    BY <1>2, <2>1 DEF Reads
  <2>5. JobReads(f, j, disk[f])
    BY <2>2, <2>4 DEF JobReads, v
  <2>6. EntryMoves(cache, cache', f, disk[f])
    BY <1>1, EntryStays
  <2>. QED  BY <1>1, <2>2, <2>3, <2>5, <2>6, TaskMoves
<1>7. CASE b = 0 /\ job' = [job EXCEPT ![f] = Save1("read", m)]
  <2>1. Ref(f, b, m, m, "read", k) \in Readings
    BY <1>2, <1>3, <1>5, ReadReading
  <2>. QED  BY <1>6, <1>7, <2>1
<1>8. CASE Exists(f) /\ \E o \in {"read", "unparsed"} : job' = [job EXCEPT ![f] = Save1(o, v)]
  <2>1. PICK o \in {"read", "unparsed"} : job' = [job EXCEPT ![f] = Save1(o, v)]
    BY <1>8
  <2>2. Ref(f, b, m, v, o, k) \in Readings
    BY <1>2, <1>3, <1>4, <1>5, <1>8, ReadReading
  <2>. QED  BY <1>6, <2>1, <2>2
<1>9. CASE job' = [job EXCEPT ![f] = Save1("unreadable", v)]
  <2>1. Ref(f, b, m, v, "unreadable", k) \in Readings
    BY <1>2, <1>3, <1>5, UnreadableReading
  <2>. QED  BY <1>6, <1>9, <2>1
<1>. QED
  BY <1>1, <1>7, <1>8, <1>9

\* A worker that writes its cache entry keeps the invariant.
LEMMA SaveKeeps ==
  ASSUME EdaInv, NEW f \in Files, Save(f)
  PROVE  EdaInv'
<1>. DEFINE p == job[f].payload
            j == [at |-> "done", payload |-> p]
<1>1. /\ job' = [job EXCEPT ![f] = j] /\ job[f].at = "save"
      /\ cache' = cache \/ cache' = [cache EXCEPT ![f] = p]
      /\ UNCHANGED <<disk, run, added, written>>
  BY DEF Save, At
<1>2. j.at = "done" /\ j.payload = p
  OBVIOUS
<1>3. Reads(f, p, disk[f])
  BY <1>1, FileKnown DEF JobReads
<1>. HIDE DEF j, p
<1>4. JobReads(f, j, disk[f])
  BY <1>2, <1>3 DEF JobReads
<1>5. EntryMoves(cache, cache', f, disk[f])
  <2>1. CASE cache' = cache
    BY <2>1, EntryStays
  <2>2. CASE cache' = [cache EXCEPT ![f] = p]
    <3>1. DOMAIN cache = Files
      BY Zenon DEF EdaInv, FilesInv
    <3>2. DOMAIN cache' = Files /\ cache'[f] = p /\ \A g \in Files : g # f => cache'[g] = cache[g]
      BY <2>2, <3>1
    <3>. QED  BY <1>3, <3>2, Zenon DEF EntryMoves
  <2>. QED  BY <1>1, <2>1, <2>2
<1>. QED
  BY <1>1, <1>2, <1>4, <1>5, TaskMoves

\* One more file, not among the ones before, is added at the end.
LEMMA OneMoreAdded ==
  ASSUME NEW S, NEW s \in Seq(S), NEW F, NEW f, NEW p \in S, EachOnce(s, F), f \notin F, p.file = f
  PROVE  EachOnce(Append(s, p), F \cup {f})
<1>. DEFINE t == Append(s, p)
            n == Len(s)
<1>1. n \in Nat /\ Len(t) = n + 1 /\ t[n + 1] = p /\ \A i \in 1 .. n : t[i] = s[i]
  OBVIOUS
<1>2. /\ \A i \in 1 .. n : s[i].file \in F
      /\ \A g \in F : \E i \in 1 .. n : s[i].file = g
      /\ \A i, j \in 1 .. n : s[i].file = s[j].file => i = j
  BY DEF EachOnce
<1>. HIDE DEF t, n
<1>3. \A i \in 1 .. Len(t) : i \in 1 .. n \/ i = n + 1
  BY <1>1
<1>4. n + 1 \in 1 .. Len(t) /\ \A i \in 1 .. n : i \in 1 .. Len(t)
  BY <1>1
<1>5. \A i \in 1 .. Len(t) : t[i].file \in F \cup {f}
  BY <1>1, <1>2, <1>3, Zenon
<1>6. \A g \in F \cup {f} : \E i \in 1 .. Len(t) : t[i].file = g
  <2>1. ASSUME NEW g \in F
        PROVE  \E i \in 1 .. Len(t) : t[i].file = g
    <3>1. PICK i \in 1 .. n : s[i].file = g
      BY <1>2
    <3>2. t[i].file = g /\ i \in 1 .. Len(t)
      BY <1>1, <1>4, <3>1, Zenon
    <3>. QED  BY <3>2
  <2>2. t[n + 1].file = f
    BY <1>1
  <2>. QED  BY <1>4, <2>1, <2>2
<1>7. \A i, j \in 1 .. Len(t) : t[i].file = t[j].file => i = j
  BY <1>1, <1>2, <1>3, Zenon
<1>8. EachOnce(t, F \cup {f})
  BY <1>5, <1>6, <1>7, Zenon DEF EachOnce
<1>. QED
  BY <1>8 DEF t

\* Adding a result keeps the invariant.
LEMMA CollectKeeps ==
  ASSUME EdaInv, NEW f \in Files, Collect(f)
  PROVE  EdaInv'
<1>. DEFINE p == job[f].payload
            j == [at |-> "added"]
<1>1. /\ job' = [job EXCEPT ![f] = j] /\ job[f].at = "done" /\ added' = Append(added, p)
      /\ UNCHANGED <<disk, cache, run, written>>
  BY DEF Collect, At
<1>2. Reads(f, p, disk[f])
  BY <1>1, FileKnown DEF JobReads
<1>3. p \in Readings /\ p.file = f
  BY <1>2 DEF Reads
<1>4. j.at = "added"
  OBVIOUS
<1>5. DOMAIN job = Files
  BY Zenon DEF EdaInv, FilesInv
<1>. HIDE DEF p, j
<1>6. job'[f] = j /\ DOMAIN job' = Files /\ \A g \in Files : g # f => job'[g] = job[g]
  BY <1>1, <1>5
<1>7. AddedFiles' = AddedFiles \cup {f} /\ f \notin AddedFiles
  BY <1>1, <1>4, <1>6 DEF AddedFiles, At
<1>8. added \in Seq(Readings) /\ EachOnce(added, AddedFiles) /\ "phase" \in DOMAIN run
  BY DEF EdaInv, RunInv
<1>9. EachOnce(added', AddedFiles')
  BY <1>1, <1>3, <1>7, <1>8, OneMoreAdded
<1>10. added' \in Seq(Readings)
  BY <1>1, <1>3, <1>8
<1>11. ~Finished
  BY <1>1 DEF EdaInv, RunInv, Finished, Tasks, AddedFiles, At
<1>12. RunInv'
  BY <1>1, <1>8, <1>9, <1>10, <1>11 DEF RunInv, Finished
<1>13. JobReads(f, j, disk[f])
  BY <1>4 DEF JobReads
<1>14. \A g \in Files : JobReads(g, job'[g], disk[g])
  BY <1>6, <1>13, FileKnown
<1>15. FilesInv'
  BY <1>1, <1>6, <1>14, Zenon DEF EdaInv, FilesInv
<1>. QED
  BY <1>12, <1>15 DEF EdaInv

\* Writing the aggregate once every task is added keeps the invariant.
LEMMA FinishKeeps ==
  ASSUME EdaInv, Finish
  PROVE  EdaInv'
<1>1. /\ run' = [run EXCEPT !.phase = "finished"] /\ written'.now = added
      /\ \A f \in Tasks : At(f, "added")
      /\ UNCHANGED <<disk, cache, job, added>>
  BY DEF Finish
<1>2. FilesInv'
  BY <1>1 DEF EdaInv, FilesInv
<1>3. AddedFiles' = AddedFiles /\ Tasks' = Tasks
  BY <1>1 DEF AddedFiles, Tasks, At
<1>4. Tasks = AddedFiles
  BY <1>1 DEF AddedFiles, Tasks, At
<1>5. "phase" \in DOMAIN run'
  BY <1>1 DEF EdaInv, RunInv
<1>6. RunInv'
  BY <1>1, <1>3, <1>4, <1>5 DEF EdaInv, RunInv
<1>. QED
  BY <1>2, <1>6 DEF EdaInv

\* A file that changes only makes what was read of it older.
LEMMA ChangeKeeps ==
  ASSUME EdaInv, NEW f \in Files, Change(f)
  PROVE  EdaInv'
<1>1. /\ disk' = [disk EXCEPT ![f] = disk[f] + 1] /\ disk[f] < Len(Versions[f])
      /\ UNCHANGED <<cache, run, job, added, written>>
  BY DEF Change
<1>2. DOMAIN disk = Files /\ DOMAIN cache = Files /\ DOMAIN job = Files
  BY Zenon DEF EdaInv, FilesInv
<1>3. /\ DOMAIN disk' = Files /\ disk'[f] = disk[f] + 1
      /\ \A g \in Files : g # f => disk'[g] = disk[g]
  BY <1>1, <1>2
<1>4. ASSUME NEW g \in Files
      PROVE  /\ disk'[g] \in DOMAIN Versions[g]
             /\ cache[g] # NoValue => Reads(g, cache[g], disk'[g])
             /\ JobReads(g, job[g], disk'[g])
  <2>1. disk[g] \in Nat /\ disk'[g] \in Nat /\ disk[g] <= disk'[g]
    BY <1>3, FileKnown
  <2>2. disk'[g] \in DOMAIN Versions[g]
    <3>1. disk[g] \in DOMAIN Versions[g] /\ disk[g] >= 1
      BY FileKnown
    <3>. QED  BY <1>1, <1>3, <2>1, <3>1, RunConstants
  <2>3. cache[g] # NoValue => Reads(g, cache[g], disk'[g])
    BY <2>1, FileKnown, ReadsLater
  <2>4. JobReads(g, job[g], disk'[g])
    BY <2>1, FileKnown, JobLater
  <2>. QED  BY <2>2, <2>3, <2>4
<1>5. FilesInv'
  BY <1>1, <1>2, <1>3, <1>4, Zenon DEF FilesInv
<1>6. RunInv'
  BY <1>1 DEF EdaInv, RunInv, Finished, AddedFiles, Tasks, At
<1>. QED
  BY <1>5, <1>6 DEF EdaInv

\* Every step keeps the invariant.
LEMMA NextEda ==
  ASSUME EdaInv, [Next]_vars
  PROVE  EdaInv'
<1>1. CASE \E o \in Options : Start(o)
  BY <1>1, StartKeeps
<1>2. CASE \E f \in Files : Step(f)
  BY <1>2, TakeKeeps, StatKeeps, ReadKeeps, SaveKeeps, CollectKeeps DEF Step
<1>3. CASE \E f \in Files : Change(f)
  BY <1>3, ChangeKeeps
<1>4. CASE Finish
  BY <1>4, FinishKeeps
<1>5. CASE Render \/ Interrupt
  BY <1>5, RunIsOver
<1>6. CASE UNCHANGED vars
  BY <1>6 DEF vars, EdaInv, FilesInv, RunInv, Finished, AddedFiles, Tasks, At
<1>. QED
  BY <1>1, <1>2, <1>3, <1>4, <1>5, <1>6 DEF Next

--------------------------------------------------------------------------------
(* The theorems, of the scan by itself and of the program that also replays.  *)

\* The entries, the tasks and the added payloads agree with the versions of the
\* files, in every state of the scan.
THEOREM EdaInvariant == Spec => []EdaInv
<1>. QED
  BY InitEda, NextEda, PTL DEF Spec

\* Cache entries, tasks and added payloads agree with the versions of the files in
\* every state of the scan and the replay beside it (EdaScan.scan_one, run_eda).
THEOREM DatasetInvariant == DatasetSpec => []EdaInv
<1>1. DatasetInit => EdaInv
  BY InitEda DEF DatasetInit
<1>2. EdaInv /\ [DatasetNext]_<<vars, replayVars>> => EdaInv'
  <2>1. [DatasetNext]_<<vars, replayVars>> => [Next]_vars
    BY DEF DatasetNext
  <2>. QED  BY <2>1, NextEda
<1>. QED
  BY <1>1, <1>2, PTL DEF DatasetSpec

\* By the invariant, an entry whose size and mtime are the file's was computed from
\* what it holds.
LEMMA FreshEntries ==
  ASSUME EdaInv
  PROVE  CacheIsFresh
<1>1. ASSUME NEW f \in Files, cache[f] # NoValue, Matches(cache[f], f)
      PROVE  cache[f].version = disk[f]
  <2>1. disk[f] \in Nat /\ disk[f] >= 1 /\ Reads(f, cache[f], disk[f])
    BY <1>1, FileKnown
  <2>2. cache[f].mtime = disk[f]
    BY <1>1 DEF Matches
  <2>. QED  BY <2>1, <2>2 DEF Reads
<1>. QED
  BY <1>1 DEF CacheIsFresh

\* CacheIsFresh (load_cached, write_cache): size and mtime are taken before the
\* file is opened, so an entry that matches the file was computed from what the
\* file holds now, whatever changed, failed or was interrupted in between.
THEOREM EdaCacheIsFresh == DatasetSpec => []CacheIsFresh
<1>1. EdaInv => CacheIsFresh
  BY FreshEntries
<1>. QED
  BY <1>1, DatasetInvariant, PTL

\* The payloads of a finished run.
FinishedRunIsWhole == Finished =>
  written.now \in Seq(Readings) /\ EachOnce(written.now, Tasks)

\* What is written by a run that finished holds exactly one payload of every
\* file of that run and of no other (imap_unordered hands over each once).
THEOREM EdaFilesAddedOnce == DatasetSpec => []FinishedRunIsWhole
<1>1. EdaInv => FinishedRunIsWhole
  BY DEF EdaInv, RunInv, FinishedRunIsWhole
<1>. QED
  BY <1>1, DatasetInvariant, PTL

--------------------------------------------------------------------------------
(* What is counted of a payload *)

PayloadFields == {"file", "bytes", "isData", "ok", "error"}
IsPayload(p, f) ==
  /\ PayloadFields \subseteq DOMAIN p
  /\ p.file = f /\ p.bytes \in Int /\ p.isData \in BOOLEAN /\ p.ok \in BOOLEAN

\* The payload of a file without data.
LEMMA EmptyFine ==
  ASSUME NEW f, NEW b \in Int, NEW m
  PROVE  IsPayload(EmptyPayload(f, b, m), f)
BY DEF IsPayload, PayloadFields, EmptyPayload

\* The payload of a failed file.
LEMMA FailedFine ==
  ASSUME NEW p, NEW f, IsPayload(p, f), NEW why
  PROVE  IsPayload(Failed(p, why), f)
BY DEF IsPayload, PayloadFields, Failed

\* What is read of a data file changes other parts of its payload.
LEMMA ReadFine ==
  ASSUME NEW f, NEW p, IsPayload(p, f), NEW h, NEW a, NEW b, NEW c
  PROVE  /\ IsPayload([p EXCEPT !.isData = TRUE, !.hasHeader = h], f)
         /\ IsPayload([[p EXCEPT !.isData = TRUE, !.hasHeader = h]
                          EXCEPT !.linesRaw = a, !.parsed = b, !.malformed = c], f)
         /\ IsPayload([p EXCEPT !.badTime = a, !.badKey = b], f)
BY DEF IsPayload, PayloadFields

\* So do its rows.
LEMMA PartialFine ==
  ASSUME NEW rows, NEW keep, NEW p, NEW f, IsPayload(p, f), NEW k
  PROVE  IsPayload(Partial(rows, keep, p, k), f)
BY ZenonT(60) DEF Partial, IsPayload, PayloadFields

\* And all of the file.
LEMMA ScanFine ==
  ASSUME NEW f, NEW b \in Int, NEW m, NEW content, NEW parses, NEW k
  PROVE  IsPayload(ScanContent(f, b, m, content, parses, k), f)
<1>1. ASSUME NEW rows, NEW p, IsPayload(p, f)
      PROVE  IsPayload(Accumulate(rows, p, k), f)
  BY <1>1, FailedFine, PartialFine, ReadFine DEF Accumulate
<1>. QED  BY <1>1, EmptyFine, FailedFine, ReadFine DEF ScanContent

\* The payloads are those of the files they are readings of.
LEMMA PayloadFine ==
  ASSUME NEW r \in Readings
  PROVE  IsPayload(Payload(r), r.file)
<1>1. PICK f \in Files : r \in ReadingsOf(f)
  BY Zenon DEF Readings
<1>2. ASSUME NEW m \in Present(f)
      PROVE  Bytes(Versions[f][m]) \in Int
  BY RunConstants DEF Present, Bytes
<1>3. r.bytes \in Int
  <2>1. CASE r \in {Ref(f, 0, 0, 0, "gone", k) : k \in BOOLEAN}
    BY <2>1 DEF Ref
  <2>2. CASE r \in {Ref(f, Bytes(Versions[f][m]), m, v, o, k) :
                      m \in Present(f), v \in Present(f), k \in BOOLEAN, o \in {"read", "unparsed"}}
    BY <1>2, <2>2 DEF Ref
  <2>3. CASE r \in {Ref(f, Bytes(Versions[f][m]), m, v, "unreadable", k) :
                      m \in Present(f), v \in DOMAIN Versions[f], k \in BOOLEAN}
    BY <1>2, <2>3 DEF Ref
  <2>. QED  BY <1>1, <2>1, <2>2, <2>3 DEF ReadingsOf
<1>4. Payload(r) = Compute(r)
  BY DEF Payload, PayloadOf
<1>5. /\ IsPayload(Failed(EmptyPayload(r.file, 0, 0), "stat failed"), r.file)
      /\ IsPayload(Failed(EmptyPayload(r.file, r.bytes, r.mtime), "read failed"), r.file)
  <2>1. 0 \in Int
    OBVIOUS
  <2>2. IsPayload(EmptyPayload(r.file, 0, 0), r.file)
    BY <2>1, EmptyFine, Zenon
  <2>3. IsPayload(EmptyPayload(r.file, r.bytes, r.mtime), r.file)
    BY <1>3, EmptyFine, Zenon
  <2>. QED  BY <2>2, <2>3, FailedFine, Zenon
<1>6. \A c, y : IsPayload(ScanContent(r.file, r.bytes, r.mtime, c, y, r.skew), r.file)
  BY <1>3, ScanFine, Zenon
<1>7. IsPayload(Compute(r), r.file)
  BY <1>5, <1>6 DEF Compute
<1>. QED  BY <1>4, <1>7

--------------------------------------------------------------------------------
(* The books of the aggregate *)

\* What every payload counts for.
Ledger == {"total", "outcome", "bytesTotal", "bytesData", "bytesNonData", "nameClasses",
           "patterns", "unmatched", "errors", "inventory"}
SameLedger(a, b) == Ledger \subseteq DOMAIN b /\ \A x \in Ledger : b[x] = a[x]

\* The same, one after the other.
LEMMA LedgerAlong ==
  ASSUME NEW a, NEW b, NEW c, SameLedger(a, b), SameLedger(b, c)
  PROVE  SameLedger(a, c)
BY Zenon DEF SameLedger

\* The data of a payload leave the ledger alone.
LEMMA MergeKeeps ==
  ASSUME NEW a, Ledger \subseteq DOMAIN a, NEW p
  PROVE  SameLedger(a, MergeData(a, p))
<1>. DEFINE b == MergeLines(a, p)
            c == MergeValues(b, p)
<1>1. SameLedger(a, b)
  BY ZenonT(60) DEF MergeLines, SameLedger, Ledger
<1>. HIDE DEF b
<1>2. SameLedger(b, c)
  BY <1>1, ZenonT(60) DEF MergeValues, SameLedger, Ledger
<1>. HIDE DEF c
<1>3. SameLedger(c, MergeRounds(c, p))
  BY <1>2, ZenonT(60) DEF MergeRounds, SameLedger, Ledger
<1>4. MergeData(a, p) = MergeRounds(c, p)
  BY Zenon DEF MergeData, b, c
<1>. QED  BY <1>1, <1>2, <1>3, <1>4, LedgerAlong, Zenon

\* So do gaps.
LEMMA GapsKeep ==
  ASSUME NEW a, Ledger \subseteq DOMAIN a, NEW seen
  PROVE  SameLedger(a, WithGaps(a, seen))
BY DEF WithGaps, SameLedger, Ledger

\* And the clock.
LEMMA SkewKeeps ==
  ASSUME NEW a, Ledger \subseteq DOMAIN a, NEW skew
  PROVE  SameLedger(a, AddSkew(a, skew))
BY DEF AddSkew, SameLedger, Ledger

\* So does what finalize stitches.
LEMMA ClosedKeeps ==
  ASSUME NEW a, Ledger \subseteq DOMAIN a, NEW end
  PROVE  SameLedger(a, Closed(a, end))
<1>. DEFINE b == WithGaps(a, end.gaps)
            c == [b EXCEPT !.interarrival = end.interarrival, !.folded = end.folded,
                           !.overlaps = end.overlaps, !.accelRecords = SortRecords(@)]
<1>1. SameLedger(a, b)
  BY GapsKeep
<1>2. Closed(a, end) = c
  BY DEF Closed
<1>. HIDE DEF b
<1>3. SameLedger(b, c)
  BY <1>1 DEF SameLedger, Ledger
<1>. QED  BY <1>1, <1>2, <1>3, LedgerAlong

--------------------------------------------------------------------------------
(* Counters *)

IsCounter(c) == IsFiniteSet(DOMAIN c) /\ \A k \in DOMAIN c : c[k] \in Int

\* The total of a counter is its sum.
LEMMA TotalSums ==
  ASSUME NEW c, IsCounter(c)
  PROVE  \E g : Sums(g, c, DOMAIN c) /\ Total(c) = g[DOMAIN c]
<1>. DEFINE S == DOMAIN c
            P(g) == g = [s \in SUBSET S |->
                          IF s = {} THEN 0
                          ELSE c[CHOOSE x \in s : TRUE] + g[s \ {CHOOSE x \in s : TRUE}]]
<1>1. PICK h : Folds(h, c, SUBSET S)
  BY FoldExists DEF IsCounter
<1>2. \A g : P(g) <=> Folds(g, c, SUBSET S)
  BY DEF Folds, Folded, OneOf
<1>3. PICK g : g = CHOOSE q : P(q)
  OBVIOUS
<1>4. Total(c) = g[S]
  BY <1>3 DEF Total, SumFunction, SumFunctionOnSet, FoldFunctionOnSet, MapThenFoldSet
<1>5. P(g)
  <2>. HIDE DEF P
  <2>. QED  BY <1>1, <1>2, <1>3, Zenon
<1>6. Sums(g, c, S)
  <2>. HIDE DEF P
  <2>1. Folds(g, c, SUBSET S)
    BY <1>2, <1>5
  <2>. QED  BY <2>1, FoldSums DEF IsCounter
<1>. QED  BY <1>4, <1>6

\* Nothing is counted yet.
LEMMA NothingCounted == IsCounter(NoCounts) /\ Total(NoCounts) = 0
<1>1. DOMAIN NoCounts = {} /\ IsFiniteSet({})
  BY FS_EmptySet DEF NoCounts
<1>2. IsCounter(NoCounts)
  BY <1>1 DEF IsCounter
<1>3. PICK g : Sums(g, NoCounts, DOMAIN NoCounts) /\ Total(NoCounts) = g[DOMAIN NoCounts]
  BY <1>2, TotalSums
<1>. QED  BY <1>1, <1>2, <1>3 DEF Sums

\* One more of a kind is one more.
LEMMA OneMoreCounted ==
  ASSUME NEW c, IsCounter(c), NEW k, NEW d, d = CounterMerge(c, One(k))
  PROVE  IsCounter(d) /\ Total(c) \in Int /\ Total(d) = Total(c) + 1
<1>. DEFINE S == DOMAIN c \ {k}
            T == DOMAIN c \cup {k}
<1>1. /\ DOMAIN d = T /\ d[k] = CountAt(c, k) + 1
      /\ \A x \in S : d[x] = c[x] + 0
  BY DEF CounterMerge, One, CountAt
<1>2. IsFiniteSet(DOMAIN c) /\ IsFiniteSet(T) /\ IsFiniteSet(S) /\ \A x \in DOMAIN c : c[x] \in Int
  BY FS_AddElement, FS_Subset DEF IsCounter
<1>3. CountAt(c, k) \in Int /\ \A x \in S : d[x] = c[x] /\ c[x] \in Int
  BY <1>1, <1>2 DEF CountAt
<1>4. IsCounter(d)
  BY <1>1, <1>2, <1>3 DEF IsCounter
<1>5. PICK g : Sums(g, c, DOMAIN c) /\ Total(c) = g[DOMAIN c]
  BY TotalSums
<1>6. PICK h : Sums(h, d, T) /\ Total(d) = h[T]
  BY <1>1, <1>4, TotalSums
<1>7. Sums(g, c, S) /\ g[S] \in Int /\ g[DOMAIN c] \in Int
  BY <1>5 DEF Sums
<1>8. g[S] = h[S]
  BY <1>2, <1>3, <1>6, <1>7, SumsAgree
<1>9. h[T] = d[k] + h[S]
  <2>1. T \ {k} = S /\ T \in SUBSET T /\ k \in T
    OBVIOUS
  <2>. QED  BY <1>6, <2>1 DEF Sums
<1>10. g[DOMAIN c] = CountAt(c, k) + g[S]
  <2>1. CASE k \in DOMAIN c
    <3>1. g[DOMAIN c] = c[k] + g[DOMAIN c \ {k}]
      BY <1>5, <2>1 DEF Sums
    <3>. QED  BY <2>1, <3>1 DEF CountAt
  <2>2. CASE k \notin DOMAIN c
    <3>1. S = DOMAIN c
      BY <2>2
    <3>. QED  BY <1>7, <2>2, <3>1 DEF CountAt
  <2>. QED  BY <2>1, <2>2
<1>11. h[T] = g[DOMAIN c] + 1
  <2>. HIDE DEF S, T
  <2>. QED  BY <1>1, <1>3, <1>7, <1>8, <1>9, <1>10
<1>. QED  BY <1>4, <1>5, <1>6, <1>7, <1>11

--------------------------------------------------------------------------------
(* The books after the first n payloads *)

FilesTo(q, n) == {q[i].file : i \in 1 .. n}
NotMatched(F) == {f \in F : NameClass(f) = "unmatched"}
AreCounts(o) == o["ok"] \in Int /\ o["failed"] \in Int /\ o["nonData"] \in Int
Listed(s, q, n) == s \in Seq(ToSet(s)) /\ Len(s) = n /\ \A i \in 1 .. n : s[i].file = q[i].file
Books(a, q, n) ==
  /\ Ledger \subseteq DOMAIN a
  /\ a.total = n /\ DOMAIN a.outcome = Outcomes /\ AreCounts(a.outcome) /\ Accounted(a) = n
  /\ a.bytesTotal \in Int /\ a.bytesData \in Int /\ a.bytesNonData \in Int
  /\ a.bytesData + a.bytesNonData = a.bytesTotal
  /\ IsCounter(a.nameClasses) /\ Total(a.nameClasses) = n
  /\ IsCounter(a.patterns) /\ Total(a.patterns) = n
  /\ IsCounter(a.errors) /\ Total(a.errors) = n - a.outcome["ok"]
  /\ Listed(a.inventory, q, n)
  /\ IsFiniteSet(FilesTo(q, n)) /\ Cardinality(FilesTo(q, n)) = n
  /\ a.unmatched \in Seq(ToSet(a.unmatched))
  /\ Len(a.unmatched) = Cardinality(NotMatched(FilesTo(q, n)))

\* Before the first payload there is nothing.
LEMMA NoBooks ==
  ASSUME NEW q
  PROVE  Books(NewAggregator, q, 0)
<1>. DEFINE a == NewAggregator
<1>1. /\ Ledger \subseteq DOMAIN a
      /\ a.total = 0 /\ a.bytesTotal = 0 /\ a.bytesData = 0 /\ a.bytesNonData = 0
      /\ a.nameClasses = NoCounts /\ a.patterns = NoCounts /\ a.errors = NoCounts
      /\ a.unmatched = <<>> /\ a.inventory = <<>> /\ a.outcome = [o \in Outcomes |-> 0]
  BY DEF NewAggregator, Ledger
<1>2. FilesTo(q, 0) = {} /\ NotMatched({}) = {}
  BY DEF FilesTo, NotMatched
<1>3. IsFiniteSet({}) /\ Cardinality({}) = 0
  BY FS_EmptySet
<1>. HIDE DEF a
<1>4. DOMAIN a.outcome = Outcomes /\ AreCounts(a.outcome) /\ Accounted(a) = 0 /\ a.outcome["ok"] = 0
  BY <1>1 DEF AreCounts, Accounted, Outcomes
<1>5. Listed(a.inventory, q, 0) /\ a.unmatched \in Seq(ToSet(a.unmatched)) /\ Len(a.unmatched) = 0
  BY <1>1 DEF Listed
<1>6. /\ IsFiniteSet(FilesTo(q, 0)) /\ Cardinality(FilesTo(q, 0)) = 0
      /\ Len(a.unmatched) = Cardinality(NotMatched(FilesTo(q, 0)))
  BY <1>2, <1>3, <1>5
<1>7. /\ IsCounter(a.nameClasses) /\ IsCounter(a.patterns) /\ IsCounter(a.errors)
      /\ Total(a.nameClasses) = 0 /\ Total(a.patterns) = 0 /\ Total(a.errors) = 0 - a.outcome["ok"]
  BY <1>1, <1>4, NothingCounted
<1>8. a.bytesTotal \in Int /\ a.bytesData \in Int /\ a.bytesNonData \in Int
      /\ a.bytesData + a.bytesNonData = a.bytesTotal
  BY <1>1
<1>9. Books(a, q, 0)
  BY <1>1, <1>4, <1>5, <1>6, <1>7, <1>8, Zenon DEF Books
<1>. QED  BY <1>9 DEF a

\* What one payload makes of each entry of the ledger.
Counted(a, p, b) ==
  /\ Ledger \subseteq DOMAIN b
  /\ b.total = a.total + 1
  /\ b.outcome = [a.outcome EXCEPT ![OutcomeOf(p)] = @ + 1]
  /\ b.bytesTotal = a.bytesTotal + p.bytes
  /\ b.bytesData = a.bytesData + (IF p.ok \/ p.isData THEN p.bytes ELSE 0)
  /\ b.bytesNonData = a.bytesNonData + (IF p.ok \/ p.isData THEN 0 ELSE p.bytes)
  /\ b.nameClasses = CounterMerge(a.nameClasses, One(NameClass(p.file)))
  /\ b.patterns = CounterMerge(a.patterns, One(Pattern(p.file)))
  /\ b.unmatched = IF NameClass(p.file) = "unmatched" THEN Append(a.unmatched, UnmatchedRow(p))
                   ELSE a.unmatched
  /\ b.errors = IF p.ok THEN a.errors ELSE CounterMerge(a.errors, One(p.error))
  /\ b.inventory = Append(a.inventory, InventoryRow(p))

\* A payload is counted, whatever else is added of it.
LEMMA AddCounts ==
  ASSUME NEW a, Ledger \subseteq DOMAIN a, NEW p
  PROVE  Counted(a, p, Add(a, p))
<1>. DEFINE b == CountFile(a, p)
<1>1. Counted(a, p, b)
  BY DEF Counted, CountFile, Ledger
<1>2. Ledger \subseteq DOMAIN b
  BY <1>1 DEF Counted
<1>. HIDE DEF b
<1>3. SameLedger(b, Add(a, p))
  <2>1. CASE ~ p.ok
    <3>1. Add(a, p) = b
      BY <2>1 DEF Add, b
    <3>. QED  BY <1>2, <3>1 DEF SameLedger
  <2>2. CASE p.ok
    <3>. DEFINE c == MergeData(b, p)
                d == WithGaps(c, RecordGaps(p, GapsSeen(a)))
    <3>1. Add(a, p) = AddSkew(d, p.skew)
      BY <2>2, Zenon DEF Add, b
    <3>2. SameLedger(b, c)
      BY <1>2, MergeKeeps
    <3>. HIDE DEF c
    <3>3. SameLedger(c, d)
      BY <3>2, GapsKeep DEF SameLedger
    <3>. HIDE DEF d
    <3>4. SameLedger(d, AddSkew(d, p.skew))
      BY <3>3, SkewKeeps DEF SameLedger
    <3>. QED  BY <3>1, <3>2, <3>3, <3>4, LedgerAlong, Zenon
  <2>. QED  BY <2>1, <2>2
<1>. QED
  <2>. DEFINE c == Add(a, p)
  <2>. HIDE DEF c
  <2>1. SameLedger(b, c)
    BY <1>3 DEF c
  <2>2. /\ c.total = b.total /\ c.outcome = b.outcome /\ c.bytesTotal = b.bytesTotal
        /\ c.bytesData = b.bytesData /\ c.bytesNonData = b.bytesNonData
        /\ c.nameClasses = b.nameClasses /\ c.patterns = b.patterns
        /\ c.unmatched = b.unmatched /\ c.errors = b.errors /\ c.inventory = b.inventory
        /\ Ledger \subseteq DOMAIN c
    BY <2>1 DEF SameLedger, Ledger
  <2>3. Counted(a, p, c)
    BY <1>1, <2>2 DEF Counted
  <2>. QED  BY <2>3 DEF c

\* One more row at the end.
LEMMA RowListed ==
  ASSUME NEW s, NEW q, NEW n \in Nat, Listed(s, q, n), NEW r, r.file = q[n + 1].file
  PROVE  Listed(Append(s, r), q, n + 1)
<1>. DEFINE t == Append(s, r)
            S == ToSet(s) \cup {r}
<1>1. s \in Seq(ToSet(s)) /\ Len(s) = n /\ \A i \in 1 .. n : s[i].file = q[i].file
  BY DEF Listed
<1>2. s \in Seq(S) /\ r \in S
  <2>. HIDE DEF S
  <2>1. ToSet(s) \subseteq S /\ r \in S
    BY DEF S
  <2>. QED  BY <1>1, <2>1
<1>. HIDE DEF S
<1>3. /\ t \in Seq(S) /\ Len(t) = n + 1 /\ t[n + 1] = r
      /\ \A i \in 1 .. n : t[i] = s[i]
  BY <1>1, <1>2
<1>4. t \in Seq(ToSet(t))
  BY <1>3 DEF ToSet
<1>. HIDE DEF t
<1>5. \A i \in 1 .. (n + 1) : i \in 1 .. n \/ i = n + 1
  OBVIOUS
<1>6. \A i \in 1 .. (n + 1) : t[i].file = q[i].file
  BY <1>1, <1>3, <1>5, Zenon
<1>7. Listed(t, q, n + 1)
  BY <1>3, <1>4, <1>6 DEF Listed
<1>. QED  BY <1>7 DEF t

\* One more file.
LEMMA OneMoreFile ==
  ASSUME NEW q, NEW n \in Nat, NEW f, f = q[n + 1].file, f \notin FilesTo(q, n),
         IsFiniteSet(FilesTo(q, n)), Cardinality(FilesTo(q, n)) = n
  PROVE  /\ IsFiniteSet(FilesTo(q, n + 1)) /\ Cardinality(FilesTo(q, n + 1)) = n + 1
         /\ Cardinality(NotMatched(FilesTo(q, n))) \in Nat
         /\ Cardinality(NotMatched(FilesTo(q, n + 1)))
               = Cardinality(NotMatched(FilesTo(q, n))) + (IF NameClass(f) = "unmatched" THEN 1 ELSE 0)
<1>. DEFINE F == FilesTo(q, n)
<1>1. FilesTo(q, n + 1) = F \cup {f}
  <2>1. \A i \in 1 .. (n + 1) : i \in 1 .. n \/ i = n + 1
    OBVIOUS
  <2>2. n + 1 \in 1 .. (n + 1) /\ \A i \in 1 .. n : i \in 1 .. (n + 1)
    OBVIOUS
  <2>. QED  BY <2>1, <2>2 DEF FilesTo
<1>. HIDE DEF F
<1>2. IsFiniteSet(F) /\ Cardinality(F) = n /\ f \notin F
  BY DEF F
<1>3. IsFiniteSet(F \cup {f}) /\ Cardinality(F \cup {f}) = n + 1
  BY <1>2, FS_AddElement
<1>4. NotMatched(F) \subseteq F /\ f \notin NotMatched(F)
  BY <1>2 DEF NotMatched
<1>5. IsFiniteSet(NotMatched(F)) /\ Cardinality(NotMatched(F)) \in Nat
  BY <1>2, <1>4, FS_Subset, FS_CardinalityType
<1>6. Cardinality(NotMatched(F \cup {f}))
        = Cardinality(NotMatched(F)) + (IF NameClass(f) = "unmatched" THEN 1 ELSE 0)
  <2>1. CASE NameClass(f) = "unmatched"
    <3>1. NotMatched(F \cup {f}) = NotMatched(F) \cup {f}
      BY <2>1 DEF NotMatched
    <3>2. Cardinality(NotMatched(F) \cup {f}) = Cardinality(NotMatched(F)) + 1
      BY <1>4, <1>5, FS_AddElement
    <3>. QED  BY <2>1, <3>1, <3>2
  <2>2. CASE NameClass(f) # "unmatched"
    <3>1. NotMatched(F \cup {f}) = NotMatched(F)
      BY <2>2 DEF NotMatched
    <3>. QED  BY <1>5, <2>2, <3>1
  <2>. QED  BY <2>1, <2>2
<1>. QED  BY <1>1, <1>3, <1>5, <1>6 DEF F

\* A payload more in the books.
LEMMA BooksGrow ==
  ASSUME NEW a, NEW q, NEW n \in Nat, Books(a, q, n), NEW p, IsPayload(p, q[n + 1].file),
         q[n + 1].file \notin FilesTo(q, n)
  PROVE  Books(Add(a, p), q, n + 1)
<1>. DEFINE b == Add(a, p)
            f == q[n + 1].file
            o == OutcomeOf(p)
<1>1. Ledger \subseteq DOMAIN a
  BY DEF Books
<1>2. Counted(a, p, b)
  BY <1>1, AddCounts
<1>. HIDE DEF b
<1>3. p.file = f /\ p.bytes \in Int /\ p.isData \in BOOLEAN /\ p.ok \in BOOLEAN
  BY DEF IsPayload
<1>4. Ledger \subseteq DOMAIN b /\ b.total = n + 1
  BY <1>2 DEF Counted, Books
<1>5. /\ DOMAIN b.outcome = Outcomes /\ AreCounts(b.outcome) /\ Accounted(b) = n + 1
      /\ a.outcome["ok"] \in Int
      /\ b.outcome["ok"] = a.outcome["ok"] + (IF p.ok THEN 1 ELSE 0)
  <2>1. /\ b.outcome = [a.outcome EXCEPT ![o] = a.outcome[o] + 1]
        /\ DOMAIN a.outcome = {"ok", "failed", "nonData"} /\ AreCounts(a.outcome)
        /\ a.outcome["ok"] + a.outcome["failed"] + a.outcome["nonData"] = n
    BY <1>2 DEF Counted, Books, Outcomes, Accounted
  <2>2. o \in {"ok", "failed", "nonData"} /\ (o = "ok" <=> p.ok)
    BY <1>3 DEF OutcomeOf
  <2>. HIDE DEF o
  <2>3. DOMAIN b.outcome = Outcomes
    BY <2>1 DEF Outcomes
  <2>4. \A x \in {"ok", "failed", "nonData"} :
          b.outcome[x] = a.outcome[x] + (IF x = o THEN 1 ELSE 0)
    BY <2>1 DEF AreCounts
  <2>5. /\ b.outcome["ok"] = a.outcome["ok"] + (IF o = "ok" THEN 1 ELSE 0)
        /\ b.outcome["failed"] = a.outcome["failed"] + (IF o = "failed" THEN 1 ELSE 0)
        /\ b.outcome["nonData"] = a.outcome["nonData"] + (IF o = "nonData" THEN 1 ELSE 0)
    BY <2>4
  <2>6. AreCounts(b.outcome)
    BY <2>1, <2>5 DEF AreCounts
  <2>7. Accounted(b) = n + 1
    BY <2>1, <2>2, <2>5 DEF AreCounts, Accounted
  <2>. QED  BY <2>1, <2>2, <2>3, <2>5, <2>6, <2>7 DEF AreCounts
<1>6. /\ b.bytesTotal \in Int /\ b.bytesData \in Int /\ b.bytesNonData \in Int
      /\ b.bytesData + b.bytesNonData = b.bytesTotal
  BY <1>2, <1>3 DEF Counted, Books
<1>7. /\ IsCounter(b.nameClasses) /\ Total(b.nameClasses) = n + 1
      /\ IsCounter(b.patterns) /\ Total(b.patterns) = n + 1
  BY <1>2, OneMoreCounted DEF Counted, Books
<1>8. IsCounter(b.errors) /\ Total(b.errors) = (n + 1) - b.outcome["ok"]
  <2>1. IsCounter(a.errors) /\ Total(a.errors) = n - a.outcome["ok"]
    BY DEF Books
  <2>2. CASE p.ok
    <3>1. b.errors = a.errors
      BY <1>2, <2>2 DEF Counted
    <3>. QED  BY <1>5, <2>1, <2>2, <3>1
  <2>3. CASE ~ p.ok
    <3>1. b.errors = CounterMerge(a.errors, One(p.error))
      BY <1>2, <2>3 DEF Counted
    <3>2. IsCounter(b.errors) /\ Total(b.errors) = Total(a.errors) + 1
      BY <2>1, <3>1, OneMoreCounted
    <3>. QED  BY <1>5, <2>1, <2>3, <3>2
  <2>. QED  BY <1>3, <2>2, <2>3
<1>9. Listed(b.inventory, q, n + 1)
  <2>1. InventoryRow(p).file = f
    BY <1>3 DEF InventoryRow
  <2>2. b.inventory = Append(a.inventory, InventoryRow(p)) /\ Listed(a.inventory, q, n)
    BY <1>2 DEF Counted, Books
  <2>. QED  BY <2>1, <2>2, RowListed
<1>10. IsFiniteSet(FilesTo(q, n)) /\ Cardinality(FilesTo(q, n)) = n
  BY DEF Books
<1>11. /\ IsFiniteSet(FilesTo(q, n + 1)) /\ Cardinality(FilesTo(q, n + 1)) = n + 1
       /\ Cardinality(NotMatched(FilesTo(q, n))) \in Nat
       /\ Cardinality(NotMatched(FilesTo(q, n + 1)))
             = Cardinality(NotMatched(FilesTo(q, n))) + (IF NameClass(f) = "unmatched" THEN 1 ELSE 0)
  BY <1>10, OneMoreFile
<1>12. /\ b.unmatched \in Seq(ToSet(b.unmatched))
       /\ Len(b.unmatched) = Cardinality(NotMatched(FilesTo(q, n + 1)))
  <2>1. /\ a.unmatched \in Seq(ToSet(a.unmatched))
        /\ Len(a.unmatched) = Cardinality(NotMatched(FilesTo(q, n)))
    BY DEF Books
  <2>2. CASE NameClass(f) = "unmatched"
    <3>. DEFINE S == ToSet(a.unmatched) \cup {UnmatchedRow(p)}
    <3>1. b.unmatched = Append(a.unmatched, UnmatchedRow(p))
      BY <1>2, <1>3, <2>2 DEF Counted
    <3>2. ToSet(a.unmatched) \subseteq S /\ UnmatchedRow(p) \in S
      OBVIOUS
    <3>. HIDE DEF S
    <3>3. a.unmatched \in Seq(S)
      BY <2>1, <3>2
    <3>4. b.unmatched \in Seq(S) /\ Len(b.unmatched) = Len(a.unmatched) + 1
      BY <3>1, <3>2, <3>3
    <3>5. b.unmatched \in Seq(ToSet(b.unmatched))
      BY <3>4 DEF ToSet
    <3>. QED  BY <1>11, <2>1, <2>2, <3>4, <3>5
  <2>3. CASE NameClass(f) # "unmatched"
    <3>1. b.unmatched = a.unmatched
      BY <1>2, <1>3, <2>3 DEF Counted
    <3>. QED  BY <1>11, <2>1, <2>3, <3>1
  <2>. QED  BY <2>2, <2>3
<1>13. Books(b, q, n + 1)
  BY <1>4, <1>5, <1>6, <1>7, <1>8, <1>9, <1>11, <1>12, Zenon DEF Books
<1>. QED  BY <1>13 DEF b

--------------------------------------------------------------------------------
(* All payloads *)

\* g goes through the first n payloads.
Goes(g, q, n) ==
  /\ g = [k \in 0 .. n |-> g[k]] /\ g[0] = NewAggregator
  /\ \A k \in 1 .. n : g[k] = Add(g[k - 1], Payload(q[k]))

\* There is such a g.
LEMMA SomeGoes ==
  ASSUME NEW q, NEW n \in Nat
  PROVE  \E g : Goes(g, q, n)
<1>. DEFINE S == {k \in 0 .. n : \E g : Goes(g, q, k)}
<1>1. 0 \in S
  <2>. DEFINE g == [k \in 0 .. 0 |-> NewAggregator]
  <2>1. g = [k \in 0 .. 0 |-> g[k]] /\ g[0] = NewAggregator /\ \A k \in 1 .. 0 : FALSE
    OBVIOUS
  <2>. HIDE DEF g
  <2>2. Goes(g, q, 0)
    BY <2>1 DEF Goes
  <2>. QED  BY <2>2
<1>2. ASSUME NEW k \in 1 .. n, k - 1 \in S
      PROVE  k \in S
  <2>1. PICK g : Goes(g, q, k - 1)
    BY <1>2
  <2>2. PICK y : y = Add(g[k - 1], Payload(q[k]))
    OBVIOUS
  <2>. DEFINE f == [i \in 0 .. k |-> IF i = k THEN y ELSE g[i]]
  <2>3. f = [i \in 0 .. k |-> f[i]] /\ f[0] = NewAggregator
    BY <2>1 DEF Goes
  <2>4. ASSUME NEW i \in 1 .. k
        PROVE  f[i] = Add(f[i - 1], Payload(q[i]))
    <3>1. CASE i = k
      <4>1. f[i] = y /\ f[i - 1] = g[k - 1]
        BY <3>1
      <4>. QED  BY <2>2, <3>1, <4>1
    <3>2. CASE i # k
      <4>1. i \in 1 .. (k - 1) /\ f[i] = g[i] /\ f[i - 1] = g[i - 1]
        BY <3>2
      <4>. QED  BY <2>1, <4>1 DEF Goes
    <3>. QED  BY <3>1, <3>2
  <2>. HIDE DEF f
  <2>5. Goes(f, q, k)
    BY <2>3, <2>4 DEF Goes
  <2>. QED  BY <2>5
<1>3. n \in S
  <2>1. \A i \in 0 .. n : i \in S
    <3>. HIDE DEF S
    <3>. QED  BY <1>1, <1>2, EachUpTo
  <2>. QED  BY <2>1
<1>. QED  BY <1>3

\* It is what AddedUp takes.
LEMMA GoesThrough ==
  ASSUME NEW q, Len(q) \in Nat
  PROVE  \E g : Goes(g, q, Len(q)) /\ AddedUp(q) = g[Len(q)]
<1>. DEFINE n == Len(q)
            Entry(f, k) == IF k = 0 THEN NewAggregator ELSE Add(f[k - 1], Payload(q[k]))
            P(f) == f = [k \in 0 .. n |-> Entry(f, k)]
            u == CHOOSE f : P(f)
<1>1. AddedUp(q) = u[n]
  BY DEF AddedUp
<1>2. ASSUME NEW f, Goes(f, q, n)
      PROVE  P(f)
  <2>1. \A k \in 0 .. n : f[k] = Entry(f, k)
    <3>1. \A k \in 0 .. n : k = 0 \/ (k \in 1 .. n /\ k # 0)
      OBVIOUS
    <3>. QED  BY <1>2, <3>1 DEF Goes
  <2>2. f = [k \in 0 .. n |-> f[k]]
    BY <1>2, Zenon DEF Goes
  <2>. QED  BY <2>1, <2>2, Zenon
<1>3. ASSUME NEW f, P(f)
      PROVE  Goes(f, q, n)
  <2>1. \A k \in 0 .. n : f[k] = Entry(f, k)
    BY <1>3, Zenon
  <2>2. f = [k \in 0 .. n |-> f[k]]
    <3>1. f = [k \in 0 .. n |-> Entry(f, k)]
      BY <1>3, Zenon
    <3>. HIDE DEF Entry, P
    <3>. QED  BY <3>1
  <2>3. f[0] = NewAggregator
    BY <2>1
  <2>4. \A k \in 1 .. n : f[k] = Add(f[k - 1], Payload(q[k]))
    <3>1. \A k \in 1 .. n : k \in 0 .. n /\ k # 0
      OBVIOUS
    <3>. QED  BY <2>1, <3>1, Zenon
  <2>. HIDE DEF Entry, P
  <2>. QED  BY <2>2, <2>3, <2>4, Zenon DEF Goes
<1>4. PICK h : Goes(h, q, n)
  BY SomeGoes
<1>. HIDE DEF P, Entry
<1>5. P(u)
  BY <1>2, <1>4, Zenon
<1>6. Goes(u, q, n)
  BY <1>3, <1>5
<1>. QED  BY <1>1, <1>6

\* No file twice among the first n.
LEMMA NotBefore ==
  ASSUME NEW q \in Seq(Readings), NEW F, EachOnce(q, F), NEW n \in Nat, n + 1 \in 1 .. Len(q)
  PROVE  q[n + 1].file \notin FilesTo(q, n)
<1>1. ASSUME NEW i \in 1 .. n, q[i].file = q[n + 1].file
      PROVE  FALSE
  <2>1. i \in 1 .. Len(q) /\ i # n + 1
    BY <1>1
  <2>. QED  BY <1>1, <2>1 DEF EachOnce
<1>. QED  BY <1>1 DEF FilesTo

\* The books of all payloads.
LEMMA BooksOfAll ==
  ASSUME NEW q \in Seq(Readings), NEW F, EachOnce(q, F)
  PROVE  Books(AddedUp(q), q, Len(q))
<1>1. Len(q) \in Nat
  OBVIOUS
<1>2. PICK g : Goes(g, q, Len(q)) /\ AddedUp(q) = g[Len(q)]
  BY <1>1, GoesThrough
<1>. DEFINE S == {k \in 0 .. Len(q) : Books(g[k], q, k)}
<1>3. 0 \in S
  BY <1>1, <1>2, NoBooks DEF Goes
<1>4. ASSUME NEW k \in 1 .. Len(q), k - 1 \in S
      PROVE  k \in S
  <2>1. k - 1 \in Nat /\ (k - 1) + 1 = k /\ Books(g[k - 1], q, k - 1)
    BY <1>4
  <2>2. q[k] \in Readings
    OBVIOUS
  <2>3. IsPayload(Payload(q[k]), q[k].file)
    BY <2>2, PayloadFine
  <2>4. q[k].file \notin FilesTo(q, k - 1)
    BY <2>1, NotBefore
  <2>5. Books(Add(g[k - 1], Payload(q[k])), q, k)
    BY <2>1, <2>3, <2>4, BooksGrow
  <2>6. g[k] = Add(g[k - 1], Payload(q[k]))
    BY <1>2 DEF Goes
  <2>. QED  BY <2>5, <2>6
<1>5. Len(q) \in S
  <2>1. \A i \in 0 .. Len(q) : i \in S
    <3>. HIDE DEF S
    <3>. QED  BY <1>1, <1>3, <1>4, EachUpTo
  <2>. QED  BY <1>1, <2>1
<1>. QED  BY <1>2, <1>5

\* By the books, the files of a finished run are all accounted for.
LEMMA BooksAccount ==
  ASSUME NEW q \in Seq(Readings), NEW F, EachOnce(q, F)
  PROVE  AccountsFor(Aggregate(q), F)
<1>. DEFINE n == Len(q)
            a == AddedUp(q)
            b == Aggregate(q)
<1>1. Books(a, q, n)
  BY BooksOfAll
<1>2. SameLedger(a, b)
  BY <1>1, ClosedKeeps DEF Books, Aggregate, Finalize
<1>3. FilesTo(q, n) = F
  BY DEF FilesTo, EachOnce
<1>. HIDE DEF a, b
<1>4. /\ b.total = a.total /\ b.outcome = a.outcome /\ b.bytesTotal = a.bytesTotal
      /\ b.bytesData = a.bytesData /\ b.bytesNonData = a.bytesNonData
      /\ b.nameClasses = a.nameClasses /\ b.patterns = a.patterns
      /\ b.unmatched = a.unmatched /\ b.errors = a.errors /\ b.inventory = a.inventory
  BY <1>2 DEF SameLedger, Ledger
<1>5. n \in Nat
  OBVIOUS
<1>6. Cardinality(F) = n
  BY <1>1, <1>3 DEF Books
<1>7. Len(b.inventory) = Cardinality(F) /\ {b.inventory[i].file : i \in DOMAIN b.inventory} = F
  <2>1. /\ b.inventory \in Seq(ToSet(b.inventory)) /\ Len(b.inventory) = n
        /\ \A i \in 1 .. n : b.inventory[i].file = q[i].file
    BY <1>1, <1>4 DEF Books, Listed
  <2>2. DOMAIN b.inventory = 1 .. n
    BY <2>1
  <2>3. {b.inventory[i].file : i \in 1 .. n} = {q[i].file : i \in 1 .. n}
    BY <2>1
  <2>. QED  BY <1>3, <1>6, <2>1, <2>2, <2>3 DEF FilesTo
<1>8. b.total = Cardinality(F) /\ Accounted(b) = b.total
  BY <1>1, <1>4, <1>6 DEF Books, Accounted
<1>9. Total(b.errors) = b.total - b.outcome["ok"]
  BY <1>1, <1>4 DEF Books
<1>10. Len(b.unmatched) = Cardinality({f \in F : NameClass(f) = "unmatched"})
  BY <1>1, <1>3, <1>4 DEF Books, NotMatched
<1>11. b.bytesData + b.bytesNonData = b.bytesTotal
  BY <1>1, <1>4 DEF Books
<1>12. Total(b.nameClasses) = b.total /\ Total(b.patterns) = b.total
  BY <1>1, <1>4 DEF Books
<1>13. AccountsFor(b, F)
  BY <1>7, <1>8, <1>9, <1>10, <1>11, <1>12, Zenon DEF AccountsFor
<1>. QED  BY <1>13 DEF b

\* In every finished run, whatever files changed, failed or were cut short before: one
\* inventory row for each file of the run, one outcome, name class and pattern counted,
\* an error for each that gave no data, the bytes of data files and others add up, and
\* each file whose name is not understood is listed (Aggregator.add, finalize).
THEOREM EdaFilesAccounted == DatasetSpec => []EveryFileAccounted
<1>1. FinishedRunIsWhole => EveryFileAccounted
  BY BooksAccount DEF FinishedRunIsWhole, EveryFileAccounted
<1>. QED
  BY <1>1, EdaFilesAddedOnce, PTL

================================================================================
