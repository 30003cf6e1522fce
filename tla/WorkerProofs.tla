---------------------------- MODULE WorkerProofs ----------------------------
(***************************************************************************)
(* A destination holds its whole model, for any number of requests, files  *)
(* and chunks and any sharing of partial names.                            *)
(***************************************************************************)
EXTENDS Worker, TLAPS

\* A task's record, taken apart.
LEMMA JobFacts ==
    ASSUME TypeOK, NEW j \in Job
    PROVE  /\ job[j] \in JobState
           /\ job[j].phase \in Phase
           /\ job[j].file \in File \cup {None}
           /\ job[j].handle \in Job \cup {None}
           /\ job[j].at \in 0 .. Chunks
           /\ job[j].at \in Nat
BY WorkerAssumption DEF TypeOK, JobState, Content

\* A step that only moves task j to another phase.
LEMMA ToFacts ==
    ASSUME TypeOK, NEW j \in Job, NEW ph \in Phase, To(j, ph)
    PROVE  /\ job' \in [Job -> JobState]
           /\ job'[j].phase = ph
           /\ \A k \in Job : /\ job'[k].file = job[k].file
                             /\ job'[k].handle = job[k].handle
                             /\ job'[k].at = job[k].at
                             /\ k # j => job'[k].phase = job[k].phase
<1>1. job'[j] = [job[j] EXCEPT !.phase = ph] /\ \A k \in Job : k # j => job'[k] = job[k]
  BY DEF TypeOK, To
<1>2. [job[j] EXCEPT !.phase = ph] \in JobState
  BY JobFacts DEF JobState
<1>3. job' \in [Job -> JobState]
  BY <1>1, <1>2, JobFacts DEF TypeOK, To
<1> QED
  BY <1>1, <1>3, JobFacts DEF JobState

\* Whatever is under a name or opened is a content.
LEMMA ContentFacts ==
    ASSUME TypeOK
    PROVE  /\ \A p \in Name : partial[p] # None => partial[p] \in Job
           /\ \A f \in File : dest[f] # None => dest[f] \in Job
           /\ \A j \in Job : job[j].handle # None => job[j].handle \in Job
BY JobFacts DEF TypeOK, Content

\* Contents keep their names as long as the tasks keep their files.
LEMMA NamesFacts ==
    ASSUME TypeOK, NamesKept, UNCHANGED <<dest, partial>>,
           \A c \in Job : job[c].file # None => job'[c].file = job[c].file,
           \A j \in Job : job'[j].phase = "writing" =>
                job[j].phase = "writing" /\ job'[j].handle = job[j].handle
                    /\ job'[j].file = job[j].file
    PROVE  NamesKept'
<1>1. \A p \in Name : partial'[p] # None =>
          job'[partial'[p]].file # None /\ Partial[job'[partial'[p]].file] = p
  BY ContentFacts DEF NamesKept, Mine
<1>2. \A f \in File : dest'[f] # None =>
          job'[dest'[f]].file # None /\ Partial[job'[dest'[f]].file] = Partial[f]
  BY ContentFacts DEF NamesKept, Mine
<1>3. \A j \in Job : job'[j].phase = "writing" =>
          /\ job'[j].handle # None
          /\ job'[job'[j].handle].file # None
          /\ Partial[job'[job'[j].handle].file] = Partial[job'[j].file]
  BY ContentFacts DEF NamesKept, Mine
<1> QED
  BY <1>1, <1>2, <1>3 DEF NamesKept, Mine

LEMMA FaultFacts ==
    ASSUME TypeOK, Fault
    PROVE  faults' \in 0 .. MaxFaults
BY WorkerAssumption DEF TypeOK, Fault

LEMMA EmptyFacts == Empty \in Data
BY DEF Empty, Data

LEMMA InitWorker == Init => WorkerInv
<1> SUFFICES ASSUME Init PROVE WorkerInv
  OBVIOUS
<1>1. NewJob \in JobState
  BY WorkerAssumption DEF NewJob, JobState, Phase
<1>2. TypeOK
  BY <1>1, EmptyFacts, WorkerAssumption DEF Init, TypeOK, NoChild, Supervisor
<1>3. \A j \in Job : job[j].phase = "new" /\ job[j].file = None /\ job[j].at = 0
  BY DEF Init, NewJob
<1> QED
  BY <1>2, <1>3 DEF Init, WorkerInv, JobsStarted, NamesKept, Alone, Fetching,
     FetchInOrder, DestinationsFinished, DestinationsComplete

LEMMA LoadKeeps ==
    ASSUME WorkerInv, NEW j \in Job, NEW f \in File, load_model(j, f)
    PROVE  WorkerInv'
<1> USE DEF WorkerInv
<1>1. /\ job'[j] = [job[j] EXCEPT !.phase = "start", !.file = f]
      /\ \A k \in Job : k # j => job'[k] = job[k]
      /\ job' \in [Job -> JobState]
  <2>1. [job[j] EXCEPT !.phase = "start", !.file = f] \in JobState
    BY JobFacts DEF JobState, Phase
  <2> QED
    BY <2>1 DEF TypeOK, load_model
<1>2. job'[j].phase = "start" /\ job'[j].file = f /\ job'[j].at = job[j].at
  BY <1>1, JobFacts DEF JobState
<1>3. job[j].phase = "new" /\ job[j].file = None /\ job[j].at = 0
  BY DEF load_model, JobsStarted
<1>4. TypeOK'
  BY <1>1 DEF TypeOK, load_model
<1>5. JobsStarted'
  <2>1. f # None
    BY WorkerAssumption
  <2> QED
    <3>1. \A k \in Job : k # j =>
              /\ job'[k].phase = "new" <=> job'[k].file = None
              /\ job'[k].phase \in {"new", "start", "clean", "request"} => job'[k].at = 0
      BY <1>1 DEF JobsStarted
    <3>2. /\ job'[j].phase # "new" /\ job'[j].file # None
          /\ job'[j].at = 0
      BY <1>2, <1>3, <2>1
    <3> QED
      BY <3>1, <3>2 DEF JobsStarted
<1>6. \A c \in Job : job[c].file # None => job'[c] = job[c]
  BY <1>1, <1>3
<1>7. NamesKept'
  BY <1>1, <1>2, <1>6, NamesFacts DEF load_model
<1>8. Alone'
  BY <1>1, <1>2 DEF Alone, Mine, load_model, Fetching
<1>9. FetchInOrder'
  BY <1>1, <1>2 DEF FetchInOrder, Mine, load_model
<1>10. DestinationsFinished' /\ DestinationsComplete'
  <2>1. \A g \in File : dest[g] # None => job'[dest[g]] = job[dest[g]]
    BY <1>6, ContentFacts DEF NamesKept
  <2> QED
    BY <2>1 DEF DestinationsFinished, DestinationsComplete, Complete, load_model
<1> QED
  BY <1>4, <1>5, <1>7, <1>8, <1>9, <1>10

\* A task goes to a phase in which it does not fetch: it found the file, it
\* failed, or it is through with the supervisor.
LEMMA LeaveKeeps ==
    ASSUME WorkerInv, NEW j \in Job, NEW ph \in {"switch", "done"}, To(j, ph),
           job[j].phase # "new",
           faults' \in 0 .. MaxFaults, sup' \in Supervisor,
           UNCHANGED <<dest, partial, data, spoiled>>
    PROVE  WorkerInv'
<1> USE DEF WorkerInv
<1>1. /\ job' \in [Job -> JobState]
      /\ job'[j].phase = ph
      /\ \A k \in Job : /\ job'[k].file = job[k].file
                        /\ job'[k].handle = job[k].handle
                        /\ job'[k].at = job[k].at
                        /\ k # j => job'[k].phase = job[k].phase
  BY ToFacts DEF Phase
<1>2. TypeOK'
  BY <1>1 DEF TypeOK
<1>3. JobsStarted'
  BY <1>1 DEF JobsStarted
<1>4. NamesKept'
  BY <1>1, NamesFacts
<1>5. Alone'
  BY <1>1 DEF Alone, Mine, Fetching
<1>6. FetchInOrder'
  BY <1>1 DEF FetchInOrder, Mine
<1>7. DestinationsFinished' /\ DestinationsComplete'
  BY <1>1 DEF DestinationsFinished, DestinationsComplete, Complete, TypeOK, Content
<1> QED
  BY <1>2, <1>3, <1>4, <1>5, <1>6, <1>7
\* The first step of a fetch joins the tasks that use the partial name.
LEMMA NotCachedKeeps ==
    ASSUME WorkerInv, NEW j \in Job, NotCached(j)
    PROVE  WorkerInv'
<1> USE DEF WorkerInv
<1>1. /\ job' \in [Job -> JobState]
      /\ job'[j].phase = "clean"
      /\ \A k \in Job : /\ job'[k].file = job[k].file
                        /\ job'[k].handle = job[k].handle
                        /\ job'[k].at = job[k].at
                        /\ k # j => job'[k].phase = job[k].phase
  BY ToFacts DEF NotCached, Phase
<1>2. spoiled' \subseteq Name /\ spoiled \subseteq spoiled'
  <2>1. job[j].file \in File
    BY JobFacts DEF NotCached, JobsStarted
  <2> QED
    BY <2>1, WorkerAssumption DEF NotCached, TypeOK, Mine
<1>3. TypeOK'
  BY <1>1, <1>2 DEF TypeOK, NotCached
<1>4. JobsStarted'
  BY <1>1 DEF JobsStarted, NotCached
<1>5. NamesKept'
  BY <1>1, NamesFacts DEF NotCached
<1>6. Alone'
  BY <1>1, <1>2 DEF Alone, Mine, Fetching, NotCached
<1>7. FetchInOrder'
  BY <1>1, <1>2 DEF FetchInOrder, Mine, NotCached
<1>8. DestinationsFinished' /\ DestinationsComplete'
  BY <1>1, <1>2 DEF DestinationsFinished, DestinationsComplete, Complete, TypeOK, Content, NotCached
<1> QED
  BY <1>3, <1>4, <1>5, <1>6, <1>7, <1>8

LEMMA CleanKeeps ==
    ASSUME WorkerInv, NEW j \in Job, CleanPartial(j)
    PROVE  WorkerInv'
<1> USE DEF WorkerInv
<1>1. /\ job' \in [Job -> JobState]
      /\ job'[j].phase = "request"
      /\ \A k \in Job : /\ job'[k].file = job[k].file
                        /\ job'[k].handle = job[k].handle
                        /\ job'[k].at = job[k].at
                        /\ k # j => job'[k].phase = job[k].phase
  BY ToFacts DEF CleanPartial, Phase
<1>2. /\ Mine(j) \in Name
      /\ partial' \in [Name -> Content \cup {None}]
      /\ partial'[Mine(j)] = None
      /\ \A p \in Name : p # Mine(j) => partial'[p] = partial[p]
  <2>1. job[j].file \in File
    BY JobFacts DEF CleanPartial, JobsStarted
  <2> QED
    BY <2>1, WorkerAssumption DEF CleanPartial, TypeOK, Mine
<1>3. TypeOK'
  BY <1>1, <1>2 DEF TypeOK, CleanPartial
<1>4. JobsStarted'
  BY <1>1 DEF JobsStarted, CleanPartial
<1>5. NamesKept'
  <2>1. \A p \in Name : partial'[p] # None =>
            job'[partial'[p]].file # None /\ Partial[job'[partial'[p]].file] = p
    BY <1>1, <1>2, ContentFacts DEF NamesKept, Mine
  <2>2. \A f \in File : dest'[f] # None =>
            job'[dest'[f]].file # None /\ Partial[job'[dest'[f]].file] = Partial[f]
    BY <1>1, ContentFacts DEF NamesKept, Mine, CleanPartial
  <2>3. \A k \in Job : job'[k].phase = "writing" =>
            /\ job'[k].handle # None
            /\ job'[job'[k].handle].file # None
            /\ Partial[job'[job'[k].handle].file] = Partial[job'[k].file]
    BY <1>1, ContentFacts DEF NamesKept, Mine
  <2> QED
    BY <2>1, <2>2, <2>3 DEF NamesKept, Mine
<1>6. Alone'
  BY <1>1 DEF Alone, Mine, Fetching, CleanPartial
<1>7. FetchInOrder'
  <2> SUFFICES ASSUME NEW k \in Job, job'[k].phase \in {"request", "writing"}, Mine(k) \notin spoiled
               PROVE  /\ job'[k].phase = "request" => partial'[Mine(k)] = None
                      /\ job'[k].phase = "writing" =>
                            /\ job[k].handle = k
                            /\ partial'[Mine(k)] = k
                            /\ \A i \in 1 .. job[k].at : data[k][i] = job[k].file
    BY <1>1 DEF FetchInOrder, Mine, CleanPartial
  <2>1. CASE k = j
    BY <2>1, <1>1, <1>2
  <2>2. CASE k # j
    <3>1. job[k].phase = job'[k].phase /\ Mine(k) # Mine(j)
      BY <2>2, <1>1 DEF Alone, Fetching, CleanPartial
    <3>2. Mine(k) \in Name
      BY <3>1, JobFacts, WorkerAssumption DEF Mine, JobsStarted
    <3> QED
      BY <3>1, <3>2, <1>2 DEF FetchInOrder
  <2> QED
    BY <2>1, <2>2
<1>8. DestinationsFinished' /\ DestinationsComplete'
  BY <1>1 DEF DestinationsFinished, DestinationsComplete, Complete, TypeOK, Content, CleanPartial
<1> QED
  BY <1>3, <1>4, <1>5, <1>6, <1>7, <1>8
LEMMA OpenKeeps ==
    ASSUME WorkerInv, NEW j \in Job, Open(j)
    PROVE  WorkerInv'
<1> USE DEF WorkerInv
<1> DEFINE c == IF partial[Mine(j)] = None THEN j ELSE partial[Mine(j)]
<1>1. job[j].file \in File /\ Mine(j) \in Name /\ job[j].at = 0
  BY JobFacts, WorkerAssumption DEF Open, JobsStarted, Mine
<1>2. c \in Job /\ job[c].file # None /\ Mine(c) = Mine(j)
  BY <1>1, ContentFacts, WorkerAssumption DEF NamesKept
<1>3. Mine(j) \notin spoiled => c = j /\ partial[Mine(j)] = None
  BY DEF FetchInOrder, Open
<1>4. /\ job'[j] = [job[j] EXCEPT !.phase = "writing", !.handle = c]
      /\ \A k \in Job : k # j => job'[k] = job[k]
      /\ job' \in [Job -> JobState]
  <2>1. [job[j] EXCEPT !.phase = "writing", !.handle = c] \in JobState
    BY <1>2, JobFacts DEF JobState, Phase, Content
  <2> QED
    BY <2>1 DEF TypeOK, Open
<1>5. /\ job'[j].phase = "writing" /\ job'[j].handle = c
      /\ job'[j].file = job[j].file /\ job'[j].at = 0
  BY <1>1, <1>4, JobFacts DEF JobState
<1>6. /\ partial' \in [Name -> Content \cup {None}]
      /\ partial'[Mine(j)] = c
      /\ \A p \in Name : p # Mine(j) => partial'[p] = partial[p]
  BY <1>1, <1>2 DEF Open, TypeOK, Content
<1>7. data' \in [Content -> Data] /\ \A d \in Job : d # c => data'[d] = data[d]
  BY EmptyFacts DEF Open, TypeOK, Content
<1>8. \A k \in Job : job'[k].file = job[k].file
  BY <1>4, <1>5
<1>9. TypeOK'
  BY <1>4, <1>6, <1>7 DEF TypeOK, Open
<1>10. JobsStarted'
  <2>1. job[j].file # None
    BY <1>1, WorkerAssumption
  <2> QED
    BY <1>4, <1>5, <2>1 DEF JobsStarted
<1>11. NamesKept'
  <2>1. \A p \in Name : partial'[p] # None =>
            job'[partial'[p]].file # None /\ Partial[job'[partial'[p]].file] = p
    <3> TAKE p \in Name
    <3>1. CASE p = Mine(j)
      <4>1. partial'[p] = c /\ job'[c].file = job[c].file
        BY <3>1, <1>2, <1>6, <1>8
      <4> QED
        BY <3>1, <4>1, <1>2 DEF Mine
    <3>2. CASE p # Mine(j)
      BY <3>2, <1>6, <1>8, ContentFacts DEF NamesKept, Mine
    <3> QED
      BY <3>1, <3>2
  <2>2. \A f \in File : dest'[f] # None =>
            job'[dest'[f]].file # None /\ Partial[job'[dest'[f]].file] = Partial[f]
    BY <1>8, ContentFacts DEF NamesKept, Mine, Open
  <2>3. \A k \in Job : job'[k].phase = "writing" =>
            /\ job'[k].handle # None
            /\ job'[job'[k].handle].file # None
            /\ Partial[job'[job'[k].handle].file] = Partial[job'[k].file]
    <3> TAKE k \in Job
    <3>1. CASE k = j
      BY <3>1, <1>5, <1>2, <1>8, WorkerAssumption DEF Mine
    <3>2. CASE k # j
      BY <3>2, <1>4, <1>8, ContentFacts DEF NamesKept, Mine
    <3> QED
      BY <3>1, <3>2
  <2> QED
    BY <2>1, <2>2, <2>3 DEF NamesKept, Mine
<1>12. Alone'
  BY <1>4, <1>5 DEF Alone, Mine, Fetching, Open
<1>13. FetchInOrder'
  <2> SUFFICES ASSUME NEW k \in Job, job'[k].phase \in {"request", "writing"}, Mine(k) \notin spoiled
               PROVE  /\ job'[k].phase = "request" => partial'[Mine(k)] = None
                      /\ job'[k].phase = "writing" =>
                            /\ job'[k].handle = k
                            /\ partial'[Mine(k)] = k
                            /\ \A i \in 1 .. job'[k].at : data'[k][i] = job[k].file
    BY <1>8 DEF FetchInOrder, Mine, Open
  <2>1. CASE k = j
    BY <2>1, <1>3, <1>5, <1>6
  <2>2. CASE k # j
    <3>1. job'[k] = job[k] /\ Mine(k) # Mine(j)
      BY <2>2, <1>4 DEF Alone, Fetching, Open
    <3>2. Mine(k) \in Name /\ k # c
      BY <3>1, <1>2, JobFacts, WorkerAssumption DEF Mine, JobsStarted
    <3> QED
      BY <3>1, <3>2, <1>6, <1>7 DEF FetchInOrder
  <2> QED
    BY <2>1, <2>2
<1>14. \A f \in File : dest[f] # None /\ Partial[f] \notin spoiled => dest[f] # c /\ dest[f] # j
  BY <1>2, <1>3 DEF NamesKept, DestinationsFinished, Open
<1>15. DestinationsFinished' /\ DestinationsComplete'
  <2>1. dest' = dest /\ spoiled' = spoiled
    BY DEF Open
  <2>2. \A f \in File : dest[f] # None /\ Partial[f] \notin spoiled =>
            job'[dest[f]] = job[dest[f]] /\ data'[dest[f]] = data[dest[f]]
    BY <1>14, <1>4, <1>7, ContentFacts
  <2> QED
    BY <2>1, <2>2 DEF DestinationsFinished, DestinationsComplete, Complete
<1> QED
  BY <1>9, <1>10, <1>11, <1>12, <1>13, <1>15

\* A task advances in its own content, or in one that is spoiled.
LEMMA WriteKeeps ==
    ASSUME WorkerInv, NEW j \in Job, Write(j)
    PROVE  WorkerInv'
<1> USE DEF WorkerInv
<1> DEFINE h == job[j].handle
           n == job[j].at + 1
<1>1. job[j].file \in File /\ h \in Job /\ Mine(h) = Mine(j) /\ n \in 1 .. Chunks
  BY JobFacts, ContentFacts, WorkerAssumption DEF Write, JobsStarted, NamesKept
<1>2. Mine(j) \notin spoiled => h = j
  BY DEF FetchInOrder, Write
<1>3. /\ job'[j] = [job[j] EXCEPT !.at = n]
      /\ \A k \in Job : k # j => job'[k] = job[k]
      /\ job' \in [Job -> JobState]
  <2>1. [job[j] EXCEPT !.at = n] \in JobState
    BY <1>1, JobFacts, WorkerAssumption DEF JobState
  <2> QED
    BY <2>1 DEF TypeOK, Write
<1>4. /\ job'[j].phase = "writing" /\ job'[j].handle = h
      /\ job'[j].file = job[j].file /\ job'[j].at = n
  BY <1>3, JobFacts DEF JobState, Write
<1>5. /\ data' \in [Content -> Data]
      /\ data'[h] = [data[h] EXCEPT ![n] = job[j].file]
      /\ \A d \in Job : d # h => data'[d] = data[d]
  <2>1. [data[h] EXCEPT ![n] = job[j].file] \in Data
    BY <1>1 DEF TypeOK, Data, Content
  <2> QED
    BY <1>1, <2>1 DEF Write, TypeOK, Content
<1>6. TypeOK'
  BY <1>3, <1>5 DEF TypeOK, Write
<1>7. JobsStarted'
  BY <1>3, <1>4, <1>1, WorkerAssumption DEF JobsStarted
<1>8. NamesKept'
  BY <1>3, <1>4, NamesFacts DEF Write
<1>9. Alone'
  BY <1>3, <1>4 DEF Alone, Mine, Fetching, Write
<1>10. FetchInOrder'
  <2> SUFFICES ASSUME NEW k \in Job, job'[k].phase \in {"request", "writing"}, Mine(k) \notin spoiled
               PROVE  /\ job'[k].phase = "request" => partial[Mine(k)] = None
                      /\ job'[k].phase = "writing" =>
                            /\ job'[k].handle = k
                            /\ partial[Mine(k)] = k
                            /\ \A i \in 1 .. job'[k].at : data'[k][i] = job[k].file
    BY <1>3, <1>4 DEF FetchInOrder, Mine, Write
  <2>1. CASE k = j
    <3>1. h = j /\ partial[Mine(j)] = j /\ \A i \in 1 .. job[j].at : data[j][i] = job[j].file
      BY <2>1 DEF FetchInOrder, Write
    <3>2. data[j] \in Data
      BY DEF TypeOK, Content
    <3>3. \A i \in 1 .. n : data'[j][i] = job[j].file
      <4> TAKE i \in 1 .. n
      <4>1. i \in 1 .. Chunks /\ (i = n \/ i \in 1 .. job[j].at)
        BY <1>1, JobFacts, WorkerAssumption
      <4>2. data'[j] = [data[j] EXCEPT ![n] = job[j].file]
        BY <3>1, <1>5
      <4>3. data[j] \in [1 .. Chunks -> File \cup {None}]
        BY <3>2 DEF Data
      <4>4. data'[j][i] = IF i = n THEN job[j].file ELSE data[j][i]
        BY <4>1, <4>2, <4>3
      <4> QED
        BY <4>1, <4>4, <3>1
    <3> QED
      BY <2>1, <3>1, <3>3, <1>4
  <2>2. CASE k # j
    <3>1. job'[k] = job[k] /\ Mine(k) # Mine(j)
      BY <2>2, <1>3 DEF Alone, Fetching, Write
    <3>2. k # h
      BY <3>1, <1>1
    <3> QED
      BY <3>1, <3>2, <1>5 DEF FetchInOrder
  <2> QED
    BY <2>1, <2>2
<1>11. \A f \in File : dest[f] # None /\ Partial[f] \notin spoiled => dest[f] # h /\ dest[f] # j
  BY <1>1, <1>2 DEF NamesKept, DestinationsFinished, Write
<1>12. DestinationsFinished' /\ DestinationsComplete'
  <2>1. dest' = dest /\ spoiled' = spoiled
    BY DEF Write
  <2>2. \A f \in File : dest[f] # None /\ Partial[f] \notin spoiled =>
            job'[dest[f]] = job[dest[f]] /\ data'[dest[f]] = data[dest[f]]
    BY <1>11, <1>3, <1>5, ContentFacts
  <2> QED
    BY <2>1, <2>2 DEF DestinationsFinished, DestinationsComplete, Complete
<1> QED
  BY <1>6, <1>7, <1>8, <1>9, <1>10, <1>12
\* A lost last write spoils the name of the task that lost it.
LEMMA LastWriteKeeps ==
    ASSUME WorkerInv, NEW j \in Job, LastWriteFails(j)
    PROVE  WorkerInv'
<1> USE DEF WorkerInv
<1>1. job[j].file \in File /\ Mine(j) \in Name
  BY JobFacts, WorkerAssumption DEF LastWriteFails, JobsStarted, Mine
<1>2. /\ job'[j] = [job[j] EXCEPT !.at = Chunks]
      /\ \A k \in Job : k # j => job'[k] = job[k]
      /\ job' \in [Job -> JobState]
  <2>1. [job[j] EXCEPT !.at = Chunks] \in JobState
    BY JobFacts, WorkerAssumption DEF JobState
  <2> QED
    BY <2>1 DEF TypeOK, LastWriteFails
<1>3. /\ job'[j].phase = job[j].phase /\ job'[j].handle = job[j].handle
      /\ job'[j].file = job[j].file
  BY <1>2, JobFacts DEF JobState
<1>4. spoiled' \subseteq Name /\ spoiled \subseteq spoiled' /\ Mine(j) \in spoiled'
  BY <1>1 DEF LastWriteFails, TypeOK
<1>5. TypeOK'
  BY <1>2, <1>4, FaultFacts DEF TypeOK, LastWriteFails
<1>6. JobsStarted'
  BY <1>2, <1>3 DEF JobsStarted, LastWriteFails
<1>7. NamesKept'
  BY <1>2, <1>3, NamesFacts DEF LastWriteFails
<1>8. Alone'
  <2>1. \A k \in Job : job'[k].phase = job[k].phase /\ job'[k].file = job[k].file
    BY <1>2, <1>3
  <2> QED
    BY <1>4, <2>1 DEF Alone, Mine
<1>9. FetchInOrder'
  BY <1>2, <1>3, <1>4 DEF FetchInOrder, Mine, LastWriteFails
<1>10. \A k \in Job : job'[k].phase = job[k].phase
  BY <1>2, <1>3
<1>11. DestinationsFinished' /\ DestinationsComplete'
  BY <1>4, <1>10, ContentFacts DEF DestinationsFinished, DestinationsComplete, Complete, LastWriteFails
<1> QED
  BY <1>5, <1>6, <1>7, <1>8, <1>9, <1>11

\* The rename of a name that is not spoiled moves a content its task completed.
LEMMA RenameKeeps ==
    ASSUME WorkerInv, NEW j \in Job, Rename(j)
    PROVE  WorkerInv'
<1> USE DEF WorkerInv
<1> DEFINE c == partial[Mine(j)]
           f == job[j].file
<1>1. f \in File /\ Mine(j) \in Name
  BY JobFacts, WorkerAssumption DEF Rename, JobsStarted, Mine
<1>2. c \in Job /\ c # None /\ job[c].file # None /\ Mine(c) = Mine(j)
  BY <1>1, ContentFacts DEF NamesKept, Rename
<1>3. /\ job' \in [Job -> JobState]
      /\ job'[j].phase = "switch"
      /\ \A k \in Job : /\ job'[k].file = job[k].file
                        /\ job'[k].handle = job[k].handle
                        /\ job'[k].at = job[k].at
                        /\ k # j => job'[k].phase = job[k].phase
  BY ToFacts DEF Rename, Phase
<1>4. /\ partial' \in [Name -> Content \cup {None}]
      /\ partial'[Mine(j)] = None
      /\ \A p \in Name : p # Mine(j) => partial'[p] = partial[p]
  BY <1>1 DEF Rename, TypeOK
<1>5. /\ dest' \in [File -> Content \cup {None}]
      /\ dest'[f] = c
      /\ \A g \in File : g # f => dest'[g] = dest[g]
  BY <1>1, <1>2 DEF Rename, TypeOK, Content
<1>6. data' = data /\ spoiled' = spoiled
  BY DEF Rename
<1>7. TypeOK'
  BY <1>3, <1>4, <1>5 DEF TypeOK, Rename
<1>8. JobsStarted'
  BY <1>3 DEF JobsStarted, Rename
<1>9. NamesKept'
  <2>1. \A p \in Name : partial'[p] # None =>
            job'[partial'[p]].file # None /\ Partial[job'[partial'[p]].file] = p
    BY <1>3, <1>4, ContentFacts DEF NamesKept, Mine
  <2>2. \A g \in File : dest'[g] # None =>
            job'[dest'[g]].file # None /\ Partial[job'[dest'[g]].file] = Partial[g]
    <3> TAKE g \in File
    <3>1. CASE g = f
      <4>1. dest'[g] = c /\ job'[c].file = job[c].file
        BY <3>1, <1>2, <1>3, <1>5
      <4> QED
        BY <3>1, <4>1, <1>2 DEF Mine
    <3>2. CASE g # f
      BY <3>2, <1>3, <1>5, ContentFacts DEF NamesKept, Mine
    <3> QED
      BY <3>1, <3>2
  <2>3. \A k \in Job : job'[k].phase = "writing" =>
            /\ job'[k].handle # None
            /\ job'[job'[k].handle].file # None
            /\ Partial[job'[job'[k].handle].file] = Partial[job'[k].file]
    BY <1>3, ContentFacts DEF NamesKept, Mine
  <2> QED
    BY <2>1, <2>2, <2>3 DEF NamesKept, Mine
<1>10. Alone'
  BY <1>3, <1>6 DEF Alone, Mine, Fetching
<1>11. FetchInOrder'
  <2> SUFFICES ASSUME NEW k \in Job, job'[k].phase \in {"request", "writing"}, Mine(k) \notin spoiled
               PROVE  /\ job'[k].phase = "request" => partial'[Mine(k)] = None
                      /\ job'[k].phase = "writing" =>
                            /\ job[k].handle = k
                            /\ partial'[Mine(k)] = k
                            /\ \A i \in 1 .. job[k].at : data[k][i] = job[k].file
    BY <1>3, <1>6 DEF FetchInOrder, Mine
  <2>1. k # j /\ job[k].phase = job'[k].phase
    BY <1>3
  <2>2. Mine(k) # Mine(j)
    BY <2>1 DEF Alone, Fetching, Rename
  <2>3. Mine(k) \in Name
    BY <2>1, JobFacts, WorkerAssumption DEF Mine, JobsStarted
  <2> QED
    BY <2>1, <2>2, <2>3, <1>4 DEF FetchInOrder
<1>12. Mine(j) \notin spoiled => c = j /\ Complete(j, f)
  <2> SUFFICES ASSUME Mine(j) \notin spoiled PROVE c = j /\ Complete(j, f)
    OBVIOUS
  <2>1. c = j /\ \A i \in 1 .. Chunks : data[j][i] = f
    BY DEF FetchInOrder, Rename
  <2>2. data[j] \in Data
    BY DEF TypeOK, Content
  <2>3. data[j] = [i \in 1 .. Chunks |-> f]
    BY <2>1, <2>2 DEF Data
  <2> QED
    BY <2>1, <2>3 DEF Complete
<1>13. DestinationsFinished'
  <2> SUFFICES ASSUME NEW g \in File, dest'[g] # None, Partial[g] \notin spoiled
               PROVE  job'[dest'[g]].phase \in {"switch", "done"}
    BY <1>6 DEF DestinationsFinished
  <2>1. CASE g = f
    BY <2>1, <1>3, <1>5, <1>12 DEF Mine
  <2>2. CASE g # f
    BY <2>2, <1>3, <1>5, ContentFacts DEF DestinationsFinished
  <2> QED
    BY <2>1, <2>2
<1>14. DestinationsComplete'
  <2> SUFFICES ASSUME NEW g \in File, dest'[g] # None, Partial[g] \notin spoiled
               PROVE  Complete(dest'[g], g)
    BY <1>6 DEF DestinationsComplete, Complete
  <2>1. CASE g = f
    BY <2>1, <1>5, <1>12 DEF Mine
  <2>2. CASE g # f
    BY <2>2, <1>5 DEF DestinationsComplete
  <2> QED
    BY <2>1, <2>2
<1> QED
  BY <1>7, <1>8, <1>9, <1>10, <1>11, <1>13, <1>14

\* A restart ends every task; only the files survive.
LEMMA RestartKeeps ==
    ASSUME WorkerInv, Restart
    PROVE  WorkerInv'
<1> USE DEF WorkerInv
<1>1. \A j \in Job : /\ job'[j] \in JobState
                     /\ job'[j].file = job[j].file
                     /\ job'[j].at = job[j].at
                     /\ job'[j].phase = IF job[j].phase = "new" THEN "new" ELSE "done"
  <2> TAKE j \in Job
  <2>1. job'[j] = IF job[j].phase = "new" THEN job[j] ELSE [job[j] EXCEPT !.phase = "done"]
    BY DEF Restart
  <2>2. [job[j] EXCEPT !.phase = "done"] \in JobState
    BY JobFacts DEF JobState, Phase
  <2> QED
    BY <2>1, <2>2, JobFacts DEF JobState
<1>2. job' \in [Job -> JobState]
  BY <1>1 DEF Restart
<1>3. NoChild \in Supervisor
  BY DEF NoChild, Supervisor
<1>4. TypeOK'
  BY <1>2, <1>3, FaultFacts DEF TypeOK, Restart
<1>5. JobsStarted'
  BY <1>1 DEF JobsStarted
<1>6. NamesKept'
  BY <1>1, NamesFacts DEF Restart
<1>7. Alone' /\ FetchInOrder'
  BY <1>1 DEF Alone, Fetching, FetchInOrder
<1>8. DestinationsFinished' /\ DestinationsComplete'
  BY <1>1, ContentFacts DEF DestinationsFinished, DestinationsComplete, Complete, Restart
<1> QED
  BY <1>4, <1>5, <1>6, <1>7, <1>8

\* The invariant does not depend on the supervisor.
LEMMA IdleKeeps ==
    ASSUME WorkerInv, sup' \in Supervisor, faults' \in 0 .. MaxFaults,
           UNCHANGED <<dest, partial, data, job, spoiled>>
    PROVE  WorkerInv'
<1> USE DEF WorkerInv
<1>1. TypeOK'
  BY DEF TypeOK
<1>2. JobsStarted'
  BY DEF JobsStarted
<1>3. NamesKept'
  BY NamesFacts
<1>4. Alone'
  BY DEF Alone, Mine
<1>5. FetchInOrder'
  BY DEF FetchInOrder, Mine
<1>6. DestinationsFinished' /\ DestinationsComplete'
  BY DEF DestinationsFinished, DestinationsComplete, Complete
<1> QED
  BY <1>1, <1>2, <1>3, <1>4, <1>5, <1>6

LEMMA NextWorker == WorkerInv /\ [Next]_vars => WorkerInv'
<1> SUFFICES ASSUME WorkerInv, [Next]_vars PROVE WorkerInv'
  OBVIOUS
<1>t. /\ TypeOK
      /\ sup \in Supervisor /\ NoChild \in Supervisor /\ faults \in 0 .. MaxFaults
  BY DEF WorkerInv, TypeOK, NoChild, Supervisor
<1>1. ASSUME NEW j \in Job, JobNext(j) PROVE WorkerInv'
  <2>1. CASE \E f \in File : load_model(j, f)
    BY <2>1, LoadKeeps
  <2>2. CASE Cached(j)
    BY <2>2, <1>t, LeaveKeeps DEF Cached
  <2>3. CASE NotCached(j)
    BY <2>3, NotCachedKeeps
  <2>4. CASE CleanPartial(j)
    BY <2>4, CleanKeeps
  <2>5. CASE Open(j)
    BY <2>5, OpenKeeps
  <2>6. CASE Write(j)
    BY <2>6, WriteKeeps
  <2>7. CASE LastWriteFails(j)
    BY <2>7, LastWriteKeeps
  <2>8. CASE DownloadFails(j)
    BY <2>8, <1>t, FaultFacts, LeaveKeeps DEF DownloadFails
  <2>9. CASE Rename(j)
    BY <2>9, RenameKeeps
  <2>10. CASE RenameFails(j)
    BY <2>10, <1>t, LeaveKeeps DEF RenameFails
  <2>11. CASE switch_inner(j)
    <3>1. sup' \in Supervisor
      BY <2>11, <1>t, JobFacts DEF switch_inner, Supervisor
    <3> QED
      BY <2>11, <3>1, <1>t, LeaveKeeps DEF switch_inner
  <2>12. CASE SwitchFails(j)
    BY <2>12, <1>t, FaultFacts, LeaveKeeps DEF SwitchFails
  <2> QED
    BY <1>1, <2>1, <2>2, <2>3, <2>4, <2>5, <2>6, <2>7, <2>8, <2>9, <2>10, <2>11, <2>12 DEF JobNext
<1>2. CASE ChildExits
  <2>1. sup' \in Supervisor
    BY <1>2, <1>t DEF ChildExits, Supervisor
  <2> QED
    BY <1>2, <2>1, <1>t, IdleKeeps DEF ChildExits
<1>3. CASE Restart
  BY <1>3, RestartKeeps
<1>4. CASE UNCHANGED vars
  BY <1>4, <1>t, IdleKeeps DEF vars
<1> QED
  BY <1>1, <1>2, <1>3, <1>4 DEF Next

\* A model file is complete, whatever downloads fail, are retried or are cut off
\* by a crash, as long as no two tasks used its .partial name at the same time
\* and no last write was lost (model_downloader.rs, fetch).
THEOREM DownloadsAtomic == Spec => []DestinationsComplete
<1>1. WorkerInv => DestinationsComplete
  BY DEF WorkerInv
<1> QED
  BY InitWorker, NextWorker, <1>1, PTL DEF Spec

\* Tasks, files and the child keep their types.
THEOREM WorkerTyped == Spec => []TypeOK
<1>1. WorkerInv => TypeOK
  BY DEF WorkerInv
<1> QED
  BY InitWorker, NextWorker, <1>1, PTL DEF Spec

-----------------------------------------------------------------------------
(* Worker implements LoadJobs. *)

IsOpen(j) == job[j].phase \notin {"new", "done"}

Accepted(j) == [req |-> j, model |-> job[j].file]

\* What Worker shows of its tasks.
OpenJobs == {Accepted(j) : j \in {k \in Job : IsOpen(k)}}

\* The state functions of the refinement mapping have one node.
LEMMA OneNode ==
    ASSUME NEW x, NEW y
    PROVE  /\ [n \in {"worker"} |-> x]["worker"] = x
           /\ [[n \in {"worker"} |-> x] EXCEPT !["worker"] = y] = [n \in {"worker"} |-> y]
OBVIOUS

LEMMA MapJobs ==
    /\ [n \in {"worker"} |->
          {[req |-> j, model |-> job[j].file] :
              j \in {k \in Job : job[k].phase \notin {"new", "done"}}}]
        = [n \in {"worker"} |-> OpenJobs]
    /\ [n \in {"worker"} |->
          {[req |-> j, model |-> job'[j].file] :
              j \in {k \in Job : job'[k].phase \notin {"new", "done"}}}]
        = [n \in {"worker"} |-> OpenJobs']
BY DEF OpenJobs, Accepted, IsOpen

\* A task of which the outside sees nothing.
LEMMA OpenSame ==
    ASSUME \A k \in Job : /\ IsOpen(k)' <=> IsOpen(k)
                          /\ IsOpen(k) => job'[k].file = job[k].file
    PROVE  OpenJobs' = OpenJobs
<1>1. {k \in Job : IsOpen(k)'} = {k \in Job : IsOpen(k)}
  OBVIOUS
<1>2. \A k \in {i \in Job : IsOpen(i)} : Accepted(k)' = Accepted(k)
  BY DEF Accepted
<1>3. \A x : x \in OpenJobs' <=> \E k \in {i \in Job : IsOpen(i)'} : x = Accepted(k)'
  BY DEF OpenJobs
<1>4. \A x : x \in OpenJobs <=> \E k \in {i \in Job : IsOpen(i)} : x = Accepted(k)
  BY DEF OpenJobs
<1> HIDE DEF Accepted
<1>5. \A x : x \in OpenJobs' <=> x \in OpenJobs
  BY <1>1, <1>2, <1>3, <1>4
<1> QED
  BY <1>5

\* A task that ends.
LEMMA OpenEnds ==
    ASSUME NEW j \in Job, IsOpen(j), ~IsOpen(j)',
           \A k \in Job : job'[k].file = job[k].file,
           \A k \in Job : k # j => (IsOpen(k)' <=> IsOpen(k))
    PROVE  /\ Accepted(j) \in OpenJobs
           /\ OpenJobs' = OpenJobs \ {Accepted(j)}
<1>1. \A k \in Job : Accepted(k)' = Accepted(k)
  BY DEF Accepted
<1>2. \A k \in Job : k # j => Accepted(k) # Accepted(j)
  BY DEF Accepted
<1>3. \A x : x \in OpenJobs' <=> \E k \in Job : IsOpen(k)' /\ x = Accepted(k)'
  BY DEF OpenJobs
<1>4. \A x : x \in OpenJobs <=> \E k \in Job : IsOpen(k) /\ x = Accepted(k)
  BY DEF OpenJobs
<1>5. \A x : x \in OpenJobs' <=> x \in OpenJobs /\ x # Accepted(j)
  BY <1>1, <1>2, <1>3, <1>4
<1> QED
  BY <1>4, <1>5

\* A request that is accepted.
LEMMA OpenStarts ==
    ASSUME NEW j \in Job, ~IsOpen(j), IsOpen(j)',
           \A k \in Job : k # j => job'[k] = job[k]
    PROVE  /\ \A a \in OpenJobs : a.req # j
           /\ OpenJobs' = OpenJobs \cup {Accepted(j)'}
<1>1. \A k \in Job : k # j => Accepted(k)' = Accepted(k) /\ (IsOpen(k)' <=> IsOpen(k))
  BY DEF Accepted, IsOpen
<1>3. \A x : x \in OpenJobs' <=> \E k \in Job : IsOpen(k)' /\ x = Accepted(k)'
  BY DEF OpenJobs
<1>4. \A x : x \in OpenJobs <=> \E k \in Job : IsOpen(k) /\ x = Accepted(k)
  BY DEF OpenJobs
<1>5. \A x : x \in OpenJobs' <=> x \in OpenJobs \/ x = Accepted(j)'
  BY <1>1, <1>3, <1>4
<1>6. \A a \in OpenJobs : a.req # j
  <2>1. \A k \in Job : Accepted(k).req = k
    BY DEF Accepted
  <2> QED
    BY <1>4, <2>1
<1> QED
  BY <1>5, <1>6

\* The actions of LoadJobs, in terms of OpenJobs and the supervisor.
LEMMA MapAccept ==
    ASSUME NEW a, \A b \in OpenJobs : b.req # a.req, OpenJobs' = OpenJobs \cup {a},
           UNCHANGED sup
    PROVE  J!Accept("worker", a)
BY MapJobs, OneNode DEF J!Accept

LEMMA MapEnd ==
    ASSUME NEW a \in OpenJobs, OpenJobs' = OpenJobs \ {a}
    PROVE  /\ sup'.model = a.model => J!Switch("worker", a)
           /\ UNCHANGED sup => J!Fail("worker", a)
           /\ sup'.model = None => J!SwitchFails("worker", a)
<1>1. J!End("worker", a)
  BY MapJobs, OneNode DEF J!End
<1> QED
  BY <1>1, OneNode DEF J!Switch, J!Fail, J!SwitchFails

LEMMA MapDie ==
    ASSUME OpenJobs' = {}, sup'.model = None
    PROVE  J!Die("worker")
BY MapJobs, OneNode DEF J!Die

LEMMA WorkerRefinesInit == Init => J!Init
<1> SUFFICES ASSUME Init PROVE J!Init
  OBVIOUS
<1>1. \A k \in Job : ~IsOpen(k)
  BY DEF Init, NewJob, IsOpen
<1>2. OpenJobs = {}
  BY <1>1 DEF OpenJobs
<1>3. sup.model = None
  BY DEF Init, NoChild
<1> QED
  BY <1>2, <1>3, MapJobs DEF J!Init

\* The end of task j.
LEMMA WorkerRefinesEnd ==
    ASSUME WorkerInv, NEW j \in Job, IsOpen(j), To(j, "done"),
           sup'.model = job[j].file \/ UNCHANGED sup \/ sup'.model = None
    PROVE  J!Next
<1>t. TypeOK /\ JobsStarted
  BY DEF WorkerInv
<1>1. Accepted(j) \in J!Accepted /\ Accepted(j).model = job[j].file
  BY <1>t, JobFacts DEF JobsStarted, IsOpen, Accepted, J!Accepted
<1>2. /\ job'[j].phase = "done"
      /\ \A k \in Job : job'[k].file = job[k].file
      /\ \A k \in Job : k # j => job'[k].phase = job[k].phase
  BY <1>t, ToFacts DEF Phase
<1>3. Accepted(j) \in OpenJobs /\ OpenJobs' = OpenJobs \ {Accepted(j)}
  BY <1>2, OpenEnds DEF IsOpen
<1>4. \/ J!Switch("worker", Accepted(j))
      \/ J!Fail("worker", Accepted(j))
      \/ J!SwitchFails("worker", Accepted(j))
  BY <1>1, <1>3, MapEnd
<1> QED
  BY <1>1, <1>4 DEF J!Next

\* What moves a task on without ending it.
LEMMA WorkerRefinesStay ==
    ASSUME \A k \in Job : /\ IsOpen(k)' <=> IsOpen(k)
                          /\ IsOpen(k) => job'[k].file = job[k].file,
           sup'.model = sup.model
    PROVE  UNCHANGED J!vars
<1>1. OpenJobs' = OpenJobs
  BY OpenSame
<1> QED
  BY <1>1, MapJobs DEF J!vars

LEMMA WorkerRefinesStep == WorkerInv /\ [Next]_vars => [J!Next]_J!vars
<1> SUFFICES ASSUME WorkerInv, [Next]_vars PROVE J!Next \/ UNCHANGED J!vars
  OBVIOUS
<1>t. TypeOK /\ JobsStarted
  BY DEF WorkerInv
<1>1. ASSUME NEW j \in Job, NEW f \in File, load_model(j, f) PROVE J!Next
  <2>1. /\ job[j].phase = "new" /\ UNCHANGED sup
        /\ job'[j].phase = "start" /\ job'[j].file = f
        /\ \A k \in Job : k # j => job'[k] = job[k]
    BY <1>t, <1>1, JobFacts DEF load_model, TypeOK, JobState
  <2>2. /\ \A a \in OpenJobs : a.req # j
        /\ OpenJobs' = OpenJobs \cup {Accepted(j)'}
    BY <2>1, OpenStarts DEF IsOpen
  <2>3. Accepted(j)' = [req |-> j, model |-> f]
    BY <2>1 DEF Accepted
  <2>4. J!Accept("worker", [req |-> j, model |-> f])
    BY <2>1, <2>2, <2>3, MapAccept
  <2>5. [req |-> j, model |-> f] \in J!Accepted
    BY DEF J!Accepted
  <2> QED
    BY <2>4, <2>5 DEF J!Next
<1>2. ASSUME NEW j \in Job, NEW ph \in Phase \ {"new", "done"}, IsOpen(j), To(j, ph), UNCHANGED sup
      PROVE  UNCHANGED J!vars
  BY <1>2, <1>t, ToFacts, WorkerRefinesStay DEF IsOpen
<1>3. ASSUME NEW j \in Job, Cached(j) \/ NotCached(j) \/ CleanPartial(j) \/ Rename(j)
      PROVE  UNCHANGED J!vars
  BY <1>2, <1>3 DEF Cached, NotCached, CleanPartial, Rename, Phase, IsOpen
<1>4. ASSUME NEW j \in Job, Open(j) PROVE UNCHANGED J!vars
  <2>1. /\ job[j].phase = "request" /\ UNCHANGED sup
        /\ job'[j].phase = "writing" /\ job'[j].file = job[j].file
        /\ \A k \in Job : k # j => job'[k] = job[k]
    BY <1>t, <1>4, JobFacts DEF Open, TypeOK, JobState
  <2> QED
    BY <2>1, WorkerRefinesStay DEF IsOpen
<1>5. ASSUME NEW j \in Job, Write(j) \/ LastWriteFails(j) PROVE UNCHANGED J!vars
  <2>1. PICK i : job' = [job EXCEPT ![j].at = i]
    BY <1>5 DEF Write, LastWriteFails
  <2>2. /\ job'[j].phase = job[j].phase /\ job'[j].file = job[j].file
        /\ \A k \in Job : k # j => job'[k] = job[k]
    BY <1>t, <2>1, JobFacts DEF TypeOK, JobState
  <2>3. UNCHANGED sup
    BY <1>5 DEF Write, LastWriteFails
  <2> QED
    BY <2>2, <2>3, WorkerRefinesStay DEF IsOpen
<1>6. ASSUME NEW j \in Job, DownloadFails(j) \/ RenameFails(j) PROVE J!Next
  BY <1>6, WorkerRefinesEnd DEF DownloadFails, RenameFails, IsOpen
<1>7. ASSUME NEW j \in Job, switch_inner(j) \/ SwitchFails(j) PROVE J!Next
  <2>1. /\ IsOpen(j) /\ To(j, "done")
        /\ sup'.model = job[j].file \/ sup'.model = None
    BY <1>7 DEF switch_inner, SwitchFails, IsOpen, NoChild
  <2> QED
    BY <2>1, WorkerRefinesEnd
<1>8. CASE ChildExits
  <2>1. sup'.model = sup.model /\ UNCHANGED job
    BY <1>8, <1>t DEF ChildExits, TypeOK, Supervisor
  <2> QED
    BY <2>1, WorkerRefinesStay DEF IsOpen
<1>9. CASE Restart
  <2>1. \A k \in Job : job'[k].phase \in {"new", "done"}
    BY <1>9, <1>t, JobFacts DEF Restart, JobState
  <2>2. OpenJobs' = {}
    <3>1. \A k \in Job : ~IsOpen(k)'
      BY <2>1 DEF IsOpen
    <3> QED
      BY <3>1 DEF OpenJobs
  <2>3. sup'.model = None
    BY <1>9 DEF Restart, NoChild
  <2>4. J!Die("worker")
    BY <2>2, <2>3, MapDie
  <2> QED
    BY <2>4 DEF J!Next
<1>10. CASE UNCHANGED vars
  BY <1>10, WorkerRefinesStay DEF vars, IsOpen
<1> QED
  BY <1>1, <1>3, <1>4, <1>5, <1>6, <1>7, <1>8, <1>9, <1>10 DEF Next, JobNext

\* What Models takes for granted: whatever the tasks do to one another's files, each
\* accepted load_model request ends once, by its own model, by none or by what was
\* advertised before, and a worker that starts again has neither tasks nor a model.
THEOREM WorkerKeepsPromise == Spec => JobsImplemented
BY InitWorker, NextWorker, WorkerRefinesInit, WorkerRefinesStep, PTL
   DEF Spec, JobsImplemented, J!Spec
=============================================================================
