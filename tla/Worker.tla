------------------------------- MODULE Worker -------------------------------
(***************************************************************************)
(* What a worker does with load_model requests: the detached tasks of the  *)
(* control server (worker/src/control_server.rs), the downloader with its  *)
(* .partial files (worker/src/model_downloader.rs) and the supervisor of   *)
(* llama-server (worker/src/inference_server.rs).                          *)
(*                                                                         *)
(* The tasks share the models directory.  File names and file contents are *)
(* kept apart as the operating system does: a task writes to the content   *)
(* it opened, whatever has become of the name, and an open of an existing  *)
(* name empties the content other tasks may be writing to.  A content is   *)
(* named after the task that created it.                                   *)
(***************************************************************************)
EXTENDS Naturals

CONSTANTS
    Job,        \* load_model requests
    File,       \* local_filename values; each names the model it is meant for
    Name,       \* names of partial files
    Partial,    \* Partial[f]: f with its extension replaced
    None,       \* no content, no file
    Chunks,     \* chunks of a download
    MaxFaults   \* bound on failures and crashes

ASSUME WorkerAssumption ==
    /\ None \notin Job \cup File
    /\ Partial \in [File -> Name]
    /\ Chunks \in Nat \ {0}
    /\ MaxFaults \in Nat

VARIABLES
    dest,       \* dest[f]: the content under the name f
    partial,    \* partial[p]: the content under the partial name p
    data,       \* data[c]: the chunks of content c
    job,        \* job[j]: where the task of request j is
    sup,        \* the supervisor
    spoiled,    \* history: partial names that two tasks used at the same time,
                \* or that lost a last write
    faults      \* faults so far

vars == <<dest, partial, data, job, sup, spoiled, faults>>

-----------------------------------------------------------------------------

Content == Job

\* None is a hole: nothing was written there, or it was cut off.
Data == [1 .. Chunks -> File \cup {None}]

Empty == [i \in 1 .. Chunks |-> None]

Complete(c, f) == data[c] = [i \in 1 .. Chunks |-> f]

\* The steps of fetch, between its awaits, and of the switch that follows.
Phase == {"new", "start", "clean", "request", "writing", "switch", "done"}

Fetching == {"clean", "request", "writing"}

\* handle: the opened content; at: chunks written so far.
JobState == [phase : Phase, file : File \cup {None}, handle : Content \cup {None},
             at : 0 .. Chunks]

NewJob == [phase |-> "new", file |-> None, handle |-> None, at |-> 0]

\* model: what the heartbeat advertises.
Supervisor == [child : {"none", "running", "exited"}, model : File \cup {None}]

NoChild == [child |-> "none", model |-> None]

TypeOK ==
    /\ dest \in [File -> Content \cup {None}]
    /\ partial \in [Name -> Content \cup {None}]
    /\ data \in [Content -> Data]
    /\ job \in [Job -> JobState]
    /\ sup \in Supervisor
    /\ spoiled \subseteq Name
    /\ faults \in 0 .. MaxFaults

Init ==
    /\ dest = [f \in File |-> None]
    /\ partial = [p \in Name |-> None]
    /\ data = [c \in Content |-> Empty]
    /\ job = [j \in Job |-> NewJob]
    /\ sup = NoChild
    /\ spoiled = {}
    /\ faults = 0

Fault == faults < MaxFaults /\ faults' = faults + 1

To(j, phase) == job' = [job EXCEPT ![j].phase = phase]

\* The name of j's partial file.
Mine(j) == Partial[job[j].file]

-----------------------------------------------------------------------------
(* The control server and the downloader. *)

load_model(j, f) ==
    /\ job[j].phase = "new"
    /\ job' = [job EXCEPT ![j] = [@ EXCEPT !.phase = "start", !.file = f]]
    /\ UNCHANGED <<dest, partial, data, sup, spoiled, faults>>

\* fs::metadata of the destination: a file that is not empty counts as cached.
IsCached(f) == dest[f] # None /\ data[dest[f]] # Empty

Cached(j) ==
    /\ job[j].phase = "start"
    /\ IsCached(job[j].file)
    /\ To(j, "switch")
    /\ UNCHANGED <<dest, partial, data, sup, spoiled, faults>>

NotCached(j) ==
    /\ job[j].phase = "start"
    /\ ~IsCached(job[j].file)
    /\ To(j, "clean")
    /\ spoiled' = IF \E k \in Job : job[k].phase \in Fetching /\ Mine(k) = Mine(j)
                 THEN spoiled \cup {Mine(j)} ELSE spoiled
    /\ UNCHANGED <<dest, partial, data, sup, faults>>

\* remove_file of a leftover; who still writes to it is not affected.
CleanPartial(j) ==
    /\ job[j].phase = "clean"
    /\ partial' = [partial EXCEPT ![Mine(j)] = None]
    /\ To(j, "request")
    /\ UNCHANGED <<dest, data, sup, spoiled, faults>>

\* Hugging Face answers and File::create opens the partial file, emptied.
Open(j) ==
    LET c == IF partial[Mine(j)] = None THEN j ELSE partial[Mine(j)]
    IN  /\ job[j].phase = "request"
        /\ partial' = [partial EXCEPT ![Mine(j)] = c]
        /\ data' = [data EXCEPT ![c] = Empty]
        /\ job' = [job EXCEPT ![j] = [@ EXCEPT !.phase = "writing", !.handle = c]]
        /\ UNCHANGED <<dest, sup, spoiled, faults>>

\* Mutated: one chunk too many.
Write_Past(j) ==
    /\ job[j].phase = "writing"
    /\ job[j].at <= Chunks
    /\ data' = [data EXCEPT ![job[j].handle][job[j].at + 1] = job[j].file]
    /\ job' = [job EXCEPT ![j].at = @ + 1]
    /\ UNCHANGED <<dest, partial, sup, spoiled, faults>>

Write(j) ==
    /\ job[j].phase = "writing"
    /\ job[j].at < Chunks
    /\ data' = [data EXCEPT ![job[j].handle][job[j].at + 1] = job[j].file]
    /\ job' = [job EXCEPT ![j].at = @ + 1]
    /\ UNCHANGED <<dest, partial, sup, spoiled, faults>>

\* write_all only queues its bytes; when the last write fails, flush says so
\* and its result is dropped.
LastWriteFails(j) ==
    /\ job[j].phase = "writing"
    /\ job[j].at = Chunks - 1
    /\ Fault
    /\ job' = [job EXCEPT ![j].at = Chunks]
    /\ spoiled' = spoiled \cup {Mine(j)}
    /\ UNCHANGED <<dest, partial, data, sup>>

\* The models directory cannot be made, or the answer is an error or breaks
\* off; the partial file stays.
DownloadFails(j) ==
    /\ job[j].phase \in {"start", "request", "writing"}
    /\ Fault
    /\ To(j, "done")
    /\ UNCHANGED <<dest, partial, data, sup, spoiled>>

\* Mutated: the rename does not wait for the end of the stream.
Rename_Early(j) ==
    /\ job[j].phase = "writing"
    /\ partial[Mine(j)] # None
    /\ dest' = [dest EXCEPT ![job[j].file] = partial[Mine(j)]]
    /\ partial' = [partial EXCEPT ![Mine(j)] = None]
    /\ To(j, "switch")
    /\ UNCHANGED <<data, sup, spoiled, faults>>

\* The rename moves whatever is under the partial name by now.
Rename(j) ==
    /\ job[j].phase = "writing"
    /\ job[j].at = Chunks
    /\ partial[Mine(j)] # None
    /\ dest' = [dest EXCEPT ![job[j].file] = partial[Mine(j)]]
    /\ partial' = [partial EXCEPT ![Mine(j)] = None]
    /\ To(j, "switch")
    /\ UNCHANGED <<data, sup, spoiled, faults>>

RenameFails(j) ==
    /\ job[j].phase = "writing"
    /\ job[j].at = Chunks
    /\ partial[Mine(j)] = None
    /\ To(j, "done")
    /\ UNCHANGED <<dest, partial, data, sup, spoiled, faults>>

-----------------------------------------------------------------------------
(* The supervisor, under its mutex. *)

\* The file is there (fetch returned it): the old llama-server is stopped and a
\* new one started.
switch_inner(j) ==
    /\ job[j].phase = "switch"
    /\ dest[job[j].file] # None
    /\ sup' = [child |-> "running", model |-> job[j].file]
    /\ To(j, "done")
    /\ UNCHANGED <<dest, partial, data, spoiled, faults>>

\* llama-server does not start; its predecessor is stopped already.
SwitchFails(j) ==
    /\ job[j].phase = "switch"
    /\ Fault
    /\ sup' = NoChild
    /\ To(j, "done")
    /\ UNCHANGED <<dest, partial, data, spoiled>>

\* llama-server exits by itself, which nobody notices.
ChildExits ==
    /\ sup.child = "running"
    /\ sup' = [sup EXCEPT !.child = "exited"]
    /\ UNCHANGED <<dest, partial, data, job, spoiled, faults>>

\* Mutated: the new process advertises the model of its predecessor.
Restart_KeepsModel ==
    /\ Fault
    /\ job' = [j \in Job |-> IF job[j].phase = "new" THEN job[j]
                             ELSE [job[j] EXCEPT !.phase = "done"]]
    /\ sup' = [sup EXCEPT !.child = "none"]
    /\ UNCHANGED <<dest, partial, data, spoiled>>

\* The worker process dies and is started again: only the files survive.
Restart ==
    /\ Fault
    /\ job' = [j \in Job |-> IF job[j].phase = "new" THEN job[j]
                             ELSE [job[j] EXCEPT !.phase = "done"]]
    /\ sup' = NoChild
    /\ UNCHANGED <<dest, partial, data, spoiled>>

-----------------------------------------------------------------------------

JobNext(j) ==
    \/ \E f \in File : load_model(j, f)
    \/ Cached(j) \/ NotCached(j) \/ CleanPartial(j) \/ Open(j) \/ Write(j)
    \/ LastWriteFails(j) \/ DownloadFails(j) \/ Rename(j) \/ RenameFails(j)
    \/ switch_inner(j) \/ SwitchFails(j)

Next ==
    \/ \E j \in Job : JobNext(j)
    \/ ChildExits
    \/ Restart

Spec == Init /\ [][Next]_vars

-----------------------------------------------------------------------------
(* Properties. *)

\* model_downloader.rs:11-14 says that there is never a half-truncated file that
\* llama-server might try to load.  Through failures, crashes and retries a
\* destination holds its whole model, unless two tasks used its partial name at
\* the same time or a last write was lost.
DestinationsComplete ==
    \A f \in File : dest[f] # None /\ Partial[f] \notin spoiled => Complete(dest[f], f)

\* What makes it inductive.  Contents never move between partial names; two
\* tasks fetch under one name only if it is spoiled; under a name that is not,
\* a task finds no leftover when it opens the file, then writes to its own
\* content, and a destination holds the content of a finished task.
NamesKept ==
    /\ \A p \in Name : partial[p] # None =>
          job[partial[p]].file # None /\ Mine(partial[p]) = p
    /\ \A f \in File : dest[f] # None =>
          job[dest[f]].file # None /\ Mine(dest[f]) = Partial[f]
    /\ \A j \in Job : job[j].phase = "writing" =>
          /\ job[j].handle # None
          /\ job[job[j].handle].file # None
          /\ Mine(job[j].handle) = Mine(j)

Alone ==
    \A j, k \in Job :
        job[j].phase \in Fetching /\ job[k].phase \in Fetching /\ Mine(j) = Mine(k)
            => j = k \/ Mine(j) \in spoiled

FetchInOrder ==
    \A j \in Job :
        /\ job[j].phase = "request" /\ Mine(j) \notin spoiled => partial[Mine(j)] = None
        /\ job[j].phase = "writing" /\ Mine(j) \notin spoiled =>
              /\ job[j].handle = j
              /\ partial[Mine(j)] = j
              /\ \A i \in 1 .. job[j].at : data[j][i] = job[j].file

DestinationsFinished ==
    \A f \in File : dest[f] # None /\ Partial[f] \notin spoiled =>
        job[dest[f]].phase \in {"switch", "done"}

JobsStarted ==
    \A j \in Job : /\ job[j].phase = "new" <=> job[j].file = None
                   /\ job[j].phase \in {"new", "start", "clean", "request"} => job[j].at = 0

WorkerInv ==
    /\ TypeOK
    /\ JobsStarted
    /\ NamesKept
    /\ Alone
    /\ FetchInOrder
    /\ DestinationsFinished
    /\ DestinationsComplete

\* A request is open from its acceptance to its end; the worker is the only node.
J == INSTANCE LoadJobs WITH
        Node <- {"worker"},
        Request <- Job,
        Model <- File,
        jobs <- [n \in {"worker"} |->
                    {[req |-> j, model |-> job[j].file] :
                        j \in {k \in Job : job[k].phase \notin {"new", "done"}}}],
        serving <- [n \in {"worker"} |-> sup.model]

\* What the management backend relies on (module Models): whatever the tasks do
\* to one another's files, each accepted request ends once, by advertising its own
\* model, by leaving what was advertised or by advertising none, and a worker
\* that starts again has neither tasks nor a model.
JobsImplemented == J!Spec
=============================================================================
