----------------------------- MODULE VideoJobs -----------------------------
(***************************************************************************)
(* From a prompt to a video.  An app process charges the user, sends a     *)
(* message and remembers it in daemonMap (ApiPromptController.execute,     *)
(* AppDaemonService.send).  Every app process also runs the video daemon:  *)
(* its callback starts the work and returns nothing, so that the message   *)
(* is deleted while the work goes on (VideoDaemonService.execute).  The    *)
(* work ends with an answer on a second queue, which the processes consume *)
(* to take the request out of daemonMap; until then ready answers          *)
(* "loading".  An exception in the work is caught by nobody: it ends the   *)
(* process, with the work of all others in it.  Both loops end for good    *)
(* when a call of SQS fails: the process lives on without them.            *)
(* A definition marked "Fault" is used by no action: it is a plausible     *)
(* mistake in the definition after it, which a property must notice.       *)
(***************************************************************************)
EXTENDS Integers, Sequences, FiniteSets

CONSTANTS
    Requests,    \* prompts, numbered as they come; the number is the command_uuid
    Processes,   \* the app processes
    Deployments, \* the sets of processes that may make up the app
    MaxLoad,     \* bound: the prompts and the processes together
    MaxTime,     \* bound: the milliseconds that files are named after
    MaxFaults    \* bound: the deaths of processes, of any cause, and the calls of SQS
                 \* that fail in a loop

ASSUME JobsAssumption ==
    /\ Requests \subseteq Nat \ {0} /\ 0 \notin Processes
    /\ Deployments \subseteq SUBSET Processes
    /\ MaxTime \in Nat /\ MaxFaults \in Nat

VARIABLES
    req,       \* a request: the process it came to, and where execute is
    daemonMap, \* of each process: the requests it waits for
    deployed,  \* the processes that make up the app
    up,        \* those that run
    receiving, \* the processes whose loop over the messages runs
    consuming, \* the processes whose loop over the answers runs
    inQueue,   \* messages to the video daemon (a standard queue: no order)
    taken,     \* of each process: the message received and not yet deleted
    work,      \* the callbacks' work, in the order it was started
    prompts,   \* mc_prompt_history: has the row got its answer?
    videos,    \* mc_raw_video: the request, and the file name once it is stored
    store,     \* the S3 bucket: by folder and file name, whose video it is
    outQueue,  \* answers
    clock,     \* the millisecond after which a file was last named
    faults     \* the deaths and the failed calls so far

vars == <<req, daemonMap, deployed, up, receiving, consuming, inQueue, taken, work,
          prompts, videos, store, outQueue, clock, faults>>
processes == <<daemonMap, deployed, up, receiving, consuming, faults>>
rows == <<prompts, videos, store>>
queues == <<inQueue, taken, outQueue>>

None == 0
Folders == {"raw", "transformed"}
RowsOf(r) == {v \in DOMAIN videos : videos[v].req = r}

-----------------------------------------------------------------------------
Charged == {r \in Requests : req[r].phase # "new"}

\* execute: the charge, the message, the entry in the map.
Charge(r, p) ==
    /\ req[r].phase = "new" /\ p \in up /\ r = Cardinality(Charged) + 1
    /\ Cardinality(Charged) + Cardinality(deployed) < MaxLoad
    /\ req' = [req EXCEPT ![r] = [at |-> p, phase |-> "send"]]
    /\ UNCHANGED <<processes, queues, work, rows, clock>>

Produce(r) ==
    /\ req[r].phase = "send"
    /\ \/ inQueue' = inQueue \cup {r} /\ req' = [req EXCEPT ![r].phase = "set"]
       \/ inQueue' = inQueue /\ req' = [req EXCEPT ![r].phase = "refused"]
    /\ UNCHANGED <<processes, taken, outQueue, work, rows, clock>>

Remember(r) ==
    /\ req[r].phase = "set"
    /\ daemonMap' = [daemonMap EXCEPT ![req[r].at] = @ \cup {r}]
    /\ req' = [req EXCEPT ![r].phase = "answered"]
    /\ UNCHANGED <<deployed, up, receiving, consuming, faults, queues, work, rows, clock>>

\* ready changes nothing.  A request that is not in the map of the process that
\* is asked is taken to be complete, and the first row of it is returned.
Loading(r, p) == r \in daemonMap[p]
FirstRow(r) == CHOOSE v \in RowsOf(r) : \A w \in RowsOf(r) : v <= w
Ready(r, p) ==
    CASE Loading(r, p) -> "loading"
      [] ~Loading(r, p) /\ RowsOf(r) = {} -> "error"
      [] OTHER -> "complete"

-----------------------------------------------------------------------------
\* The loop of the video daemon: receive, call back, delete.
Left(r) == inQueue \ {r}
Receive(p, r) ==
    /\ p \in receiving /\ taken[p] = {} /\ r \in inQueue
    /\ inQueue' = Left(r) /\ taken' = [taken EXCEPT ![p] = {r}]
    /\ work' = Append(work, [req |-> r, at |-> p, step |-> "prompt",
                             prompt |-> None, video |-> None, name |-> None])
    /\ UNCHANGED <<req, processes, outQueue, rows, clock>>
DeleteMessage(p) ==
    /\ taken[p] # {}
    /\ taken' = [taken EXCEPT ![p] = {}]
    /\ UNCHANGED <<req, processes, inQueue, outQueue, work, rows, clock>>

\* A call of SQS fails: consume catches it outside its loop and returns, and
\* nothing calls it again.  A message that is not deleted is delivered again, to
\* another process or to this one after a restart, while its work goes on.
LoopEnds(p) ==
    /\ faults < MaxFaults /\ faults' = faults + 1
    /\ receiving' = receiving \ {p}
    /\ UNCHANGED <<req, daemonMap, deployed, up, consuming, outQueue, work, rows, clock>>
ReceiveFails(p) ==
    /\ p \in receiving /\ taken[p] = {}
    /\ LoopEnds(p) /\ UNCHANGED <<inQueue, taken>>
DeleteFails(p, deleted) ==
    /\ taken[p] # {}
    /\ inQueue' = IF deleted THEN inQueue ELSE inQueue \cup taken[p]
    /\ taken' = [taken EXCEPT ![p] = {}]
    /\ LoopEnds(p)

\* The work, one step for each call that is awaited and changes something.
At(w, step) == work[w].step = step
To(w, step) == work' = [work EXCEPT ![w].step = step]

PreparePrompt(w) ==
    /\ At(w, "prompt")
    /\ prompts' = Append(prompts, FALSE)
    /\ work' = [work EXCEPT ![w].prompt = Len(prompts) + 1, ![w].step = "video"]
    /\ UNCHANGED <<req, processes, queues, videos, store, clock>>
Row(w) == [req |-> work[w].req, prompt |-> work[w].prompt, name |-> None]
PrepareVideo(w) ==
    /\ At(w, "video")
    /\ videos' = Append(videos, Row(w))
    /\ work' = [work EXCEPT ![w].video = Len(videos) + 1, ![w].step = "complete"]
    /\ UNCHANGED <<req, processes, queues, prompts, store, clock>>
\* getVideoUrl, and the row gets the answer.
Complete(w) ==
    /\ At(w, "complete")
    /\ prompts' = [prompts EXCEPT ![work[w].prompt] = TRUE]
    /\ To(w, "metadata")
    /\ UNCHANGED <<req, processes, queues, videos, store, clock>>

\* transform: the file is named after the millisecond in which its metadata are
\* known, the one of the last file or a later one; the watermark is added before
\* the upload.
ExtractMetadata(w) ==
    /\ At(w, "metadata")
    /\ \E ms \in {clock, clock + 1} \cap 1 .. MaxTime :
          work' = [work EXCEPT ![w].name = ms, ![w].step = "upload"] /\ clock' = ms
    /\ UNCHANGED <<req, processes, queues, rows>>
Stored(w, folders) ==
    [f \in Folders |-> IF f \in folders
                       THEN [store[f] EXCEPT ![work[w].name] = work[w].req]
                       ELSE store[f]]
\* Fault: only a failure of both uploads is noticed.
UploadedFault(folders) == folders # {}
Uploaded(folders) == folders = Folders
Upload(w, folders) ==
    /\ At(w, "upload") /\ Uploaded(folders)
    /\ store' = Stored(w, folders)
    /\ To(w, "row")
    /\ UNCHANGED <<req, processes, queues, prompts, videos, clock>>

UpdateRow(w) ==
    /\ At(w, "row")
    /\ videos' = [videos EXCEPT ![work[w].video].name = work[w].name]
    /\ To(w, "result")
    /\ UNCHANGED <<req, processes, queues, prompts, store, clock>>

\* The answer follows the row.  produce catches what SQS throws.
\* Fault: the answer does not wait for transform.
AnswersFault(w) == work[w].step \in {"row", "result"}
Answers(w) == At(w, "result")
ProduceResult(w, sent) ==
    /\ Answers(w)
    /\ outQueue' = IF sent THEN outQueue \cup {w} ELSE outQueue
    /\ To(w, IF sent THEN "done" ELSE "unsent")
    /\ UNCHANGED <<req, processes, inQueue, taken, rows, clock>>

-----------------------------------------------------------------------------
\* The loop over the answers.  An answer to a request that is not in the map
\* throws, which ends the loop; the answer stays in the queue.
\* Fault: the request stays in the map.
ForgottenFault(p, r) == daemonMap[p]
Forgotten(p, r) == daemonMap[p] \ {r}
Consume(p, w) ==
    /\ p \in up /\ p \in consuming /\ w \in outQueue
    /\ IF work[w].req \in daemonMap[p]
       THEN /\ daemonMap' = [daemonMap EXCEPT ![p] = Forgotten(p, work[w].req)]
            /\ outQueue' = outQueue \ {w} /\ UNCHANGED consuming
       ELSE /\ consuming' = consuming \ {p} /\ UNCHANGED <<daemonMap, outQueue>>
    /\ UNCHANGED <<req, deployed, up, receiving, faults, inQueue, taken, work, rows, clock>>

\* The same loop in the hands of SQS: it ends where no answer is received, or
\* where the one that was called back is not deleted.
ConsumeFails(p) ==
    /\ p \in consuming /\ faults < MaxFaults
    /\ faults' = faults + 1
    /\ consuming' = consuming \ {p}
    /\ \/ UNCHANGED <<daemonMap, outQueue>>
       \/ \E w \in outQueue, deleted \in BOOLEAN :
             /\ work[w].req \in daemonMap[p]
             /\ daemonMap' = [daemonMap EXCEPT ![p] = Forgotten(p, work[w].req)]
             /\ outQueue' = IF deleted THEN outQueue \ {w} ELSE outQueue
    /\ UNCHANGED <<req, deployed, up, receiving, inQueue, taken, work, rows, clock>>

-----------------------------------------------------------------------------
\* A process ends: its memory is gone, and SQS delivers again what it received
\* and had not deleted.
Ended == {"done", "unsent", "lost"}
Die(p) ==
    /\ faults < MaxFaults /\ p \in up
    /\ faults' = faults + 1
    /\ up' = up \ {p} /\ receiving' = receiving \ {p} /\ consuming' = consuming \ {p}
    /\ daemonMap' = [daemonMap EXCEPT ![p] = {}]
    /\ inQueue' = inQueue \cup taken[p] /\ taken' = [taken EXCEPT ![p] = {}]
    /\ work' = [w \in DOMAIN work |-> IF work[w].at = p /\ work[w].step \notin Ended
                                      THEN [work[w] EXCEPT !.step = "lost"] ELSE work[w]]
    /\ req' = [r \in Requests |->
                  IF req[r].at # p THEN req[r]
                  ELSE CASE req[r].phase \in {"send", "set"} -> [req[r] EXCEPT !.phase = "lost"]
                         [] req[r].phase = "answered" -> [req[r] EXCEPT !.phase = "forgotten"]
                         [] OTHER -> req[r]]
    /\ UNCHANGED <<prompts, videos, outQueue, clock, deployed>>

Crash(p) == Die(p) /\ UNCHANGED store
\* A call to Pexels, ffmpeg or the database throws, or an upload fails, of
\* which the other one may have been stored.
WorkFails(w) ==
    /\ work[w].step \notin {"upload", "result"} \cup Ended
    /\ Die(work[w].at) /\ UNCHANGED store
UploadFails(w, folders) ==
    /\ At(w, "upload") /\ ~Uploaded(folders)
    /\ store' = Stored(w, folders)
    /\ Die(work[w].at)

Restart(p) ==
    /\ p \in deployed \ up
    /\ up' = up \cup {p} /\ receiving' = receiving \cup {p}
    /\ consuming' = consuming \cup {p}
    /\ UNCHANGED <<req, daemonMap, deployed, faults, queues, work, rows, clock>>

-----------------------------------------------------------------------------
Init ==
    /\ req = [r \in Requests |-> [at |-> None, phase |-> "new"]]
    /\ daemonMap = [p \in Processes |-> {}]
    /\ deployed \in Deployments
    /\ up = deployed /\ receiving = deployed /\ consuming = deployed
    /\ inQueue = {} /\ taken = [p \in Processes |-> {}] /\ outQueue = {}
    /\ work = <<>> /\ prompts = <<>> /\ videos = <<>>
    /\ store = [f \in Folders |-> [t \in 1 .. MaxTime |-> None]]
    /\ clock = 0 /\ faults = 0

Step(w) ==
    \/ PreparePrompt(w) \/ PrepareVideo(w) \/ Complete(w)
    \/ ExtractMetadata(w) \/ UpdateRow(w)
    \/ \E folders \in SUBSET Folders : Upload(w, folders)

Next ==
    \/ \E r \in Requests : Produce(r) \/ Remember(r)
    \/ \E r \in Requests, p \in Processes : Charge(r, p) \/ Receive(p, r)
    \/ \E p \in Processes :
          \/ DeleteMessage(p) \/ ReceiveFails(p) \/ ConsumeFails(p)
          \/ Crash(p) \/ Restart(p)
          \/ \E deleted \in BOOLEAN : DeleteFails(p, deleted)
    \/ \E p \in Processes, w \in DOMAIN work : Consume(p, w)
    \/ \E w \in DOMAIN work :
          \/ Step(w) \/ WorkFails(w)
          \/ \E sent \in BOOLEAN : ProduceResult(w, sent)
          \/ \E folders \in SUBSET Folders : UploadFails(w, folders)

Spec == Init /\ [][Next]_vars

\* Node goes on with every call that has returned and with its loops; nothing
\* says that it ever fails, that the user asks, or that a process starts again.
Fairness ==
    /\ \A r \in Requests : WF_vars(Produce(r)) /\ WF_vars(Remember(r))
    /\ \A p \in Processes :
          /\ WF_vars(DeleteMessage(p))
          /\ WF_vars(\E r \in Requests : Receive(p, r))
          /\ WF_vars(\E w \in DOMAIN work : Consume(p, w))
    /\ \A w \in 1 .. Cardinality(Requests) + Cardinality(Processes) + MaxFaults :
          WF_vars(w \in DOMAIN work /\ (Step(w) \/ ProduceResult(w, TRUE)))
FairSpec == Spec /\ Fairness

-----------------------------------------------------------------------------
\* Properties.

\* Every variable has its type: a piece of work goes through the steps, and
\* what it names after the clock can be stored.
Steps == {"prompt", "video", "complete", "metadata", "upload", "row", "result"} \cup Ended
Phases == {"new", "send", "set", "answered", "refused", "lost", "forgotten"}
Work == [req : Requests, at : Processes, step : Steps, prompt : Nat, video : Nat,
         name : 0 .. MaxTime]
Videos == [req : Requests, prompt : Nat, name : 0 .. MaxTime]
TypeOK ==
    /\ req \in [Requests -> [at : Processes \cup {None}, phase : Phases]]
    /\ daemonMap \in [Processes -> SUBSET Requests]
    /\ deployed \subseteq Processes /\ up \subseteq deployed
    /\ receiving \subseteq up /\ consuming \subseteq up
    /\ inQueue \subseteq Requests /\ taken \in [Processes -> SUBSET Requests]
    /\ work \in Seq(Work) /\ outQueue \subseteq DOMAIN work
    /\ prompts \in Seq(BOOLEAN) /\ videos \in Seq(Videos)
    /\ store \in [Folders -> [1 .. MaxTime -> Requests \cup {None}]]
    /\ clock \in 0 .. MaxTime /\ faults \in Nat

\* A process that is still the one the request came to answers "complete" only
\* for a video that is stored, unless the message was delivered twice, whatever
\* died meanwhile (ready, execute).
CompleteIsStored ==
    \A r \in Requests : \A p \in up :
        /\ req[r] = [at |-> p, phase |-> "answered"] /\ Cardinality(RowsOf(r)) = 1
        /\ Ready(r, p) = "complete"
        => videos[FirstRow(r)].name # None

\* A row that names a video follows a prompt that was completed, and both files
\* were stored before it was written; a file is another request's only if the
\* two were named in the same millisecond.
SameName(r, name) == \E w \in DOMAIN work : work[w].name = name /\ work[w].req # r
RowsHaveFiles ==
    \A v \in DOMAIN videos :
        videos[v].name # None =>
            /\ prompts[videos[v].prompt]
            /\ \A f \in Folders :
                  /\ store[f][videos[v].name] # None
                  /\ store[f][videos[v].name] = videos[v].req
                        \/ SameName(videos[v].req, videos[v].name)

\* The work for a request has ended, at least once without an answer: its
\* process died, or the answer could not be sent.
WorkOf(r) == {w \in DOMAIN work : work[w].req = r}
Abandoned(r) ==
    /\ \A w \in WorkOf(r) : work[w].step \in Ended
    /\ \E w \in WorkOf(r) : work[w].step # "done"

\* What was sent is made and stops loading, as long as one process receives: the
\* message is not lost between the queue, the callback and the answer, also when
\* other loops end or a message comes twice.  But for work that ended with its
\* process after the message was deleted, and a loop over the answers that has
\* ended in a process that runs, because a call failed, or an answer came before
\* its request was in the map or to a process that had not sent it.
Made(r) == \E v \in RowsOf(r) : videos[v].name # None
RequestsEnd ==
    \A r \in Requests :
        (req[r].phase = "set") ~>
            \/ req[r].phase # "set" /\ Made(r) /\ \A p \in Processes : ~Loading(r, p)
            \/ Abandoned(r) \/ receiving = {} \/ up \ consuming # {}

=============================================================================
