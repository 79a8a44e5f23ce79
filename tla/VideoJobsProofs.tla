-------------------------- MODULE VideoJobsProofs --------------------------
(***************************************************************************)
(* Theorems about VideoJobs, for any requests, processes and deployments,  *)
(* and any number of deaths and failed calls: a row that names a video has  *)
(* its files and its prompt, and a process answers "complete" only for a    *)
(* stored video.                                                           *)
(***************************************************************************)
EXTENDS VideoJobs, TableLemmas, FiniteSetTheorems, SequenceTheorems, TLAPS

----------------------------------------------------------------------------
(* Types                                                                    *)

\* The parts of the type invariant.
Memory ==
    /\ req \in [Requests -> [at : Processes \cup {None}, phase : Phases]]
    /\ daemonMap \in [Processes -> SUBSET Requests]
    /\ deployed \subseteq Processes /\ up \subseteq deployed
    /\ receiving \subseteq up /\ consuming \subseteq up /\ faults \in Nat
Queues == inQueue \subseteq Requests /\ taken \in [Processes -> SUBSET Requests]
Works == work \in Seq(Work) /\ outQueue \subseteq DOMAIN work
Rows ==
    /\ prompts \in Seq(BOOLEAN) /\ videos \in Seq(Videos)
    /\ store \in [Folders -> [1 .. MaxTime -> Requests \cup {None}]]
    /\ clock \in 0 .. MaxTime

\* They make up the type invariant.
LEMMA TypeParts == TypeOK <=> Memory /\ Queues /\ Works /\ Rows
  BY DEF TypeOK, Memory, Queues, Works, Rows

\* A step of the work changes the step and at most one of what it has made.
LEMMA WorkMoves ==
    ASSUME TypeOK, NEW w \in DOMAIN work, NEW j \in Work, work' = [work EXCEPT ![w] = j],
           outQueue' \subseteq DOMAIN work
    PROVE  /\ Works' /\ DOMAIN work' = DOMAIN work /\ work'[w] = j
           /\ \A u \in DOMAIN work \ {w} : work'[u] = work[u]
  BY Replaced DEF TypeOK, Works

\* A piece of work with another step is a piece of work.
LEMMA Stepped ==
    ASSUME NEW j \in Work, NEW s \in Steps
    PROVE  /\ [j EXCEPT !.step = s] \in Work /\ [j EXCEPT !.step = s].step = s
           /\ [j EXCEPT !.step = s].req = j.req /\ [j EXCEPT !.step = s].at = j.at
           /\ [j EXCEPT !.step = s].prompt = j.prompt /\ [j EXCEPT !.step = s].video = j.video
           /\ [j EXCEPT !.step = s].name = j.name
  BY DEF Work

\* The work that begins with a message.
Started(p, r) == [req |-> r, at |-> p, step |-> "prompt",
                  prompt |-> None, video |-> None, name |-> None]

\* What a process leaves behind when it dies.
LEMMA DieMoves ==
    ASSUME TypeOK, NEW p, Die(p)
    PROVE  /\ Memory' /\ Queues' /\ Works'
           /\ p \in Processes /\ p \notin up' /\ DOMAIN work' = DOMAIN work
           /\ prompts' = prompts /\ videos' = videos /\ outQueue' = outQueue /\ clock' = clock
           /\ \A w \in DOMAIN work :
                \/ work'[w] = work[w]
                \/ work'[w] = [work[w] EXCEPT !.step = "lost"] /\ work[w].step \notin Ended
           /\ \A r \in Requests :
                \/ req'[r] = req[r] /\ req[r].at # p
                \/ req'[r] = req[r] /\ req[r].phase \notin {"send", "set", "answered"}
                \/ req'[r].at = req[r].at /\ req'[r].phase \in {"lost", "forgotten"}
                   /\ req[r].phase # "new"
           /\ \A q \in Processes \ {p} : daemonMap'[q] = daemonMap[q]
  <1>1. /\ work' = [w \in DOMAIN work |-> IF work[w].at = p /\ work[w].step \notin Ended
                                          THEN [work[w] EXCEPT !.step = "lost"] ELSE work[w]]
        /\ prompts' = prompts /\ videos' = videos /\ outQueue' = outQueue /\ clock' = clock
        /\ p \in up /\ p \in Processes
    BY DEF Die, TypeOK
  <1>2. /\ DOMAIN work' = DOMAIN work
        /\ \A w \in DOMAIN work :
                \/ work'[w] = work[w]
                \/ work'[w] = [work[w] EXCEPT !.step = "lost"] /\ work[w].step \notin Ended
    BY <1>1
  <1>3. \A w \in DOMAIN work : work[w] \in Work /\ work'[w] \in Work
    <2> TAKE w \in DOMAIN work
    <2>1. work[w] \in Work
      BY LenProperties, ElementOfSeq DEF TypeOK
    <2>2. [work[w] EXCEPT !.step = "lost"] \in Work
      BY <2>1, Stepped DEF Steps, Ended
    <2> QED
      BY <1>2, <2>1, <2>2
  <1>4. Works'
    <2>1. work' = [w \in DOMAIN work' |-> work'[w]]
      BY <1>1
    <2>2. work' \in Seq(Work)
      BY <1>2, <1>3, <2>1, Mapped DEF TypeOK
    <2> QED
      BY <1>1, <1>2, <2>2 DEF Works, TypeOK
  <1>5. \A r \in Requests :
                \/ req'[r] = req[r] /\ req[r].at # p
                \/ req'[r] = req[r] /\ req[r].phase \notin {"send", "set", "answered"}
                \/ req'[r].at = req[r].at /\ req'[r].phase \in {"lost", "forgotten"}
                   /\ req[r].phase # "new"
    BY DEF Die, TypeOK
  <1>6. \A r \in Requests : req'[r] \in [at : Processes \cup {None}, phase : Phases]
    BY DEF Die, TypeOK, Phases
  <1>7. Memory'
    <2>1. req' \in [Requests -> [at : Processes \cup {None}, phase : Phases]]
      BY <1>6 DEF Die
    <2>2. /\ daemonMap' \in [Processes -> SUBSET Requests] /\ deployed' = deployed
          /\ up' = up \ {p} /\ receiving' = receiving \ {p}
          /\ consuming' = consuming \ {p} /\ faults' \in Nat
      BY DEF Die, TypeOK
    <2> QED
      BY <2>1, <2>2 DEF TypeOK, Memory
  <1>8. Queues'
    BY <1>1 DEF Die, TypeOK, Queues
  <1>9. p \notin up' /\ \A q \in Processes \ {p} : daemonMap'[q] = daemonMap[q]
    BY DEF Die, TypeOK
  <1> QED
    BY <1>1, <1>2, <1>4, <1>5, <1>7, <1>8, <1>9

\* A piece of work.
LEMMA Working ==
    ASSUME TypeOK, NEW w \in DOMAIN work
    PROVE  work[w] \in Work
  BY LenProperties, ElementOfSeq DEF TypeOK

\* A row of a video.
LEMMA Showing ==
    ASSUME TypeOK, NEW v \in DOMAIN videos
    PROVE  videos[v] \in Videos
  BY LenProperties, ElementOfSeq DEF TypeOK

\* The next step of a piece of work.
LEMMA ToMoves ==
    ASSUME TypeOK, NEW w \in DOMAIN work, NEW s \in Steps, To(w, s), outQueue' \subseteq DOMAIN work
    PROVE  /\ Works' /\ DOMAIN work' = DOMAIN work
           /\ work'[w] = [work[w] EXCEPT !.step = s]
           /\ \A u \in DOMAIN work \ {w} : work'[u] = work[u]
  <1>1. [work[w] EXCEPT !.step = s] \in Work
    BY Working, Stepped
  <1>2. work' = [work EXCEPT ![w] = [work[w] EXCEPT !.step = s]]
    BY DEF To
  <1> QED
    BY <1>1, <1>2, WorkMoves

\* A message becomes work.
LEMMA ReceiveMoves ==
    ASSUME TypeOK, NEW p \in Processes, NEW r \in Requests, Receive(p, r)
    PROVE  /\ Works' /\ DOMAIN work \subseteq DOMAIN work'
           /\ \A u \in DOMAIN work : work'[u] = work[u]
           /\ \A u \in DOMAIN work' \ DOMAIN work : work'[u] = Started(p, r)
  <1>1. Started(p, r) \in Work /\ work' = Append(work, Started(p, r))
    BY JobsAssumption DEF Receive, Started, Work, Steps, None
  <1>2. /\ work' \in Seq(Work) /\ DOMAIN work' = DOMAIN work \cup {Len(work) + 1}
        /\ work'[Len(work) + 1] = Started(p, r) /\ \A u \in DOMAIN work : work'[u] = work[u]
    BY <1>1, Appended DEF TypeOK
  <1>3. outQueue' = outQueue
    BY DEF Receive
  <1> QED
    BY <1>2, <1>3 DEF Works, TypeOK

\* A prompt is entered.
LEMMA PreparePromptMoves ==
    ASSUME TypeOK, NEW w \in DOMAIN work, PreparePrompt(w)
    PROVE  /\ Works' /\ Rows' /\ DOMAIN work' = DOMAIN work
           /\ work'[w] = [work[w] EXCEPT !.prompt = Len(prompts) + 1, !.step = "video"]
           /\ \A u \in DOMAIN work \ {w} : work'[u] = work[u]
           /\ DOMAIN prompts' = DOMAIN prompts \cup {Len(prompts) + 1}
           /\ \A i \in DOMAIN prompts : prompts'[i] = prompts[i]
  <1>1. /\ prompts' \in Seq(BOOLEAN) /\ Len(prompts) + 1 \in Nat
        /\ DOMAIN prompts' = DOMAIN prompts \cup {Len(prompts) + 1}
        /\ \A i \in DOMAIN prompts : prompts'[i] = prompts[i]
    <2> DEFINE B == BOOLEAN
               no == FALSE
    <2>1. prompts \in Seq(B) /\ no \in B /\ prompts' = Append(prompts, no)
      BY DEF TypeOK, PreparePrompt
    <2> HIDE DEF B, no
    <2>2. /\ prompts' \in Seq(B) /\ Len(prompts) + 1 \in Nat
          /\ DOMAIN prompts' = DOMAIN prompts \cup {Len(prompts) + 1}
          /\ \A i \in DOMAIN prompts : prompts'[i] = prompts[i]
      BY <2>1, Appended
    <2> QED
      BY <2>2, Zenon DEF B
  <1> DEFINE j == [work[w] EXCEPT !.prompt = Len(prompts) + 1, !.step = "video"]
  <1>2. j \in Work
    BY <1>1, Working DEF Work, Steps
  <1>3. work' = [work EXCEPT ![w] = j] /\ outQueue' \subseteq DOMAIN work
    BY DEF PreparePrompt, queues, TypeOK
  <1>4. /\ Works' /\ DOMAIN work' = DOMAIN work /\ work'[w] = j
        /\ \A u \in DOMAIN work \ {w} : work'[u] = work[u]
    BY <1>2, <1>3, WorkMoves
  <1>5. Rows'
    BY <1>1 DEF Rows, TypeOK, PreparePrompt
  <1> QED
    BY <1>1, <1>4, <1>5

\* The row of a video is entered.
LEMMA PrepareVideoMoves ==
    ASSUME TypeOK, NEW w \in DOMAIN work, PrepareVideo(w)
    PROVE  /\ Works' /\ Rows' /\ DOMAIN work' = DOMAIN work
           /\ work'[w] = [work[w] EXCEPT !.video = Len(videos) + 1, !.step = "complete"]
           /\ \A u \in DOMAIN work \ {w} : work'[u] = work[u]
           /\ DOMAIN videos' = DOMAIN videos \cup {Len(videos) + 1}
           /\ Len(videos) + 1 \notin DOMAIN videos /\ videos'[Len(videos) + 1] = Row(w)
           /\ \A v \in DOMAIN videos : videos'[v] = videos[v]
  <1>1. Row(w) \in Videos
    BY Working, JobsAssumption DEF Row, Videos, Work, None
  <1>2. /\ videos' \in Seq(Videos) /\ Len(videos) + 1 \in Nat
        /\ DOMAIN videos' = DOMAIN videos \cup {Len(videos) + 1}
        /\ Len(videos) + 1 \notin DOMAIN videos /\ videos'[Len(videos) + 1] = Row(w)
        /\ \A v \in DOMAIN videos : videos'[v] = videos[v]
    BY <1>1, Appended DEF TypeOK, PrepareVideo
  <1> DEFINE j == [work[w] EXCEPT !.video = Len(videos) + 1, !.step = "complete"]
  <1>3. j \in Work
    BY <1>2, Working DEF Work, Steps
  <1>4. work' = [work EXCEPT ![w] = j] /\ outQueue' \subseteq DOMAIN work
    BY DEF PrepareVideo, queues, TypeOK
  <1>5. /\ Works' /\ DOMAIN work' = DOMAIN work /\ work'[w] = j
        /\ \A u \in DOMAIN work \ {w} : work'[u] = work[u]
    BY <1>3, <1>4, WorkMoves
  <1>6. Rows'
    BY <1>2 DEF Rows, TypeOK, PrepareVideo
  <1> QED
    BY <1>2, <1>5, <1>6

\* The file gets its name.
LEMMA ExtractMoves ==
    ASSUME TypeOK, NEW w \in DOMAIN work, ExtractMetadata(w)
    PROVE  /\ Works' /\ Rows' /\ DOMAIN work' = DOMAIN work /\ clock' \in 1 .. MaxTime
           /\ work'[w] = [work[w] EXCEPT !.name = clock', !.step = "upload"]
           /\ \A u \in DOMAIN work \ {w} : work'[u] = work[u]
  <1>1. /\ clock' \in 1 .. MaxTime /\ clock' \in 0 .. MaxTime
        /\ work' = [work EXCEPT ![w].name = clock', ![w].step = "upload"]
    BY JobsAssumption DEF ExtractMetadata
  <1> DEFINE j == [work[w] EXCEPT !.name = clock', !.step = "upload"]
  <1>2. j \in Work
    BY <1>1, Working DEF Work, Steps
  <1>3. work' = [work EXCEPT ![w] = j] /\ outQueue' \subseteq DOMAIN work
    BY <1>1 DEF ExtractMetadata, queues, TypeOK
  <1>4. /\ Works' /\ DOMAIN work' = DOMAIN work /\ work'[w] = j
        /\ \A u \in DOMAIN work \ {w} : work'[u] = work[u]
    BY <1>2, <1>3, WorkMoves
  <1>5. Rows'
    BY <1>1 DEF Rows, TypeOK, ExtractMetadata, rows
  <1> QED
    BY <1>1, <1>4, <1>5

\* The prompt gets its answer.
LEMMA CompleteMoves ==
    ASSUME TypeOK, NEW w \in DOMAIN work, Complete(w), work[w].prompt \in DOMAIN prompts
    PROVE  /\ Rows' /\ DOMAIN prompts' = DOMAIN prompts /\ prompts'[work[w].prompt]
           /\ \A i \in DOMAIN prompts : prompts[i] => prompts'[i]
  <1>1. /\ prompts' \in Seq(BOOLEAN) /\ DOMAIN prompts' = DOMAIN prompts
        /\ prompts'[work[w].prompt] = TRUE
        /\ \A i \in DOMAIN prompts \ {work[w].prompt} : prompts'[i] = prompts[i]
    <2> DEFINE B == BOOLEAN
               yes == TRUE
               i == work[w].prompt
    <2>1. /\ prompts \in Seq(B) /\ yes \in B /\ i \in DOMAIN prompts
          /\ prompts' = [prompts EXCEPT ![i] = yes]
      BY DEF TypeOK, Complete
    <2> HIDE DEF B, yes, i
    <2>2. /\ prompts' \in Seq(B) /\ DOMAIN prompts' = DOMAIN prompts
          /\ prompts'[i] = yes
          /\ \A k \in DOMAIN prompts \ {i} : prompts'[k] = prompts[k]
      BY <2>1, Replaced
    <2> QED
      BY <2>2, Zenon DEF B, yes, i
  <1> QED
    BY <1>1 DEF Rows, TypeOK, Complete

\* The row gets the name of the file.
LEMMA UpdateRowMoves ==
    ASSUME TypeOK, NEW w \in DOMAIN work, UpdateRow(w), work[w].video \in DOMAIN videos
    PROVE  /\ Rows' /\ DOMAIN videos' = DOMAIN videos
           /\ videos'[work[w].video] = [videos[work[w].video] EXCEPT !.name = work[w].name]
           /\ \A v \in DOMAIN videos \ {work[w].video} : videos'[v] = videos[v]
  <1> DEFINE x == [videos[work[w].video] EXCEPT !.name = work[w].name]
  <1>1. x \in Videos
    BY Working, Showing DEF Work, Videos
  <1>2. videos' = [videos EXCEPT ![work[w].video] = x]
    BY DEF UpdateRow
  <1>3. /\ videos' \in Seq(Videos) /\ DOMAIN videos' = DOMAIN videos
        /\ videos'[work[w].video] = x
        /\ \A v \in DOMAIN videos \ {work[w].video} : videos'[v] = videos[v]
    BY <1>1, <1>2, Replaced DEF TypeOK
  <1> QED
    BY <1>3 DEF Rows, TypeOK, UpdateRow

\* What an upload leaves in the store.
LEMMA StoredMoves ==
    ASSUME TypeOK, NEW w \in DOMAIN work, NEW folders, store' = Stored(w, folders)
    PROVE  /\ store' \in [Folders -> [1 .. MaxTime -> Requests \cup {None}]]
           /\ \A f \in Folders, t \in 1 .. MaxTime :
                \/ store'[f][t] = store[f][t] /\ ~(f \in folders /\ t = work[w].name)
                \/ f \in folders /\ t = work[w].name /\ store'[f][t] = work[w].req
  BY Working DEF TypeOK, Stored, Work

----------------------------------------------------------------------------
(* The invariant                                                            *)

\* The steps after each of the calls that the work awaits.
HasPrompt == {"video", "complete", "metadata", "upload", "row", "result", "done", "unsent"}
HasVideo == HasPrompt \ {"video"}
Completed == HasVideo \ {"complete"}
Named == Completed \ {"metadata"}
Kept == Named \ {"upload"}
Entered == Kept \ {"row"}

\* Both files of a name are stored, and they are the request's but for another
\* one with the same name.
InStore(r, name) ==
    \A f \in Folders :
        store[f][name] # None /\ (store[f][name] = r \/ SameName(r, name))

\* A piece of work knows the prompt it entered and the row of its own video; it
\* gets its name once, and what its step says has been done has been done.
JobOK(w) ==
    /\ work[w].step \in HasPrompt => work[w].prompt \in DOMAIN prompts
    /\ work[w].step \in HasVideo =>
         /\ work[w].video \in DOMAIN videos
         /\ videos[work[w].video].req = work[w].req
         /\ videos[work[w].video].prompt = work[w].prompt
    /\ work[w].step \in Completed => prompts[work[w].prompt]
    /\ work[w].step \in Named => work[w].name # None
    /\ work[w].step \in Steps \ (Named \cup {"lost"}) => work[w].name = None
    /\ work[w].step \in Kept => InStore(work[w].req, work[w].name)
    /\ work[w].step \in Entered => videos[work[w].video].name # None

\* A row belongs to a prompt; a name in it is that of stored files.
RowOK(v) ==
    /\ videos[v].prompt \in DOMAIN prompts
    /\ videos[v].name # None =>
         prompts[videos[v].prompt] /\ InStore(videos[v].req, videos[v].name)

\* Only finished work is answered, and a process waits for a request until a
\* piece of its work is.
AnswerInv ==
    /\ \A w \in outQueue : work[w].step = "done"
    /\ \A r \in Requests :
         /\ req[r].phase # "new" => req[r].at \in Processes
         /\ req[r].phase = "answered" =>
              \/ r \in daemonMap[req[r].at]
              \/ \E w \in DOMAIN work : work[w].req = r /\ work[w].step = "done"

JobInv == \A w \in DOMAIN work : JobOK(w)
RowInv == \A v \in DOMAIN videos : RowOK(v)
VideoInv == TypeOK /\ JobInv /\ RowInv /\ AnswerInv

\* What every step keeps of the work and of the rows: whose they are, the names
\* that were given and the answers.  A stored file is only replaced by one of the
\* same name.
Grows ==
    /\ DOMAIN work \subseteq DOMAIN work'
    /\ \A w \in DOMAIN work :
         work'[w].req = work[w].req /\ (work[w].name # None => work'[w].name = work[w].name)
    /\ DOMAIN prompts \subseteq DOMAIN prompts'
    /\ \A i \in DOMAIN prompts : prompts[i] => prompts'[i]
    /\ DOMAIN videos \subseteq DOMAIN videos'
    /\ \A v \in DOMAIN videos :
         /\ videos'[v].req = videos[v].req /\ videos'[v].prompt = videos[v].prompt
         /\ videos[v].name # None => videos'[v].name # None
    /\ \A f \in Folders, t \in 1 .. MaxTime :
         \/ store'[f][t] = store[f][t]
         \/ \E w \in DOMAIN work : work[w].name = t /\ store'[f][t] = work[w].req

\* What is stored under a name stays stored.
LEMMA InStoreKept ==
    ASSUME TypeOK, Grows, NEW r \in Requests, NEW name \in 0 .. MaxTime, name # None,
           InStore(r, name)
    PROVE  InStore(r, name)'
  <1>1. name \in 1 .. MaxTime
    BY JobsAssumption DEF None
  <1>2. SameName(r, name) => SameName(r, name)'
    BY <1>1 DEF SameName, Grows, None
  <1>3. ASSUME NEW f \in Folders
        PROVE  store'[f][name] # None /\ (store'[f][name] = r \/ SameName(r, name)')
    <2>1. CASE store'[f][name] = store[f][name]
      BY <1>2, <2>1 DEF InStore
    <2>2. ASSUME NEW w \in DOMAIN work, work[w].name = name, store'[f][name] = work[w].req
          PROVE  store'[f][name] # None /\ (store'[f][name] = r \/ SameName(r, name)')
      <3>1. work[w].req \in Requests
        BY Working DEF Work
      <3>2. w \in DOMAIN work' /\ work'[w].req = work[w].req /\ work'[w].name = name
        BY <2>2 DEF Grows
      <3> QED
        BY <2>2, <3>1, <3>2, JobsAssumption DEF SameName, None
    <2> QED
      BY <1>1, <2>1, <2>2 DEF Grows
  <1> QED
    BY <1>3 DEF InStore

\* Work that a step leaves alone, or loses, is in order after it.
LEMMA JobKept ==
    ASSUME TypeOK, Grows, NEW w \in DOMAIN work, JobOK(w),
           work'[w] = work[w] \/ work'[w] = [work[w] EXCEPT !.step = "lost"]
    PROVE  JobOK(w)'
  <1>1. work[w] \in Work
    BY Working
  <1>2. CASE work'[w] = [work[w] EXCEPT !.step = "lost"]
    <2>1. work'[w].step = "lost"
      BY <1>1, <1>2 DEF Work
    <2> QED
      BY <2>1 DEF JobOK, HasPrompt, HasVideo, Completed, Named, Kept, Entered
  <1>3. CASE work'[w] = work[w]
    <2>1. work[w].step \in Kept => InStore(work[w].req, work[w].name)'
      BY <1>1, InStoreKept DEF JobOK, Kept, Work
    <2> QED
      BY <1>3, <2>1 DEF JobOK, Grows, HasVideo, Completed, Kept, Named, Entered
  <1> QED
    BY <1>2, <1>3

\* A row that a step leaves alone is in order after it.
LEMMA RowKept ==
    ASSUME TypeOK, Grows, NEW v \in DOMAIN videos, RowOK(v), videos'[v] = videos[v]
    PROVE  RowOK(v)'
  <1>1. videos[v] \in Videos
    BY Showing
  <1>2. videos[v].name # None => InStore(videos[v].req, videos[v].name)'
    BY <1>1, InStoreKept DEF RowOK, Videos
  <1> QED
    BY <1>2 DEF RowOK, Grows

\* The answers are in order after a step that leaves them, and the finished work.
LEMMA AnswersKept ==
    ASSUME TypeOK, AnswerInv, UNCHANGED <<req, daemonMap, outQueue>>,
           DOMAIN work \subseteq DOMAIN work',
           \A w \in DOMAIN work : work[w].step = "done" => work'[w] = work[w]
    PROVE  AnswerInv'
  BY DEF AnswerInv, TypeOK

\* The rest is in order after a step that changes only messages and memory.
LEMMA WorkIsLeft ==
    ASSUME VideoInv, UNCHANGED <<work, rows>>
    PROVE  JobInv' /\ RowInv'
  BY DEF VideoInv, JobInv, RowInv, JobOK, RowOK, InStore, SameName, rows

\* A step that grows the work and the rows keeps them in order, if what it does
\* not leave alone is.
LEMMA OrderKept ==
    ASSUME VideoInv, Grows,
           \A w \in DOMAIN work' :
              \/ JobOK(w)'
              \/ /\ w \in DOMAIN work
                 /\ work'[w] = work[w] \/ work'[w] = [work[w] EXCEPT !.step = "lost"],
           \A v \in DOMAIN videos' :
              RowOK(v)' \/ (v \in DOMAIN videos /\ videos'[v] = videos[v])
    PROVE  JobInv' /\ RowInv'
  <1>1. ASSUME NEW w \in DOMAIN work'  PROVE JobOK(w)'
    BY JobKept DEF VideoInv, JobInv
  <1>2. ASSUME NEW v \in DOMAIN videos'  PROVE RowOK(v)'
    BY RowKept DEF VideoInv, RowInv
  <1> QED
    BY <1>1, <1>2 DEF JobInv, RowInv

----------------------------------------------------------------------------
(* The steps of the work                                                    *)

\* preparePrompt keeps the invariant.
LEMMA PreparePromptKeeps ==
    ASSUME VideoInv, NEW w \in DOMAIN work, PreparePrompt(w)
    PROVE  VideoInv'
  <1>1. /\ TypeOK /\ work[w] \in Work /\ work[w].step = "prompt"
        /\ JobOK(w)
    BY Working DEF VideoInv, JobInv, PreparePrompt, At
  <1>2. /\ Works' /\ Rows' /\ DOMAIN work' = DOMAIN work
        /\ work'[w] = [work[w] EXCEPT !.prompt = Len(prompts) + 1, !.step = "video"]
        /\ \A u \in DOMAIN work \ {w} : work'[u] = work[u]
        /\ DOMAIN prompts' = DOMAIN prompts \cup {Len(prompts) + 1}
        /\ \A i \in DOMAIN prompts : prompts'[i] = prompts[i]
    BY <1>1, PreparePromptMoves
  <1>3. UNCHANGED <<req, processes, queues, videos, store, clock>>
    BY DEF PreparePrompt
  <1>4. TypeOK'
    BY <1>1, <1>2, <1>3 DEF TypeOK, Memory, Queues, Works, Rows, processes, queues
  <1>5. /\ work'[w].step = "video" /\ work'[w].req = work[w].req
        /\ work'[w].name = work[w].name /\ work'[w].prompt = Len(prompts) + 1
    BY <1>1, <1>2 DEF Work
  <1>6. Grows
    BY <1>2, <1>3, <1>5 DEF Grows
  <1>7. JobOK(w)'
    BY <1>1, <1>2, <1>5 DEF JobOK, Steps, Ended, HasPrompt, HasVideo, Completed, Named, Kept, Entered
  <1>8. JobInv' /\ RowInv'
    BY <1>2, <1>3, <1>6, <1>7, OrderKept
  <1>9. AnswerInv'
    BY <1>1, <1>2, <1>3, AnswersKept DEF VideoInv, processes, queues
  <1> QED
    BY <1>4, <1>8, <1>9 DEF VideoInv

\* prepareVideo keeps the invariant.
LEMMA PrepareVideoKeeps ==
    ASSUME VideoInv, NEW w \in DOMAIN work, PrepareVideo(w)
    PROVE  VideoInv'
  <1>0. PICK n : n = Len(videos) + 1
    OBVIOUS
  <1>1. /\ TypeOK /\ work[w] \in Work /\ work[w].step = "video"
        /\ JobOK(w)
    BY Working DEF VideoInv, JobInv, PrepareVideo, At
  <1>2. /\ Works' /\ Rows' /\ DOMAIN work' = DOMAIN work
        /\ work'[w] = [work[w] EXCEPT !.video = n, !.step = "complete"]
        /\ \A u \in DOMAIN work \ {w} : work'[u] = work[u]
        /\ DOMAIN videos' = DOMAIN videos \cup {n}
        /\ n \notin DOMAIN videos /\ videos'[n] = Row(w)
        /\ \A v \in DOMAIN videos : videos'[v] = videos[v]
    BY <1>0, <1>1, PrepareVideoMoves
  <1>3. UNCHANGED <<req, processes, queues, prompts, store, clock>>
    BY DEF PrepareVideo
  <1>4. TypeOK'
    BY <1>1, <1>2, <1>3 DEF TypeOK, Memory, Queues, Works, Rows, processes, queues
  <1>5. /\ work'[w].step = "complete" /\ work'[w].req = work[w].req
        /\ work'[w].name = work[w].name /\ work'[w].prompt = work[w].prompt
        /\ work'[w].video = n
    BY <1>1, <1>2 DEF Work
  <1>6. /\ videos'[n].req = work[w].req /\ videos'[n].prompt = work[w].prompt
        /\ videos'[n].name = None
    BY <1>2 DEF Row
  <1>7. Grows
    BY <1>2, <1>3, <1>5 DEF Grows
  <1>8. JobOK(w)'
    BY <1>1, <1>2, <1>3, <1>5, <1>6
       DEF JobOK, Steps, Ended, HasPrompt, HasVideo, Completed, Named, Kept, Entered
  <1>9. RowOK(n)'
    BY <1>1, <1>3, <1>6 DEF RowOK, JobOK, HasPrompt
  <1>10. JobInv' /\ RowInv'
    <2>1. \A v \in DOMAIN videos' : RowOK(v)' \/ (v \in DOMAIN videos /\ videos'[v] = videos[v])
      BY <1>2, <1>9
    <2>2. \A u \in DOMAIN work' :
              \/ JobOK(u)'
              \/ /\ u \in DOMAIN work
                 /\ work'[u] = work[u] \/ work'[u] = [work[u] EXCEPT !.step = "lost"]
      BY <1>2, <1>8
    <2> QED
      BY <1>7, <2>1, <2>2, OrderKept
  <1>11. AnswerInv'
    BY <1>1, <1>2, <1>3, AnswersKept DEF VideoInv, processes, queues
  <1> QED
    BY <1>4, <1>10, <1>11 DEF VideoInv

\* The completion of the prompt keeps the invariant.
LEMMA CompleteKeeps ==
    ASSUME VideoInv, NEW w \in DOMAIN work, Complete(w)
    PROVE  VideoInv'
  <1>1. /\ TypeOK /\ work[w] \in Work /\ work[w].step = "complete"
        /\ JobOK(w) /\ work[w].prompt \in DOMAIN prompts
    BY Working DEF VideoInv, JobInv, Complete, At, JobOK, HasPrompt
  <1>2. /\ Rows' /\ DOMAIN prompts' = DOMAIN prompts /\ prompts'[work[w].prompt]
        /\ \A i \in DOMAIN prompts : prompts[i] => prompts'[i]
    BY <1>1, CompleteMoves
  <1>3. /\ UNCHANGED <<req, processes, queues, videos, store, clock>>
        /\ To(w, "metadata") /\ outQueue' \subseteq DOMAIN work /\ "metadata" \in Steps
    BY <1>1 DEF Complete, queues, TypeOK, Steps
  <1>4. /\ Works' /\ DOMAIN work' = DOMAIN work
        /\ work'[w] = [work[w] EXCEPT !.step = "metadata"]
        /\ \A u \in DOMAIN work \ {w} : work'[u] = work[u]
    BY <1>1, <1>3, ToMoves
  <1>5. TypeOK'
    BY <1>1, <1>2, <1>3, <1>4 DEF TypeOK, Memory, Queues, Works, Rows, processes, queues
  <1>6. /\ work'[w].step = "metadata" /\ work'[w].req = work[w].req
        /\ work'[w].name = work[w].name /\ work'[w].prompt = work[w].prompt
        /\ work'[w].video = work[w].video
    BY <1>1, <1>4 DEF Work
  <1>7. Grows
    BY <1>2, <1>3, <1>4, <1>6 DEF Grows
  <1>8. JobOK(w)'
    BY <1>1, <1>2, <1>3, <1>6
       DEF JobOK, Steps, Ended, HasPrompt, HasVideo, Completed, Named, Kept, Entered
  <1>9. JobInv' /\ RowInv'
    BY <1>3, <1>4, <1>7, <1>8, OrderKept
  <1>10. AnswerInv'
    BY <1>1, <1>3, <1>4, AnswersKept DEF VideoInv, processes, queues
  <1> QED
    BY <1>5, <1>9, <1>10 DEF VideoInv

\* The extraction of the metadata keeps the invariant.
LEMMA ExtractKeeps ==
    ASSUME VideoInv, NEW w \in DOMAIN work, ExtractMetadata(w)
    PROVE  VideoInv'
  <1>1. /\ TypeOK /\ work[w] \in Work /\ work[w].step = "metadata"
        /\ JobOK(w) /\ work[w].name = None
    BY Working DEF VideoInv, JobInv, ExtractMetadata, At, JobOK, Steps, HasPrompt, HasVideo,
                   Completed, Named
  <1>2. /\ Works' /\ Rows' /\ DOMAIN work' = DOMAIN work /\ clock' \in 1 .. MaxTime
        /\ work'[w] = [work[w] EXCEPT !.name = clock', !.step = "upload"]
        /\ \A u \in DOMAIN work \ {w} : work'[u] = work[u]
    BY <1>1, ExtractMoves
  <1>3. UNCHANGED <<req, processes, queues, rows>>
    BY DEF ExtractMetadata
  <1>4. TypeOK'
    BY <1>1, <1>2, <1>3 DEF TypeOK, Memory, Queues, Works, Rows, processes, queues
  <1>5. /\ work'[w].step = "upload" /\ work'[w].req = work[w].req
        /\ work'[w].name = clock' /\ work'[w].prompt = work[w].prompt
        /\ work'[w].video = work[w].video /\ clock' # None
    BY <1>1, <1>2 DEF Work, None
  <1>6. Grows
    BY <1>1, <1>2, <1>3, <1>5 DEF Grows, rows
  <1>7. JobOK(w)'
    BY <1>1, <1>3, <1>5
       DEF JobOK, Steps, Ended, HasPrompt, HasVideo, Completed, Named, Kept, Entered, rows
  <1>8. JobInv' /\ RowInv'
    BY <1>2, <1>3, <1>6, <1>7, OrderKept DEF rows
  <1>9. AnswerInv'
    BY <1>1, <1>2, <1>3, AnswersKept DEF VideoInv, processes, queues
  <1> QED
    BY <1>4, <1>8, <1>9 DEF VideoInv

\* The upload of both files keeps the invariant.
LEMMA UploadKeeps ==
    ASSUME VideoInv, NEW w \in DOMAIN work, NEW folders, Upload(w, folders)
    PROVE  VideoInv'
  <1>1. /\ TypeOK /\ work[w] \in Work /\ work[w].step = "upload" /\ folders = Folders
        /\ JobOK(w) /\ work[w].name # None
    BY Working DEF VideoInv, JobInv, Upload, Uploaded, At, JobOK, HasPrompt, HasVideo,
                   Completed, Named
  <1>2. /\ store' \in [Folders -> [1 .. MaxTime -> Requests \cup {None}]]
        /\ \A f \in Folders, t \in 1 .. MaxTime :
             \/ store'[f][t] = store[f][t] /\ ~(f \in folders /\ t = work[w].name)
             \/ f \in folders /\ t = work[w].name /\ store'[f][t] = work[w].req
    BY <1>1, StoredMoves DEF Upload
  <1>3. /\ UNCHANGED <<req, processes, queues, prompts, videos, clock>>
        /\ To(w, "row") /\ outQueue' \subseteq DOMAIN work /\ "row" \in Steps
    BY <1>1 DEF Upload, queues, TypeOK, Steps
  <1>4. /\ Works' /\ DOMAIN work' = DOMAIN work
        /\ work'[w] = [work[w] EXCEPT !.step = "row"]
        /\ \A u \in DOMAIN work \ {w} : work'[u] = work[u]
    BY <1>1, <1>3, ToMoves
  <1>5. TypeOK'
    BY <1>1, <1>2, <1>3, <1>4 DEF TypeOK, Memory, Queues, Works, Rows, processes, queues
  <1>6. /\ work'[w].step = "row" /\ work'[w].req = work[w].req
        /\ work'[w].name = work[w].name /\ work'[w].prompt = work[w].prompt
        /\ work'[w].video = work[w].video
    BY <1>1, <1>4 DEF Work
  <1>7. Grows
    BY <1>2, <1>3, <1>4, <1>6 DEF Grows
  <1>8. InStore(work[w].req, work[w].name)'
    <2>1. work[w].name \in 1 .. MaxTime /\ work[w].req \in Requests
      BY <1>1, JobsAssumption DEF Work, None
    <2>2. \A f \in Folders : store'[f][work[w].name] = work[w].req
      BY <1>1, <1>2, <2>1
    <2>3. work[w].req # None
      BY <2>1, JobsAssumption DEF None
    <2> QED
      BY <1>6, <2>2, <2>3 DEF InStore
  <1>9. JobOK(w)'
    BY <1>1, <1>3, <1>6, <1>8
       DEF JobOK, Steps, Ended, HasPrompt, HasVideo, Completed, Named, Kept, Entered
  <1>10. JobInv' /\ RowInv'
    BY <1>3, <1>4, <1>7, <1>9, OrderKept
  <1>11. AnswerInv'
    BY <1>1, <1>3, <1>4, AnswersKept DEF VideoInv, processes, queues
  <1> QED
    BY <1>5, <1>10, <1>11 DEF VideoInv

\* The name of the file in the row keeps the invariant.
LEMMA UpdateRowKeeps ==
    ASSUME VideoInv, NEW w \in DOMAIN work, UpdateRow(w)
    PROVE  VideoInv'
  <1>0. PICK v : v = work[w].video
    OBVIOUS
  <1>1. /\ TypeOK /\ work[w] \in Work /\ work[w].step = "row"
        /\ JobOK(w) /\ v \in DOMAIN videos /\ work[w].name # None
        /\ InStore(work[w].req, work[w].name)
        /\ videos[v].req = work[w].req /\ videos[v].prompt = work[w].prompt
        /\ work[w].prompt \in DOMAIN prompts /\ prompts[work[w].prompt]
    BY <1>0, Working DEF VideoInv, JobInv, UpdateRow, At, JobOK, HasPrompt, HasVideo, Completed,
                         Named, Kept
  <1>2. /\ Rows' /\ DOMAIN videos' = DOMAIN videos
        /\ videos'[v] = [videos[v] EXCEPT !.name = work[w].name]
        /\ \A u \in DOMAIN videos \ {v} : videos'[u] = videos[u]
    BY <1>0, <1>1, UpdateRowMoves
  <1>3. /\ UNCHANGED <<req, processes, queues, prompts, store, clock>>
        /\ To(w, "result") /\ outQueue' \subseteq DOMAIN work /\ "result" \in Steps
    BY <1>1 DEF UpdateRow, queues, TypeOK, Steps
  <1>4. /\ Works' /\ DOMAIN work' = DOMAIN work
        /\ work'[w] = [work[w] EXCEPT !.step = "result"]
        /\ \A u \in DOMAIN work \ {w} : work'[u] = work[u]
    BY <1>1, <1>3, ToMoves
  <1>5. TypeOK'
    BY <1>1, <1>2, <1>3, <1>4 DEF TypeOK, Memory, Queues, Works, Rows, processes, queues
  <1>6. /\ work'[w].step = "result" /\ work'[w].req = work[w].req
        /\ work'[w].name = work[w].name /\ work'[w].prompt = work[w].prompt
        /\ work'[w].video = v
    BY <1>0, <1>1, <1>4 DEF Work
  <1>7. /\ videos'[v].req = work[w].req /\ videos'[v].prompt = work[w].prompt
        /\ videos'[v].name = work[w].name
    BY <1>1, <1>2, Showing DEF Videos
  <1>8. Grows
    <2>1. \A u \in DOMAIN videos :
             /\ videos'[u].req = videos[u].req /\ videos'[u].prompt = videos[u].prompt
             /\ videos[u].name # None => videos'[u].name # None
      BY <1>1, <1>2, <1>7
    <2>2. \A u \in DOMAIN work :
             work'[u].req = work[u].req /\ (work[u].name # None => work'[u].name = work[u].name)
      BY <1>4, <1>6
    <2> QED
      BY <1>2, <1>3, <1>4, <2>1, <2>2 DEF Grows
  <1>9. InStore(work[w].req, work[w].name)'
    <2>1. InStore(work[w].req, work[w].name)
      BY <1>1
    <2>2. work[w].req \in Requests /\ work[w].name \in 0 .. MaxTime /\ work[w].name # None
      BY <1>1 DEF Work
    <2>3. \A r \in Requests, name \in 0 .. MaxTime :
             name # None /\ InStore(r, name) => InStore(r, name)'
      BY <1>1, <1>8, InStoreKept
    <2>4. PICK r \in Requests, name \in 0 .. MaxTime : r = work[w].req /\ name = work[w].name
      BY <2>2
    <2>5. InStore(r, name)'
      BY <2>1, <2>2, <2>3, <2>4
    <2> QED
      BY <1>6, <2>4, <2>5
  <1>10. JobOK(w)'
    BY <1>1, <1>2, <1>3, <1>6, <1>7, <1>9
       DEF JobOK, Steps, Ended, HasPrompt, HasVideo, Completed, Named, Kept, Entered
  <1>11. RowOK(v)'
    BY <1>1, <1>3, <1>6, <1>7, <1>9 DEF RowOK
  <1>12. JobInv' /\ RowInv'
    BY <1>2, <1>4, <1>8, <1>10, <1>11, OrderKept
  <1>13. AnswerInv'
    BY <1>1, <1>3, <1>4, AnswersKept DEF VideoInv, processes, queues
  <1> QED
    BY <1>5, <1>12, <1>13 DEF VideoInv

\* The answer keeps the invariant.
LEMMA ProduceResultKeeps ==
    ASSUME VideoInv, NEW w \in DOMAIN work, NEW sent \in BOOLEAN, ProduceResult(w, sent)
    PROVE  VideoInv'
  <1>0. PICK s \in {"done", "unsent"} : To(w, s) /\ (s = "done" <=> sent)
    BY DEF ProduceResult
  <1>1. /\ TypeOK /\ work[w] \in Work /\ work[w].step = "result" /\ JobOK(w)
    BY Working DEF VideoInv, JobInv, ProduceResult, Answers, At
  <1>2. /\ UNCHANGED <<req, processes, inQueue, taken, rows, clock>>
        /\ outQueue' \subseteq DOMAIN work /\ s \in Steps
        /\ \A u \in outQueue' : u \in outQueue \/ (u = w /\ s = "done")
    BY <1>0, <1>1 DEF ProduceResult, TypeOK, Steps, Ended
  <1>3. /\ Works' /\ DOMAIN work' = DOMAIN work
        /\ work'[w] = [work[w] EXCEPT !.step = s]
        /\ \A u \in DOMAIN work \ {w} : work'[u] = work[u]
    BY <1>0, <1>1, <1>2, ToMoves
  <1>4. TypeOK'
    BY <1>1, <1>2, <1>3 DEF TypeOK, Memory, Queues, Works, Rows, processes, rows
  <1>5. /\ work'[w].step = s /\ work'[w].req = work[w].req
        /\ work'[w].name = work[w].name /\ work'[w].prompt = work[w].prompt
        /\ work'[w].video = work[w].video
    BY <1>1, <1>3 DEF Work
  <1>6. Grows
    BY <1>2, <1>3, <1>5 DEF Grows, rows
  <1>7. JobOK(w)'
    <2>1. work[w].step \in Kept /\ work[w].name # None
      BY <1>1 DEF JobOK, Kept, Named, Completed, HasVideo, HasPrompt
    <2>2. InStore(work[w].req, work[w].name)'
      BY <1>1, <1>2, <1>3, <1>5, <2>1 DEF JobOK, InStore, SameName, rows
    <2> QED
      BY <1>1, <1>2, <1>5, <2>1, <2>2
       DEF JobOK, Steps, Ended, HasPrompt, HasVideo, Completed, Named, Kept, Entered, rows
  <1>8. JobInv' /\ RowInv'
    BY <1>2, <1>3, <1>6, <1>7, OrderKept DEF rows
  <1>9. \A u \in outQueue' : work'[u].step = "done"
    <2> TAKE u \in outQueue'
    <2>1. CASE u = w /\ s = "done"
      BY <1>5, <2>1
    <2>2. CASE u \in outQueue
      <3>1. work[u].step = "done" /\ u \in DOMAIN work
        BY <1>1, <2>2 DEF VideoInv, AnswerInv, TypeOK
      <3>2. u # w
        BY <1>1, <3>1
      <3> QED
        BY <1>3, <3>1, <3>2
    <2> QED
      BY <1>2, <2>1, <2>2
  <1>10. \A u \in DOMAIN work : work[u].step = "done" => work'[u] = work[u]
    BY <1>1, <1>3
  <1>11. AnswerInv'
    BY <1>1, <1>2, <1>3, <1>9, <1>10 DEF VideoInv, AnswerInv, processes
  <1> QED
    BY <1>4, <1>8, <1>11 DEF VideoInv

----------------------------------------------------------------------------
(* Deaths, messages and answers                                             *)

\* The death of a process keeps the invariant, whatever it leaves in the store
\* under the name of a piece of work.
LEMMA DieKeeps ==
    ASSUME VideoInv, NEW p, Die(p),
           \/ store' = store
           \/ \E w \in DOMAIN work, folders \in SUBSET Folders :
                 At(w, "upload") /\ store' = Stored(w, folders)
    PROVE  VideoInv'
  <1>1. TypeOK /\ JobInv /\ RowInv /\ AnswerInv
    BY DEF VideoInv
  <1>2. /\ Memory' /\ Queues' /\ Works'
        /\ p \in Processes /\ DOMAIN work' = DOMAIN work
        /\ prompts' = prompts /\ videos' = videos /\ outQueue' = outQueue /\ clock' = clock
        /\ \A w \in DOMAIN work :
             \/ work'[w] = work[w]
             \/ work'[w] = [work[w] EXCEPT !.step = "lost"] /\ work[w].step \notin Ended
    BY <1>1, DieMoves
  <1>3. \A r \in Requests :
             \/ req'[r] = req[r] /\ req[r].at # p
             \/ req'[r] = req[r] /\ req[r].phase \notin {"send", "set", "answered"}
             \/ req'[r].at = req[r].at /\ req'[r].phase \in {"lost", "forgotten"}
                /\ req[r].phase # "new"
    BY <1>1, DieMoves
  <1>4. \A q \in Processes \ {p} : daemonMap'[q] = daemonMap[q]
    BY <1>1, DieMoves
  <1>5. /\ store' \in [Folders -> [1 .. MaxTime -> Requests \cup {None}]]
        /\ \A f \in Folders, t \in 1 .. MaxTime :
             \/ store'[f][t] = store[f][t]
             \/ \E w \in DOMAIN work : work[w].name = t /\ store'[f][t] = work[w].req
    <2>1. CASE store' = store
      BY <1>1, <2>1 DEF TypeOK
    <2>2. CASE store' # store
      <3>1. PICK w \in DOMAIN work, folders \in SUBSET Folders : store' = Stored(w, folders)
        BY <2>2
      <3> QED
        BY <1>1, <3>1, StoredMoves
    <2> QED
      BY <2>1, <2>2
  <1>6. TypeOK'
    BY <1>1, <1>2, <1>5 DEF TypeOK, Memory, Queues, Works, Rows
  <1>7. \A w \in DOMAIN work :
             work'[w].req = work[w].req /\ work'[w].name = work[w].name
    BY <1>1, <1>2, Working DEF Work
  <1>8. Grows
    BY <1>2, <1>5, <1>7 DEF Grows
  <1>9. JobInv' /\ RowInv'
    BY <1>2, <1>8, OrderKept
  <1>10. \A w \in DOMAIN work : work[w].step = "done" => work'[w] = work[w]
    BY <1>2 DEF Ended
  <1>11. \A w \in outQueue' : work'[w].step = "done"
    BY <1>1, <1>2, <1>10 DEF AnswerInv, TypeOK
  <1>12. ASSUME NEW r \in Requests
         PROVE  /\ req'[r].phase # "new" => req'[r].at \in Processes
                /\ req'[r].phase = "answered" =>
                     \/ r \in daemonMap'[req'[r].at]
                     \/ \E w \in DOMAIN work' : work'[w].req = r /\ work'[w].step = "done"
    <2>1. /\ req[r].phase # "new" => req[r].at \in Processes
          /\ req[r].phase = "answered" =>
               \/ r \in daemonMap[req[r].at]
               \/ \E w \in DOMAIN work : work[w].req = r /\ work[w].step = "done"
      BY <1>1 DEF AnswerInv
    <2>2. CASE req'[r] = req[r] /\ req[r].at # p
      BY <1>2, <1>4, <1>7, <1>10, <2>1, <2>2
    <2>3. CASE req'[r] = req[r] /\ req[r].phase \notin {"send", "set", "answered"}
      BY <2>1, <2>3
    <2>4. CASE /\ req'[r].at = req[r].at /\ req'[r].phase \in {"lost", "forgotten"}
               /\ req[r].phase # "new"
      BY <2>1, <2>4
    <2> QED
      BY <1>3, <2>2, <2>3, <2>4
  <1>13. AnswerInv'
    BY <1>11, <1>12 DEF AnswerInv
  <1> QED
    BY <1>6, <1>9, <1>13 DEF VideoInv

\* A crash, an exception in the work and a failed upload all are deaths.
LEMMA DeathsKeep ==
    ASSUME VideoInv,
           \/ \E p \in Processes : Crash(p)
           \/ \E w \in DOMAIN work :
                 WorkFails(w) \/ \E folders \in SUBSET Folders : UploadFails(w, folders)
    PROVE  VideoInv'
  <1>1. CASE \E p \in Processes : Crash(p)
    BY <1>1, DieKeeps DEF Crash
  <1>2. CASE \E w \in DOMAIN work : WorkFails(w)
    BY <1>2, DieKeeps DEF WorkFails
  <1>3. CASE \E w \in DOMAIN work, folders \in SUBSET Folders : UploadFails(w, folders)
    <2>1. PICK w \in DOMAIN work, folders \in SUBSET Folders : UploadFails(w, folders)
      BY <1>3
    <2> QED
      BY <2>1, DieKeeps DEF UploadFails
  <1> QED
    BY <1>1, <1>2, <1>3

\* The receipt of a message keeps the invariant.
LEMMA ReceiveKeeps ==
    ASSUME VideoInv, NEW p \in Processes, NEW r \in Requests, Receive(p, r)
    PROVE  VideoInv'
  <1>1. TypeOK /\ AnswerInv
    BY DEF VideoInv
  <1>2. /\ Works' /\ DOMAIN work \subseteq DOMAIN work'
        /\ \A u \in DOMAIN work : work'[u] = work[u]
        /\ \A u \in DOMAIN work' \ DOMAIN work : work'[u] = Started(p, r)
    BY <1>1, ReceiveMoves
  <1>3. UNCHANGED <<req, processes, outQueue, rows, clock>>
    BY DEF Receive
  <1>4. Queues'
    BY <1>1 DEF Receive, TypeOK, Queues, Left
  <1>5. TypeOK'
    BY <1>1, <1>2, <1>3, <1>4 DEF TypeOK, Memory, Queues, Works, Rows, processes, rows
  <1>6. Grows
    BY <1>2, <1>3 DEF Grows, rows
  <1>7. ASSUME NEW u \in DOMAIN work' \ DOMAIN work
        PROVE  JobOK(u)'
    <2>1. work'[u].step = "prompt" /\ work'[u].name = None
      BY <1>2 DEF Started
    <2> QED
      BY <2>1 DEF JobOK, HasPrompt, HasVideo, Completed, Named, Kept, Entered
  <1>8. JobInv' /\ RowInv'
    BY <1>2, <1>3, <1>6, <1>7, OrderKept DEF rows
  <1>9. AnswerInv'
    BY <1>1, <1>2, <1>3, AnswersKept DEF processes
  <1> QED
    BY <1>5, <1>8, <1>9 DEF VideoInv

\* What the loop over the answers takes out of a map is finished, so that the
\* invariant is kept: an answer is consumed, or a call fails.
LEMMA ForgottenKeeps ==
    ASSUME VideoInv, NEW p \in Processes,
           UNCHANGED <<req, deployed, up, receiving, inQueue, taken, work, rows, clock>>,
           outQueue' \subseteq outQueue, consuming' \subseteq consuming, faults' \in Nat,
           \/ daemonMap' = daemonMap
           \/ \E w \in outQueue :
                 daemonMap' = [daemonMap EXCEPT ![p] = @ \ {work[w].req}]
    PROVE  VideoInv'
  <1>1. TypeOK /\ AnswerInv
    BY DEF VideoInv
  <1>2. TypeOK'
    <2>1. daemonMap' \in [Processes -> SUBSET Requests]
      BY <1>1 DEF TypeOK
    <2> QED
      BY <1>1, <2>1 DEF TypeOK, rows
  <1>3. JobInv' /\ RowInv'
    BY WorkIsLeft
  <1>4. AnswerInv'
    <2>1. CASE daemonMap' = daemonMap
      BY <1>1, <2>1 DEF AnswerInv
    <2>2. CASE \E w \in outQueue :
                  daemonMap' = [daemonMap EXCEPT ![p] = @ \ {work[w].req}]
      <3>1. PICK w \in outQueue : daemonMap' = [daemonMap EXCEPT ![p] = @ \ {work[w].req}]
        BY <2>2
      <3>2. w \in DOMAIN work /\ work[w].step = "done"
        BY <1>1 DEF TypeOK, AnswerInv
      <3>3. \A q \in Processes, r \in Requests :
               r \in daemonMap[q] => r \in daemonMap'[q] \/ r = work[w].req
        BY <1>1, <3>1 DEF TypeOK
      <3> QED
        BY <1>1, <3>2, <3>3 DEF AnswerInv
    <2> QED
      BY <2>1, <2>2
  <1> QED
    BY <1>2, <1>3, <1>4 DEF VideoInv

\* The loop over the answers keeps the invariant, whether it goes on or ends.
LEMMA ConsumeKeeps ==
    ASSUME VideoInv, NEW p \in Processes,
           ConsumeFails(p) \/ \E w \in DOMAIN work : Consume(p, w)
    PROVE  VideoInv'
  <1>1. TypeOK
    BY DEF VideoInv
  <1>2. /\ UNCHANGED <<req, deployed, up, receiving, inQueue, taken, work, rows, clock>>
        /\ outQueue' \subseteq outQueue /\ consuming' \subseteq consuming
    BY DEF Consume, ConsumeFails
  <1>3. faults' \in Nat
    BY <1>1 DEF Consume, ConsumeFails, TypeOK
  <1>4. \/ daemonMap' = daemonMap
        \/ \E w \in outQueue :
              daemonMap' = [daemonMap EXCEPT ![p] = @ \ {work[w].req}]
    BY DEF Consume, ConsumeFails, Forgotten
  <1> QED
    BY <1>2, <1>3, <1>4, ForgottenKeeps

\* A request that is charged, sent and remembered keeps the invariant.
LEMMA RequestsKeep ==
    ASSUME VideoInv, NEW r \in Requests,
           Produce(r) \/ Remember(r) \/ \E p \in Processes : Charge(r, p)
    PROVE  VideoInv'
  <1>1. TypeOK /\ AnswerInv
    BY DEF VideoInv
  <1>2. UNCHANGED <<work, rows, clock, outQueue, deployed, up, receiving, consuming, faults, taken>>
    BY DEF Produce, Remember, Charge, processes, queues
  <1>3. JobInv' /\ RowInv'
    BY <1>2, WorkIsLeft
  <1>4. CASE Produce(r)
    <2>1. daemonMap' = daemonMap /\ inQueue' \subseteq Requests
      BY <1>1, <1>4 DEF Produce, processes, TypeOK
    <2>2. PICK h \in {"set", "refused"} : req' = [req EXCEPT ![r].phase = h]
      BY <1>4 DEF Produce
    <2>3. TypeOK'
      BY <1>1, <1>2, <2>1, <2>2 DEF TypeOK, rows, Phases
    <2>4. /\ \A q \in Requests \ {r} : req'[q] = req[q]
          /\ req'[r].phase = h /\ req'[r].at = req[r].at /\ req[r].phase # "new"
      BY <1>1, <1>4, <2>2 DEF TypeOK, Produce
    <2>5. AnswerInv'
      BY <1>1, <1>2, <2>1, <2>4 DEF AnswerInv
    <2> QED
      BY <1>3, <2>3, <2>5 DEF VideoInv
  <1>5. CASE Remember(r)
    <2>1. inQueue' = inQueue /\ req[r].at \in Processes
      BY <1>1, <1>5 DEF Remember, queues, AnswerInv
    <2>2. TypeOK'
      BY <1>1, <1>2, <1>5, <2>1 DEF TypeOK, rows, Phases, Remember
    <2>3. /\ \A q \in Requests \ {r} : req'[q] = req[q]
          /\ req'[r].at = req[r].at /\ r \in daemonMap'[req[r].at]
          /\ \A q \in Processes : daemonMap[q] \subseteq daemonMap'[q]
      BY <1>1, <1>5, <2>1 DEF TypeOK, Remember
    <2>4. AnswerInv'
      BY <1>1, <1>2, <2>1, <2>3 DEF AnswerInv
    <2> QED
      BY <1>3, <2>2, <2>4 DEF VideoInv
  <1>6. CASE \E p \in Processes : Charge(r, p)
    <2>1. PICK p \in Processes : req' = [req EXCEPT ![r] = [at |-> p, phase |-> "send"]]
      BY <1>6 DEF Charge
    <2>2. inQueue' = inQueue /\ daemonMap' = daemonMap
      BY <1>6 DEF Charge, queues, processes
    <2>3. TypeOK'
      BY <1>1, <1>2, <2>1, <2>2 DEF TypeOK, rows, Phases
    <2>4. /\ \A q \in Requests \ {r} : req'[q] = req[q]
          /\ req'[r].phase = "send" /\ req'[r].at = p
      BY <1>1, <2>1 DEF TypeOK
    <2>5. AnswerInv'
      BY <1>1, <1>2, <2>2, <2>4 DEF AnswerInv
    <2> QED
      BY <1>3, <2>3, <2>5 DEF VideoInv
  <1> QED
    BY <1>4, <1>5, <1>6

\* The deletion of a message, the start of a process and the end of the loop over
\* the messages keep the invariant.
LoopMoves(p) ==
    \/ DeleteMessage(p) \/ Restart(p) \/ ReceiveFails(p)
    \/ \E deleted \in BOOLEAN : DeleteFails(p, deleted)
LEMMA LoopsKeep ==
    ASSUME VideoInv, NEW p \in Processes, LoopMoves(p)
    PROVE  VideoInv'
  <1>1. TypeOK /\ AnswerInv
    BY DEF VideoInv
  <1>2. UNCHANGED <<req, daemonMap, deployed, outQueue, work, rows, clock>>
    BY DEF LoopMoves, DeleteMessage, Restart, ReceiveFails, DeleteFails, LoopEnds, processes,
           queues
  <1>3. up' \subseteq deployed /\ receiving' \subseteq up' /\ consuming' \subseteq up'
    BY <1>1 DEF LoopMoves, DeleteMessage, Restart, ReceiveFails, DeleteFails, LoopEnds,
                processes, TypeOK
  <1>4. faults' \in Nat
    BY <1>1 DEF LoopMoves, DeleteMessage, Restart, ReceiveFails, DeleteFails, LoopEnds,
                processes, TypeOK
  <1>5. inQueue' \subseteq Requests /\ taken' \in [Processes -> SUBSET Requests]
    BY <1>1 DEF LoopMoves, DeleteMessage, Restart, ReceiveFails, DeleteFails, queues, TypeOK
  <1>6. TypeOK'
    BY <1>1, <1>2, <1>3, <1>4, <1>5 DEF TypeOK, rows
  <1>7. JobInv' /\ RowInv'
    BY <1>2, WorkIsLeft
  <1>8. AnswerInv'
    BY <1>1, <1>2, AnswersKept
  <1> QED
    BY <1>6, <1>7, <1>8 DEF VideoInv

----------------------------------------------------------------------------
(* The specification                                                        *)

\* Before the first request nothing is stored or answered.
LEMMA VideoInit == Init => VideoInv
  <1> SUFFICES ASSUME Init PROVE VideoInv
    OBVIOUS
  <1>1. /\ req \in [Requests -> [at : Processes \cup {None}, phase : Phases]]
        /\ \A r \in Requests : req[r].phase = "new"
    BY DEF Init, Phases
  <1>2. /\ daemonMap \in [Processes -> SUBSET Requests]
        /\ taken \in [Processes -> SUBSET Requests]
        /\ deployed \subseteq Processes /\ up = deployed
        /\ receiving = deployed /\ consuming = deployed
        /\ inQueue = {} /\ outQueue = {} /\ faults \in Nat /\ clock \in 0 .. MaxTime
    BY JobsAssumption DEF Init
  <1>3. /\ work = <<>> /\ prompts = <<>> /\ videos = <<>>
        /\ DOMAIN work = {} /\ DOMAIN videos = {}
    BY DEF Init
  <1>4. store \in [Folders -> [1 .. MaxTime -> Requests \cup {None}]]
    BY DEF Init
  <1>5. TypeOK
    BY <1>1, <1>2, <1>3, <1>4 DEF TypeOK
  <1>6. JobInv /\ RowInv
    BY <1>3 DEF JobInv, RowInv
  <1>7. AnswerInv
    BY <1>1, <1>2 DEF AnswerInv
  <1> QED
    BY <1>5, <1>6, <1>7 DEF VideoInv

\* Every step keeps the invariant.
LEMMA VideoNext == VideoInv /\ [Next]_vars => VideoInv'
  <1> SUFFICES ASSUME VideoInv, [Next]_vars PROVE VideoInv'
    OBVIOUS
  <1>1. ASSUME NEW r \in Requests, Produce(r) \/ Remember(r)
        PROVE  VideoInv'
    BY <1>1, RequestsKeep
  <1>2. ASSUME NEW r \in Requests, NEW p \in Processes, Charge(r, p)
        PROVE  VideoInv'
    BY <1>2, RequestsKeep
  <1>3. ASSUME NEW r \in Requests, NEW p \in Processes, Receive(p, r)
        PROVE  VideoInv'
    BY <1>3, ReceiveKeeps
  <1>4. ASSUME NEW p \in Processes, LoopMoves(p)
        PROVE  VideoInv'
    BY <1>4, LoopsKeep
  <1>5. ASSUME NEW p \in Processes, ConsumeFails(p) \/ \E w \in DOMAIN work : Consume(p, w)
        PROVE  VideoInv'
    BY <1>5, ConsumeKeeps
  <1>6. ASSUME NEW w \in DOMAIN work, Step(w)
        PROVE  VideoInv'
    BY <1>6, PreparePromptKeeps, PrepareVideoKeeps, CompleteKeeps, ExtractKeeps, UpdateRowKeeps,
       UploadKeeps DEF Step
  <1>7. ASSUME NEW w \in DOMAIN work, NEW sent \in BOOLEAN, ProduceResult(w, sent)
        PROVE  VideoInv'
    BY <1>7, ProduceResultKeeps
  <1>8. ASSUME \/ \E p \in Processes : Crash(p)
               \/ \E w \in DOMAIN work :
                     WorkFails(w) \/ \E folders \in SUBSET Folders : UploadFails(w, folders)
        PROVE  VideoInv'
    BY <1>8, DeathsKeep
  <1>9. CASE UNCHANGED vars
    <2>1. /\ UNCHANGED <<work, rows>> /\ TypeOK' /\ UNCHANGED <<req, daemonMap, outQueue>>
      BY <1>9 DEF VideoInv, vars, rows, TypeOK
    <2>2. JobInv' /\ RowInv'
      BY <2>1, WorkIsLeft
    <2>3. AnswerInv'
      BY <2>1, AnswersKept DEF VideoInv
    <2> QED
      BY <2>1, <2>2, <2>3 DEF VideoInv
  <1> QED
    BY <1>1, <1>2, <1>3, <1>4, <1>5, <1>6, <1>7, <1>8, <1>9 DEF Next, LoopMoves

\* The invariant holds always.
LEMMA VideoAlways == Spec => []VideoInv
  <1> QED
    BY VideoInit, VideoNext, PTL DEF Spec

\* Every variable has its type, whatever dies, fails and is delivered again: a piece of
\* work goes through the steps of the callback (VideoDaemonService.execute).
THEOREM VideoTypeCorrect == Spec => []TypeOK
  <1>1. VideoInv => TypeOK
    BY DEF VideoInv
  <1> QED
    BY <1>1, VideoAlways, PTL

\* A row that names a video follows a prompt that was completed, and both files
\* were stored before it was written, with whatever work and deaths there were
\* (VideoDaemonService.execute, uploadVideo): a file under its name is another
\* request's only if the two were named in the same millisecond.
THEOREM StoredBeforeNamed == Spec => []RowsHaveFiles
  <1>1. VideoInv => RowsHaveFiles
    BY DEF VideoInv, RowInv, RowOK, InStore, RowsHaveFiles
  <1> QED
    BY <1>1, VideoAlways, PTL

\* The only row of a request is the first one.
LEMMA OnlyRow ==
    ASSUME TypeOK, NEW r \in Requests, Cardinality(RowsOf(r)) = 1, NEW v \in RowsOf(r)
    PROVE  FirstRow(r) = v
  <1>1. IsFiniteSet(RowsOf(r))
    <2>1. DOMAIN videos = 1 .. Len(videos) /\ Len(videos) \in Nat
      BY LenProperties DEF TypeOK
    <2>2. IsFiniteSet(DOMAIN videos) /\ RowsOf(r) \subseteq DOMAIN videos
      BY <2>1, FS_Interval DEF RowsOf
    <2> QED
      BY <2>2, FS_Subset
  <1>2. RowsOf(r) = {v}
    <2>1. PICK x : RowsOf(r) = {x}
      BY <1>1, FS_Singleton
    <2> QED
      BY <2>1
  <1>3. v \in Nat
    BY LenProperties DEF RowsOf, TypeOK
  <1>4. FirstRow(r) \in RowsOf(r)
    BY <1>2, <1>3 DEF FirstRow
  <1> QED
    BY <1>2, <1>4

\* A process that is still the one a request came to says that it is complete
\* only when its video is stored, unless the message was delivered twice, whatever
\* died meanwhile (ApiPromptController.ready, VideoDaemonService.execute).
THEOREM CompletedIsStored == Spec => []CompleteIsStored
  <1>1. ASSUME VideoInv, NEW r \in Requests, NEW p \in up,
               req[r] = [at |-> p, phase |-> "answered"], Cardinality(RowsOf(r)) = 1,
               Ready(r, p) = "complete"
        PROVE  videos[FirstRow(r)].name # None
    <2>1. r \notin daemonMap[p] /\ TypeOK
      BY <1>1 DEF Ready, Loading, VideoInv
    <2>2. PICK w \in DOMAIN work : work[w].req = r /\ work[w].step = "done"
      BY <1>1, <2>1 DEF VideoInv, AnswerInv
    <2>3. /\ work[w].video \in RowsOf(r) /\ videos[work[w].video].name # None
      BY <1>1, <2>2 DEF VideoInv, JobInv, JobOK, RowsOf, HasVideo, HasPrompt, Completed, Named,
                        Kept, Entered
    <2>4. FirstRow(r) = work[w].video
      BY <1>1, <2>1, <2>3, OnlyRow
    <2> QED
      BY <2>3, <2>4
  <1>2. VideoInv => CompleteIsStored
    BY <1>1 DEF CompleteIsStored
  <1> QED
    BY <1>2, VideoAlways, PTL

============================================================================
