----------------------------- MODULE Workspace -----------------------------
(***************************************************************************)
(* The workspace of a user: a list of keywords (workspaceHashtag of the    *)
(* user), and the keywords each of the user's videos is tagged with        *)
(* (workspaceHashTag of the video).  A request edits the list and carries  *)
(* the change over to the videos, or tags videos with a keyword.  Nothing  *)
(* is a transaction: the videos are read, changed in the process and       *)
(* written one by one, and two requests of the user (two tabs) interleave. *)
(* `asked` is the abstract workspace, in which each request is one step.   *)
(* A definition marked "Fault" is used by no action: it is a plausible     *)
(* mistake in the definition after it, which a property must notice.       *)
(***************************************************************************)
EXTENDS Integers, Sequences, FiniteSets, SequencesExt

CONSTANTS
    Keywords,
    Videos,      \* the user's videos
    Tabs,        \* of the user; a tab makes one request after the other
    Edits,       \* the edits asked for: [deleted, renamed, added]
    Verified,    \* the page sends each keyword of the new list once
    MaxRequests, \* bound: the requests made
    MaxCrashes   \* bound: the deaths of the process during a request

ASSUME KeywordsAssumption == IsFiniteSet(Keywords)
\* The page has one box for each keyword, in which it is deleted or renamed; when
\* it is both, the new name is also that of a keyword that stays, since the page
\* puts the name on the list it sends.
ASSUME EditsAssumption == \A e \in Edits :
    /\ e.deleted \in Seq(Keywords) /\ e.added \in Seq(Keywords)
    /\ e.renamed \in Seq([old : Keywords, new : Keywords])
    /\ \A m, n \in DOMAIN e.renamed : e.renamed[m].old = e.renamed[n].old => m = n
    /\ \A n \in DOMAIN e.renamed : \E m \in DOMAIN e.renamed :
          e.renamed[m].new = e.renamed[n].new /\ e.renamed[m].old \notin ToSet(e.deleted)

VARIABLES
    keywords,  \* mc_user.workspace_hashtag, split
    tags,      \* mc_raw_video.workspace_hash_tag of each video, split
    request,   \* the request of each tab, where it is in its handler
    asked,     \* history: the workspace if each request was done when it came
    listed,    \* history: the keywords that were ever on the list
    blurred,   \* history: what may have kept a request from being done
    made, crashes

workspaceVars == <<keywords, tags, request, asked, listed, blurred, made, crashes>>

Idle == [op |-> "idle"]
NoRows == [v \in {} |-> <<>>]
\* What s has at some places, in the order of s.
Taken(s, places) ==
    LET order == CHOOSE f \in [1..Cardinality(places) -> places] :
                    \A m, n \in 1..Cardinality(places) : m < n => f[m] < f[n]
    IN  [n \in 1..Cardinality(places) |-> s[order[n]]]
Without(s, K) == Taken(s, {n \in DOMAIN s : s[n] \notin K})
Renaming(pairs, k) ==
    IF \E n \in DOMAIN pairs : pairs[n].old = k
    THEN pairs[CHOOSE n \in DOMAIN pairs : pairs[n].old = k].new ELSE k
Renamed(s, pairs) == [n \in DOMAIN s |-> Renaming(pairs, s[n])]
Once(s) == Taken(s, {n \in DOMAIN s : \A m \in 1..(n - 1) : s[m] # s[n]})

\* The list the page sends: the old one with its keywords removed, renamed and
\* added.  Taking out what appears twice is left to the page.
Final(e) ==
    LET s == Renamed(Without(keywords, ToSet(e.deleted)), e.renamed) \o e.added
    IN  IF Verified THEN Once(s) ELSE s
Repeats(s) == ~IsInjective(s)
Tagged(k) == {v \in Videos : k \in ToSet(tags[v])}

-----------------------------------------------------------------------------
Begin(r, job, after, blur) ==
    /\ request[r] = Idle /\ made < MaxRequests
    /\ request' = [request EXCEPT ![r] = job]
    /\ made' = made + 1
    /\ asked' = after
    /\ blurred' = blurred \cup blur
                     \cup IF \A q \in Tabs : request[q] = Idle THEN {} ELSE {"overlap"}
    /\ UNCHANGED <<keywords, tags, listed, crashes>>

\* update-keyword.  The list that is looked at for repetitions is the one the
\* guard read, not the one that was sent.
EditJob(e) ==
    [op |-> "edit", phase |-> "save", final |-> Final(e), deleted |-> ToSet(e.deleted),
     left |-> e.deleted, renamed |-> e.renamed, rows |-> NoRows]
Edited(e) ==
    LET after(K) == {Renaming(e.renamed, k) : k \in K \ ToSet(e.deleted)}
    IN  [keywords |-> after(asked.keywords) \cup ToSet(e.added),
         tags |-> [v \in Videos |-> after(asked.tags[v])]]
\* The pairs are taken one after the other: what the first gives is what a later
\* one takes.
Chained(pairs) ==
    \E m, n \in DOMAIN pairs : m < n /\ pairs[m].new = pairs[n].old
StartEdit(r, e) ==
    /\ ~Repeats(keywords)
    /\ ToSet(e.deleted) \cup {e.renamed[n].old : n \in DOMAIN e.renamed} \subseteq ToSet(keywords)
    /\ Begin(r, EditJob(e), Edited(e), IF Chained(e.renamed) THEN {"chain"} ELSE {})

SaveKeywords(r) ==
    /\ request[r].op = "edit" /\ request[r].phase = "save"
    /\ keywords' = request[r].final
    /\ listed' = listed \cup ToSet(request[r].final)
    /\ request' = [request EXCEPT ![r].phase = "find"]
    /\ UNCHANGED <<tags, asked, blurred, made, crashes>>

\* deleteKeyword and updateKeyword take the keywords one after the other.  When
\* no video has the keyword that is due, they return and leave out the others.
Rest(s, rows) == IF DOMAIN rows = {} THEN <<>> ELSE Tail(s)
Cut(s, rows) ==
    blurred' = IF DOMAIN rows = {} /\ Len(s) > 1 THEN blurred \cup {"cut"} ELSE blurred

\* Fault: the other keywords are not taken out.
UntaggedFault(r, v) == tags[v]
Untagged(r, v) == Without(tags[v], request[r].deleted)
FindDeleted(r) ==
    /\ request[r].op = "edit" /\ request[r].phase = "find" /\ request[r].left # <<>>
    /\ LET left == request[r].left
           rows == [v \in Tagged(Head(left)) |-> Untagged(r, v)]
       IN  /\ request' = [request EXCEPT ![r].rows = rows, ![r].left = Rest(left, rows),
                                         ![r].phase = "write"]
           /\ Cut(left, rows)
    /\ UNCHANGED <<keywords, tags, asked, listed, made, crashes>>

FindRenamed(r) ==
    /\ request[r].op = "edit" /\ request[r].phase = "find"
    /\ request[r].left = <<>> /\ request[r].renamed # <<>>
    /\ LET left == request[r].renamed
           rows == [v \in Tagged(Head(left).old) |-> Renamed(tags[v], <<Head(left)>>)]
       IN  /\ request' = [request EXCEPT ![r].rows = rows, ![r].renamed = Rest(left, rows),
                                         ![r].phase = "write"]
           /\ Cut(left, rows)
    /\ UNCHANGED <<keywords, tags, asked, listed, made, crashes>>

\* move-to-workspace: the keyword is on the list the guard read.
\* Fault: any keyword is taken.
OnListFault(k) == TRUE
OnList(k) == k \in ToSet(keywords)
StartMove(r, k, V) ==
    /\ OnList(k) /\ V # {}
    /\ Begin(r, [op |-> "move", phase |-> "find", keyword |-> k, videos |-> V,
                 left |-> <<>>, renamed |-> <<>>, rows |-> NoRows],
             [asked EXCEPT !.tags =
                 [v \in Videos |-> IF v \in V THEN @[v] \cup {k} ELSE @[v]]], {})
FindMoved(r) ==
    /\ request[r].op = "move" /\ request[r].phase = "find"
    /\ LET k == request[r].keyword
       IN  request' = [request EXCEPT
               ![r].rows = [v \in request[r].videos |-> Append(Without(tags[v], {k}), k)],
               ![r].phase = "write"]
    /\ UNCHANGED <<keywords, tags, asked, listed, blurred, made, crashes>>

\* The rows are written at the same time, each by a statement of its own.
WriteRow(r, v) ==
    /\ request[r].op # "idle" /\ request[r].phase = "write"
    /\ v \in DOMAIN request[r].rows
    /\ tags' = [tags EXCEPT ![v] = request[r].rows[v]]
    /\ request' = [request EXCEPT ![r].rows = [w \in DOMAIN @ \ {v} |-> @[w]]]
    /\ UNCHANGED <<keywords, asked, listed, blurred, made, crashes>>
RowsWritten(r) ==
    /\ request[r].op # "idle" /\ request[r].phase = "write" /\ DOMAIN request[r].rows = {}
    /\ request' = [request EXCEPT ![r].phase = IF request[r].op = "edit" THEN "find" ELSE "done"]
    /\ UNCHANGED <<keywords, tags, asked, listed, blurred, made, crashes>>

Answer(r) ==
    /\ request[r].op # "idle"
    /\ \/ request[r].phase = "done"
       \/ /\ request[r].op = "edit" /\ request[r].phase = "find"
          /\ request[r].left = <<>> /\ request[r].renamed = <<>>
    /\ request' = [request EXCEPT ![r] = Idle]
    /\ UNCHANGED <<keywords, tags, asked, listed, blurred, made, crashes>>

\* The process dies, or a statement fails: the request ends where it is.
Die(r) ==
    /\ request[r] # Idle /\ crashes < MaxCrashes
    /\ request' = [request EXCEPT ![r] = Idle]
    /\ crashes' = crashes + 1
    /\ blurred' = blurred \cup {"crash"}
    /\ UNCHANGED <<keywords, tags, asked, listed, made>>

-----------------------------------------------------------------------------
\* The list is set, and each video has some of its keywords.
WorkspaceInit ==
    /\ \E K \in SUBSET Keywords : keywords = SetToSeq(K)
    /\ \E f \in [Videos -> SUBSET ToSet(keywords)] : tags = [v \in Videos |-> SetToSeq(f[v])]
    /\ request = [r \in Tabs |-> Idle]
    /\ asked = [keywords |-> ToSet(keywords), tags |-> [v \in Videos |-> ToSet(tags[v])]]
    /\ listed = ToSet(keywords)
    /\ blurred = {} /\ made = 0 /\ crashes = 0

WorkspaceNext ==
    \E r \in Tabs :
       \/ \E e \in Edits : StartEdit(r, e)
       \/ \E k \in Keywords, V \in SUBSET Videos : StartMove(r, k, V)
       \/ SaveKeywords(r) \/ FindDeleted(r) \/ FindRenamed(r) \/ FindMoved(r)
       \/ \E v \in Videos : WriteRow(r, v)
       \/ RowsWritten(r) \/ Answer(r) \/ Die(r)

WorkspaceSpec == WorkspaceInit /\ [][WorkspaceNext]_workspaceVars

-----------------------------------------------------------------------------
\* Properties.

WorkspaceTypeOK ==
    /\ keywords \in Seq(Keywords) /\ tags \in [Videos -> Seq(Keywords)]
    /\ \A r \in Tabs : request[r] # Idle => DOMAIN request[r].rows \subseteq Videos
    /\ asked \in [keywords : SUBSET Keywords, tags : [Videos -> SUBSET Keywords]]
    /\ blurred \subseteq {"overlap", "chain", "cut", "crash"}

Quiet == \A r \in Tabs : request[r] = Idle

\* When the requests came one after the other, and each was carried through,
\* and no name was given up and taken by one request,
\* list and videos are what they would be had each request been one step: what
\* was deleted is on no video, what was renamed has its new name everywhere, and
\* no other tag is lost.
DoneAsAsked ==
    Quiet /\ blurred = {} =>
        /\ ToSet(keywords) = asked.keywords
        /\ \A v \in Videos : ToSet(tags[v]) = asked.tags[v]

\* However requests interleave and wherever they end, a video is tagged only
\* with what was a keyword of the list before: the list is saved first.
TagsWereListed == \A v \in Videos : ToSet(tags[v]) \subseteq listed

=============================================================================
