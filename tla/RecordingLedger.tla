-------------------------- MODULE RecordingLedger --------------------------
(***************************************************************************)
(* The recordings table and the files it lists: the segment files that SRS  *)
(* writes on a media node and the app's own recorder writes on its disk,    *)
(* the reports that list them (services/media-node-handlers.ts, recorder.ts)*)
(* with the node's retries, merging by event and stream, deletion,          *)
(* retention, the page of an event's recordings, and the cache of glued     *)
(* files that playback is served from.  RecordingPull models the transfer   *)
(* of one request's segments.                                               *)
(*                                                                          *)
(* One stream name: rows of two names never meet.  A session writes one     *)
(* segment file, named by the session; its size is one unit.  A frame on a  *)
(* node's connection arrives in order or is lost with the connection.       *)
(***************************************************************************)
EXTENDS Naturals, FiniteSets, Sequences, SequencesExt

CONSTANTS
  Nodes,     \* media nodes
  Local,     \* the app's own disk
  Events,
  Sessions,  \* publish sessions of the stream
  MaxRows,   \* bound: rows ever inserted
  MaxViews,  \* bound: requests for a file
  MaxFaults, \* bound: connections cut, failed writes, restarts, refused reports
  None

Hosts == Nodes \cup {Local}
Ids == 1..MaxRows

\* Publications, and rows of recordings.
SessionRows == [event : Events \cup {None}, host : Hosts, near : SUBSET Sessions,
                prior : SUBSET Sessions, phase : {"live", "ended", "scanned", "cut"}]
RecordingRows == [event : Events \cup {None}, host : Hosts, segs : Seq(Sessions),
                  size : Nat, aged : BOOLEAN]

ASSUME LedgerAssumption ==
  /\ Local \notin Nodes /\ None \notin Hosts \cup Events \cup Sessions
  /\ None \notin SessionRows \cup RecordingRows
  /\ MaxRows \in Nat \ {0} /\ MaxViews \in Nat /\ MaxFaults \in Nat

VARIABLES
  session,  \* None, or where and for which event a session publishes
  gone,     \* events deleted
  files,    \* sessions whose segment is on the disk of their host
  tmp,      \* sessions with a temporary file of the app's recorder
  report,   \* the node's pending report of a session: segments, or None
  online,   \* nodes with a connection
  up, down, \* frames on the connection of a node, to the app and from it
  rows, nextRow,
  page,     \* the listing of an event: event -> None or a row and its flag
  glue,     \* cached files: name -> the list it was glued from
  armed,    \* timers that unlink a cached file
  asked,    \* the request that waits for its glue, or None
  views, faults,
  answer,   \* history: the list a request found, and the list it was served
  listed, lost  \* history: sessions ever in a row; sessions reported in vain

diskVars == <<files, tmp>>
nodeVars == <<session, report>>
linkVars == <<online, up, down>>
tableVars == <<rows, nextRow, gone>>
cacheVars == <<glue, armed, asked, views, answer>>
vars == <<diskVars, nodeVars, linkVars, tableVars, page, cacheVars, faults, listed, lost>>

-----------------------------------------------------------------------------
Init ==
  /\ session = [s \in Sessions |-> None]
  /\ gone = {} /\ files = {} /\ tmp = {}
  /\ report = [s \in Sessions |-> None]
  /\ online = Nodes
  /\ up = [n \in Nodes |-> <<>>] /\ down = [n \in Nodes |-> <<>>]
  /\ rows = [r \in Ids |-> None] /\ nextRow = 1
  /\ page = [e \in Events |-> None]
  /\ glue = {} /\ armed = <<>> /\ asked = None /\ views = 0 /\ answer = None
  /\ faults = 0 /\ listed = {} /\ lost = {}

Published == {s \in Sessions : session[s] # None}
In(s, phase) == s \in Published /\ session[s].phase = phase
Fault == faults < MaxFaults /\ faults' = faults + 1
Row(r) == r \in Ids /\ rows[r] # None

\* A list of segments without those of out.
Omit(segs, out) ==
  LET kept[i \in 0..Len(segs)] ==
        IF i = 0 THEN <<>>
        ELSE IF segs[i] \in out THEN kept[i - 1]
        ELSE Append(kept[i - 1], segs[i]) IN
  kept[Len(segs)]

-----------------------------------------------------------------------------
(* Sessions and their files.                                                *)

\* The stream goes on the air.  "near" are the sessions that ended within
\* the two seconds of grace of the report of this one.
Start(s, e, h) ==
  /\ s \notin Published /\ e \notin gone
  /\ ~\E t \in Published : session[t].phase = "live"
  /\ \E near \in SUBSET {t \in Published : session[t].event = e /\ session[t].host = h} :
       session' = [session EXCEPT ![s] = [event |-> e, host |-> h, near |-> near,
                                          prior |-> Published, phase |-> "live"]]
  /\ tmp' = IF h = Local THEN tmp \cup {s} ELSE tmp
  /\ UNCHANGED <<files, report, linkVars, tableVars, page, cacheVars, faults, listed, lost>>

\* The publisher leaves; SRS closes the file within the two seconds that the
\* node waits before it scans.
End(s) ==
  /\ In(s, "live")
  /\ session' = [session EXCEPT ![s].phase = "ended"]
  /\ files' = IF session[s].host = Local THEN files ELSE files \cup {s}
  /\ UNCHANGED <<tmp, report, linkVars, tableVars, page, cacheVars, faults, listed, lost>>

\* The sequences of a set of sessions, oldest first.
Chronological(S) ==
  {f \in [1..Cardinality(S) -> S] :
     \A j \in DOMAIN f : \A i \in 1..j - 1 : f[i] \in session[f[j]].prior}

\* reportRecording: the closed files of the directory of event and stream
\* that were written since the session started, two seconds of grace.
Written(s) ==
  LET near == session[s].near
      later == {t \in Published : s \in session[t].prior}
      own == {t \in ({s} \cup near \cup later) \cap files :
                session[t].host = session[s].host /\ session[t].event = session[s].event} IN
  Chronological(own)

\* Nothing on the disk: the node returns without a report.
Scan(s) ==
  /\ In(s, "ended") /\ session[s].host \in Nodes
  /\ session' = [session EXCEPT ![s].phase = "scanned"]
  /\ \E segs \in Written(s) :
       IF segs = <<>>
       THEN report' = report /\ lost' = lost \cup {s}
       ELSE report' = [report EXCEPT ![s] = segs] /\ lost' = lost
  /\ UNCHANGED <<diskVars, linkVars, tableVars, page, cacheVars, faults, listed>>

Ready(s) == [from |-> s, event |-> session[s].event, segs |-> report[s]]

\* Mutant: the report is tried once.
EmitOnce(s) ==
  /\ report[s] # None
  /\ up' = IF session[s].host \notin online THEN up
           ELSE [up EXCEPT ![session[s].host] = Append(@, Ready(s))]
  /\ report' = [report EXCEPT ![s] = None]
  /\ UNCHANGED <<diskVars, session, online, down, tableVars, page, cacheVars, faults, listed, lost>>

\* The report counts as landed once it is written to the connection.
Emit(s) ==
  /\ report[s] # None /\ session[s].host \in online
  /\ up' = [up EXCEPT ![session[s].host] = Append(@, Ready(s))]
  /\ report' = [report EXCEPT ![s] = None]
  /\ UNCHANGED <<diskVars, session, online, down, tableVars, page, cacheVars, faults, listed, lost>>

\* The write fails after the frame went out: it is sent again.
EmitUnsure(s) ==
  /\ Fault
  /\ report[s] # None /\ session[s].host \in online
  /\ up' = [up EXCEPT ![session[s].host] = Append(@, Ready(s))]
  /\ UNCHANGED <<diskVars, nodeVars, online, down, tableVars, page, cacheVars, listed, lost>>

\* Fifteen minutes without a connection.
GiveUp(s) ==
  /\ Fault
  /\ report[s] # None /\ session[s].host \notin online
  /\ report' = [report EXCEPT ![s] = None]
  /\ lost' = lost \cup {s}
  /\ UNCHANGED <<diskVars, session, linkVars, tableVars, page, cacheVars, listed>>

-----------------------------------------------------------------------------
(* Connections.                                                             *)

\* Frames in flight go with the connection.
CutLink(n) ==
  /\ online' = online \ {n}
  /\ up' = [up EXCEPT ![n] = <<>>]
  /\ down' = [down EXCEPT ![n] = <<>>]

Senders(n) == {up[n][i].from : i \in 1..Len(up[n])}

LinkDown(n) ==
  /\ Fault
  /\ n \in online
  /\ CutLink(n)
  /\ lost' = lost \cup Senders(n)
  /\ UNCHANGED <<diskVars, nodeVars, tableVars, page, cacheVars, listed>>

LinkUp(n) ==
  /\ n \notin online
  /\ online' = online \cup {n}
  /\ UNCHANGED <<diskVars, nodeVars, up, down, tableVars, page, cacheVars, faults, listed, lost>>

SendRecordingDelete(n, segs) ==
  IF n \in online THEN [down EXCEPT ![n] = Append(@, segs)] ELSE down

\* OnDelete: files that are not the node's are not there to remove.
OnDelete(n) ==
  /\ down[n] # <<>>
  /\ files' = files \ {s \in ToSet(Head(down[n])) : session[s].host = n}
  /\ down' = [down EXCEPT ![n] = Tail(@)]
  /\ UNCHANGED <<tmp, nodeVars, online, up, tableVars, page, cacheVars, faults, listed, lost>>

-----------------------------------------------------------------------------
(* The rows.                                                                *)

\* The newest row of the event; a recording without an event is never merged.
MergeTarget(e) == IF e = None THEN {} ELSE {r \in Ids : Row(r) /\ rows[r].event = e}

\* Mutant: the reported segments are appended blindly.
AppendAll(row, segs) == [row EXCEPT !.segs = @ \o segs, !.size = @ + Len(segs)]

\* Mutant: the last report comes first.
Prepend(row, segs) ==
  LET fresh == Omit(segs, ToSet(row.segs)) IN
  [row EXCEPT !.segs = fresh \o @, !.size = @ + Len(fresh)]

Merge(row, segs) ==
  LET fresh == Omit(segs, ToSet(row.segs)) IN
  [row EXCEPT !.segs = @ \o fresh, !.size = @ + Len(fresh)]

InsertRow(e, host, segs) ==
  /\ nextRow \in Ids
  /\ rows' = [rows EXCEPT ![nextRow] = [event |-> e, host |-> host, segs |-> segs,
                                        size |-> Len(segs), aged |-> FALSE]]
  /\ nextRow' = nextRow + 1

\* Mutant: every report gets a row of its own.
FileApart(e, host, segs) == InsertRow(e, host, segs)

\* Into the row of the event wherever its files are, else a row of its own.
File(e, host, segs) ==
  IF MergeTarget(e) # {}
  THEN \E r \in MergeTarget(e) :
         /\ rows' = [rows EXCEPT ![r] = Merge(@, segs)]
         /\ UNCHANGED nextRow
  ELSE InsertRow(e, host, segs)

Listings == UNION {ToSet(rows'[r].segs) : r \in {q \in Ids : rows'[q] # None}}

HandleRecordingReady(n) ==
  /\ up[n] # <<>>
  /\ Head(up[n]).event \notin gone
  /\ File(Head(up[n]).event, n, Head(up[n]).segs)
  /\ up' = [up EXCEPT ![n] = Tail(@)]
  /\ listed' = listed \cup Listings
  /\ UNCHANGED <<diskVars, nodeVars, online, down, gone, page, cacheVars, faults, lost>>

\* The event is gone: the insert breaks its foreign key, the handler throws
\* and the gateway closes the node's connection.
RefuseReport(n) ==
  /\ up[n] # <<>>
  /\ Head(up[n]).event \in gone
  /\ CutLink(n)
  /\ lost' = lost \cup Senders(n)
  /\ UNCHANGED <<diskVars, nodeVars, tableVars, page, cacheVars, faults, listed>>

\* The app's recorder: a session that kept to its limits is archived, another
\* one's file is removed.  Without its event the file is in place, unlisted.
FinalizeRecording(s) ==
  /\ In(s, "ended") /\ s \in tmp
  /\ tmp' = tmp \ {s}
  /\ session' = [session EXCEPT ![s].phase = "scanned"]
  /\ \/ /\ files' = files \cup {s}
        /\ IF session[s].event \in gone
           THEN UNCHANGED <<rows, nextRow, listed>>
           ELSE File(session[s].event, Local, <<s>>) /\ listed' = listed \cup Listings
     \/ UNCHANGED <<files, rows, nextRow, listed>>
  /\ UNCHANGED <<report, linkVars, gone, page, cacheVars, faults, lost>>

\* Mutant: only the first segment is removed from the app's disk.
RmFirst(segs) == files \ {s \in {segs[1]} : session[s].host = Local}

\* rmSync of every listed path under the app's record directory.
RmLocal(segs) == files \ {s \in ToSet(segs) : session[s].host = Local}

\* deleteRecording: the row goes whether or not the node hears of it.
DeleteRecording(r) ==
  /\ Row(r)
  /\ files' = RmLocal(rows[r].segs)
  /\ down' = IF rows[r].host = Local THEN down
             ELSE SendRecordingDelete(rows[r].host, rows[r].segs)
  /\ rows' = [rows EXCEPT ![r] = None]

\* Mutant: the recordings of a deleted event keep their rows.
DeleteEventRow(e) ==
  /\ e \notin gone
  /\ gone' = gone \cup {e}
  /\ UNCHANGED <<diskVars, nodeVars, linkVars, rows, nextRow, page, cacheVars, faults, listed, lost>>

\* recordings.eventId: onDelete cascade.
DeleteEvent(e) ==
  /\ e \notin gone
  /\ gone' = gone \cup {e}
  /\ rows' = [r \in Ids |-> IF Row(r) /\ rows[r].event = e THEN None ELSE rows[r]]
  /\ UNCHANGED <<diskVars, nodeVars, linkVars, nextRow, page, cacheVars, faults, listed, lost>>

\* The first segment of the row is older than retentionDays.
GrowOld(r) ==
  /\ Row(r) /\ ~rows[r].aged
  /\ rows' = [rows EXCEPT ![r].aged = TRUE]
  /\ UNCHANGED <<diskVars, nodeVars, linkVars, gone, nextRow, page, cacheVars, faults, listed, lost>>

Expired == {r \in Ids : Row(r) /\ rows[r].aged}

\* Temporary files no recorder has touched for an hour.
Orphans == {s \in tmp : In(s, "cut")}

\* Files of the node stay where they are.
RunRetention ==
  /\ Expired # {} \/ Orphans # {}
  /\ files' = files \ UNION {files \ RmLocal(rows[r].segs) : r \in Expired}
  /\ tmp' = tmp \ Orphans
  /\ rows' = [r \in Ids |-> IF r \in Expired THEN None ELSE rows[r]]
  /\ UNCHANGED <<nodeVars, linkVars, gone, nextRow, page, cacheVars, faults, listed, lost>>

-----------------------------------------------------------------------------
(* The page of an event's recordings and the cache behind it.               *)

\* toView: whether the files can be reached, when the page was read.
Flag(r) == IF rows[r].host = Local THEN "local"
           ELSE IF rows[r].host \in online THEN "online" ELSE "offline"

ListRecordings(e) ==
  IF MergeTarget(e) = {} THEN None
  ELSE LET r == CHOOSE q \in MergeTarget(e) : TRUE IN [row |-> r, flag |-> Flag(r)]

Refresh(e) ==
  /\ e \notin gone
  /\ page[e] # ListRecordings(e)
  /\ page' = [page EXCEPT ![e] = ListRecordings(e)]
  /\ UNCHANGED <<diskVars, nodeVars, linkVars, tableVars, cacheVars, faults, listed, lost>>

\* The row of the page, which may be gone: then the page keeps showing it.
RemoveRecording(e) ==
  /\ page[e] # None
  /\ DeleteRecording(page[e].row)
  /\ page' = [page EXCEPT ![e] = None]
  /\ UNCHANGED <<tmp, nodeVars, online, up, gone, nextRow, cacheVars, faults, listed, lost>>

\* A list in the database may name a file twice, or none on this disk.
ResolveSegments(r) ==
  IF rows[r].host # Local THEN rows[r].segs
  ELSE Omit(rows[r].segs, {s \in Sessions : s \notin files \/ session[s].host # Local})

\* resolveRecordingFile: the first segment of a local row has to be there.
FileThere(r) == rows[r].host = Local => session[rows[r].segs[1]].host = Local /\ rows[r].segs[1] \in files

\* Mutant: cached files are named by the row alone.
RowName(r, segs) == [row |-> r, of |-> <<>>]

GlueName(r, segs) == [row |-> r, of |-> segs]

Cached(name) == \E g \in glue : g.name = name

\* Each answer arms a timer of its own; earlier ones stay.
ScheduleGlueUnlink(name) == armed' = Append(armed, name)

\* Served from the cached file, with ranges.
ServeFile(r, segs, found) ==
  \E g \in found : /\ g.name = GlueName(r, segs)
                   /\ answer' = [of |-> segs, from |-> g.from]

\* Play or download from the page; an offline row is not offered.
Play(e) ==
  /\ views < MaxViews /\ asked = None
  /\ page[e] # None /\ page[e].flag # "offline" /\ Row(page[e].row)
  /\ LET r == page[e].row
         segs == ResolveSegments(r) IN
     /\ FileThere(r)
     /\ views' = views + 1
     /\ IF Cached(GlueName(r, segs))
        THEN /\ ScheduleGlueUnlink(GlueName(r, segs))
             /\ ServeFile(r, segs, glue)
             /\ UNCHANGED asked
        ELSE /\ asked' = [row |-> r, host |-> rows[r].host, segs |-> segs]
             /\ UNCHANGED <<armed, answer>>
  /\ UNCHANGED <<diskVars, nodeVars, linkVars, tableVars, page, glue, faults, listed, lost>>

\* Some file of the list reached the app, or the local files are all there.
Gluable ==
  IF asked.host = Local THEN ToSet(asked.segs) \subseteq files
  ELSE /\ asked.host \in online
       /\ \E s \in ToSet(asked.segs) : s \in files /\ session[s].host = asked.host

GlueDone ==
  /\ asked # None /\ Gluable
  /\ LET name == GlueName(asked.row, asked.segs)
         made == [name |-> name, from |-> asked.segs] IN
     /\ glue' = {g \in glue : g.name # name} \cup {made}
     /\ ScheduleGlueUnlink(name)
     /\ ServeFile(asked.row, asked.segs, {made})
  /\ asked' = None
  /\ UNCHANGED <<diskVars, nodeVars, linkVars, tableVars, page, views, faults, listed, lost>>

\* The node cannot be reached, no segment survived, or ffmpeg failed.
GlueFails ==
  /\ asked # None /\ ~Gluable
  /\ asked' = None
  /\ UNCHANGED <<diskVars, nodeVars, linkVars, tableVars, page, glue, armed, views, answer, faults, listed, lost>>

\* The oldest timer fires, whoever views the file now.
UnlinkGlue ==
  /\ armed # <<>>
  /\ glue' = {g \in glue : g.name # Head(armed)}
  /\ armed' = Tail(armed)
  /\ UNCHANGED <<diskVars, nodeVars, linkVars, tableVars, page, asked, views, answer, faults, listed, lost>>

\* The hourly sweep: what a restart left behind.
SweepGlue ==
  /\ glue # {} /\ armed = <<>>
  /\ glue' = {}
  /\ UNCHANGED <<diskVars, nodeVars, linkVars, tableVars, page, armed, asked, views, answer, faults, listed, lost>>

\* The app's process ends: connections, timers, the request and the recorder.
AppRestart ==
  /\ Fault
  /\ online' = {} /\ up' = [n \in Nodes |-> <<>>] /\ down' = [n \in Nodes |-> <<>>]
  /\ lost' = lost \cup UNION {Senders(n) : n \in Nodes}
  /\ armed' = <<>> /\ asked' = None
  /\ session' = [s \in Sessions |-> IF s \in tmp THEN [session[s] EXCEPT !.phase = "cut"]
                                    ELSE session[s]]
  /\ UNCHANGED <<diskVars, report, tableVars, page, glue, views, answer, listed>>

-----------------------------------------------------------------------------
Next ==
  \/ \E s \in Sessions :
       \/ \E e \in Events \cup {None}, h \in Hosts : Start(s, e, h)
       \/ End(s) \/ Scan(s) \/ Emit(s) \/ EmitUnsure(s) \/ GiveUp(s) \/ FinalizeRecording(s)
  \/ \E n \in Nodes :
       LinkDown(n) \/ LinkUp(n) \/ OnDelete(n) \/ HandleRecordingReady(n) \/ RefuseReport(n)
  \/ \E e \in Events : DeleteEvent(e) \/ Refresh(e) \/ RemoveRecording(e) \/ Play(e)
  \/ \E r \in Ids : GrowOld(r)
  \/ RunRetention \/ GlueDone \/ GlueFails \/ UnlinkGlue \/ SweepGlue \/ AppRestart

Spec == Init /\ [][Next]_vars

\* The node's goroutines and reconnection, the app's handling of a frame, and
\* the end of a stream's recorder; people and faults owe nothing.
Fairness ==
  /\ \A s \in Sessions : /\ WF_vars(Scan(s)) /\ SF_vars(Emit(s))
                         /\ WF_vars(FinalizeRecording(s))
  /\ \A n \in Nodes : WF_vars(LinkUp(n)) /\ WF_vars(HandleRecordingReady(n)) /\ WF_vars(RefuseReport(n))

FairSpec == Spec /\ Fairness

-----------------------------------------------------------------------------
TypeOK ==
  /\ \A s \in Published :
       /\ session[s].event \in Events \cup {None} /\ session[s].host \in Hosts
       /\ session[s].near \subseteq session[s].prior /\ session[s].prior \subseteq Published
       /\ session[s].phase \in {"live", "ended", "scanned", "cut"}
  /\ files \subseteq Published /\ tmp \subseteq Published
  /\ \A s \in Sessions : report[s] # None => report[s] \in Seq(Published)
  /\ online \subseteq Nodes /\ gone \subseteq Events
  /\ \A r \in Ids : Row(r) => /\ rows[r].host \in Hosts /\ rows[r].event \in (Events \ gone) \cup {None}
                              /\ rows[r].segs \in Seq(Published)
  /\ nextRow \in 1..MaxRows + 1
  /\ listed \subseteq Published /\ lost \subseteq Published

\* However often a report is sent again, and whichever reports overlap, a row
\* lists a segment once and counts its size once
\* (media-node-handlers.ts:254 handleRecordingReady).
CountedOnce ==
  \A r \in Ids : Row(r) => /\ IsInjective(rows[r].segs)
                           /\ rows[r].size = Len(rows[r].segs)

\* Every part of a stream's recording of an event is in one row, whichever
\* node or the app's own recorder wrote it (recordings.repository.ts:20
\* findMergeTarget): the page shows one recording per user.
OneRowPerEvent ==
  \A r, q \in Ids : /\ Row(r) /\ Row(q) /\ rows[r].event # None
                    /\ rows[r].event = rows[q].event
                    => r = q

\* The app keeps no segment on its disk that no row leads to, except those of
\* an event deleted with its rows (retention.ts:19, recordings.ts:176).
LocalFilesListed ==
  \A s \in files : session[s].host = Local /\ session[s].event \notin gone =>
    \E r \in Ids : Row(r) /\ s \in ToSet(rows[r].segs)

\* A report adds to a row and never drops or reorders what the row listed
\* before, as long as the row is there (media-node-handlers.ts:260).
PartsStay ==
  [][\A r \in Ids : Row(r) /\ rows'[r] # None => IsPrefix(rows[r].segs, rows'[r].segs)]_vars

\* A request is answered from a file glued from the very list the row had
\* when it was asked, cached or not (api/recordings/[id]/file.get.ts:127).
GlueFresh == answer # None => answer.of = answer.from

\* What a node recorded is listed in the end, through restarts and cut
\* connections, unless the report was lost on the way or its event is gone
\* (main.go:116 reportRecording).
ReportLands ==
  \A s \in Sessions :
    In(s, "ended") /\ s \in files ~>
      s \in listed \/ s \in lost \/ (s \in Published /\ session[s].event \in gone)

\* The ledger of recordings after any reports, deletions and playbacks: rows
\* list what there is, once and in one place, and playback shows the row
\* (media-node-handlers.ts:249, retention.ts:19, file.get.ts:127).
LedgerInv == TypeOK /\ CountedOnce /\ OneRowPerEvent /\ LocalFilesListed /\ GlueFresh
=============================================================================
